------------------------------ MODULE MCRegistry ------------------------------
(* Streams of up to three packets: timestamped, untimestamped or mixed, with  *)
(* a timestamp that goes back behind the counter.                             *)
EXTENDS Registry

MCTimestamps == [i \in 1 .. MaxPackets |-> {NoPts, 7 - 4 * i}]
==============================================================================
