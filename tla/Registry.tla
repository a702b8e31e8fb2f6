------------------------------- MODULE Registry -------------------------------
(***************************************************************************)
(* registry.rs: MagicYuvDecoder and MagicYuvEncoder as the framework sees  *)
(* them, each with one pending slot, chained by a caller that transcodes:  *)
(* it moves packets from a demuxer into the decoder, decoded frames into   *)
(* the encoder and packets out, in any interleaving, may call any method   *)
(* at any time, offers what was refused again, and gives a frame up when   *)
(* the encoder calls it invalid.  It flushes once its input has ended.     *)
(*                                                                         *)
(* Packets and frames carry an identity and a timestamp; whether a packet  *)
(* decodes, and whether its frame has the planes the encoder wants, comes  *)
(* with it.                                                                *)
(***************************************************************************)
EXTENDS Integers, Sequences

CONSTANTS
  NoPts,                   \* Option::None of a pts
  MaxPackets,              \* packets in the stream
  Timestamps               \* per packet, the pts the demuxer may give it

Packet == [id : 1 .. MaxPackets, pts : Int \cup {NoPts}, decodes : BOOLEAN, fits : BOOLEAN]

ASSUME RegistryAssumption ==
  /\ NoPts \notin Int
  /\ MaxPackets \in Nat
  /\ \A i \in 1 .. MaxPackets : Timestamps[i] \subseteq Int \cup {NoPts}

VARIABLES
  decPending,              \* MagicYuvDecoder.pending, at most one packet
  eof,                     \* MagicYuvDecoder.eof
  encPending,              \* MagicYuvEncoder.pending, at most one packet
  nextPts,                 \* MagicYuvEncoder.next_pts
  hand,                    \* frames the caller holds, decoded and not accepted
  accepted,                \* packets send_packet accepted
  failed,                  \* ids answered with an error by either codec
  received,                \* packets got from receive_packet
  reply,                   \* what the last call returned
  ended                    \* the caller's input has ended

vars == <<decPending, eof, encPending, nextPts, hand, accepted, failed, received, reply, ended>>

decoder == <<decPending, eof>>
encoder == <<encPending, nextPts>>

Init ==
  /\ decPending = << >> /\ eof = FALSE
  /\ encPending = << >> /\ nextPts = 0
  /\ hand = << >> /\ accepted = << >> /\ failed = {} /\ received = << >>
  /\ reply = "none" /\ ended = FALSE

------------------------------------------------------------------------------
(* Decoder::send_packet. *)
SendPacketOverwrites(p) ==
  /\ decPending' = <<p>>
  /\ accepted' = Append(accepted, p)
  /\ reply' = "Ok"

SendPacket(p) ==
  IF decPending # << >>
  THEN reply' = "Other" /\ UNCHANGED <<decPending, accepted>>
  ELSE /\ decPending' = <<p>>
       /\ accepted' = Append(accepted, p)
       /\ reply' = "Ok"

(* Decoder::receive_frame: an empty slot is Eof or NeedMore; a taken packet  *)
(* is gone whether it decodes or not.                                        *)
ReceiveFrameEofFirst ==
  IF eof
  THEN reply' = "Eof" /\ UNCHANGED <<decPending, hand, failed>>
  ELSE IF decPending = << >>
  THEN reply' = "NeedMore" /\ UNCHANGED <<decPending, hand, failed>>
  ELSE /\ decPending' = << >>
       /\ IF decPending[1].decodes
          THEN reply' = "Ok" /\ hand' = <<decPending[1]>> /\ UNCHANGED failed
          ELSE reply' = "Invalid" /\ failed' = failed \cup {decPending[1].id} /\ UNCHANGED hand

ReceiveFrame ==
  IF decPending = << >>
  THEN reply' = (IF eof THEN "Eof" ELSE "NeedMore") /\ UNCHANGED <<decPending, hand, failed>>
  ELSE /\ decPending' = << >>
       /\ IF decPending[1].decodes
          THEN reply' = "Ok" /\ hand' = <<decPending[1]>> /\ UNCHANGED failed
          ELSE reply' = "Invalid" /\ failed' = failed \cup {decPending[1].id} /\ UNCHANGED hand

(* Decoder::flush. *)
FlushIfEmpty == eof' = (eof \/ decPending = << >>)

Flush == eof' = TRUE

(* Encoder::send_frame: the plane checks and encode_frame come before the    *)
(* timestamp is chosen.                                                      *)
Stamp(f) == IF f.pts = NoPts THEN nextPts ELSE f.pts

SendFrameStampsFirst(f) ==
  IF encPending # << >>
  THEN reply' = "Other" /\ UNCHANGED <<encPending, nextPts, hand, failed>>
  ELSE /\ nextPts' = Stamp(f) + 1
       /\ hand' = << >>
       /\ IF f.fits
          THEN /\ encPending' = <<[id |-> f.id, pts |-> Stamp(f)]>>
               /\ reply' = "Ok" /\ UNCHANGED failed
          ELSE reply' = "Invalid" /\ failed' = failed \cup {f.id} /\ UNCHANGED encPending

SendFrame(f) ==
  IF encPending # << >>
  THEN reply' = "Other" /\ UNCHANGED <<encPending, nextPts, hand, failed>>
  ELSE /\ hand' = << >>
       /\ IF f.fits
          THEN /\ encPending' = <<[id |-> f.id, pts |-> Stamp(f)]>>
               /\ nextPts' = Stamp(f) + 1
               /\ reply' = "Ok" /\ UNCHANGED failed
          ELSE /\ reply' = "Invalid" /\ failed' = failed \cup {f.id}
               /\ UNCHANGED <<encPending, nextPts>>

(* Encoder::receive_packet: take, or NeedMore; there is no Eof.              *)
ReceivePacket ==
  IF encPending = << >>
  THEN reply' = "NeedMore" /\ UNCHANGED <<encPending, received>>
  ELSE /\ encPending' = << >>
       /\ received' = received \o encPending
       /\ reply' = "Ok"

------------------------------------------------------------------------------
(* The transcoding caller. *)
NextId == Len(accepted) + 1

CallSendPacket ==
  /\ ~ ended /\ NextId <= MaxPackets
  /\ \E pts \in Timestamps[NextId], decodes, fits \in BOOLEAN :
       SendPacket([id |-> NextId, pts |-> pts, decodes |-> decodes, fits |-> fits])
  /\ UNCHANGED <<eof, encoder, hand, failed, received, ended>>

CallReceiveFrame ==
  /\ hand = << >>
  /\ ReceiveFrame
  /\ UNCHANGED <<eof, encoder, accepted, received, ended>>

CallFlush ==
  /\ ~ ended
  /\ ended' = TRUE
  /\ Flush
  /\ reply' = "Ok"
  /\ UNCHANGED <<decPending, encoder, hand, accepted, failed, received>>

CallSendFrame ==
  /\ hand # << >>
  /\ SendFrame(hand[1])
  /\ UNCHANGED <<decoder, accepted, received, ended>>

CallReceivePacket ==
  /\ ReceivePacket
  /\ UNCHANGED <<decoder, nextPts, hand, accepted, failed, ended>>

Next ==
  \/ CallSendPacket
  \/ CallReceiveFrame
  \/ CallFlush
  \/ CallSendFrame
  \/ CallReceivePacket

(* A caller that goes on asking both codecs for output and goes on offering  *)
(* the frame it holds.                                                       *)
Fairness ==
  /\ WF_vars(CallReceiveFrame)
  /\ WF_vars(CallSendFrame)
  /\ WF_vars(CallReceivePacket)

Spec == Init /\ [][Next]_vars /\ Fairness

------------------------------------------------------------------------------
(* Each slot holds at most one packet, and an encoded packet always has a    *)
(* timestamp.                                                                *)
Coded == [id : 1 .. MaxPackets, pts : Int]

SlotsOK ==
  /\ decPending \in Seq(Packet) /\ Len(decPending) <= 1
  /\ hand \in Seq(Packet) /\ Len(hand) <= 1
  /\ encPending \in Seq(Coded) /\ Len(encPending) <= 1
  /\ received \in Seq(Coded)
  /\ accepted \in Seq(Packet)
  /\ failed \subseteq 1 .. MaxPackets
  /\ nextPts \in Int

FlagsOK ==
  /\ eof \in BOOLEAN /\ ended \in BOOLEAN
  /\ reply \in {"none", "Ok", "Other", "NeedMore", "Eof", "Invalid"}

TypeOK == SlotsOK /\ FlagsOK

(* Whatever the caller interleaves, every packet send_packet accepted is in  *)
(* exactly one place of the chain, in the order it was accepted: delivered,  *)
(* in the encoder's slot, in the caller's hand, in the decoder's slot, or    *)
(* answered with an error.  The one-element slots neither drop, repeat nor   *)
(* reorder, though decoder and caller both take before they process.         *)
Chain == received \o encPending \o hand \o decPending

Conserved ==
  /\ \A i, j \in DOMAIN Chain : i < j => Chain[i].id < Chain[j].id
  /\ {Chain[i].id : i \in DOMAIN Chain} = (1 .. Len(accepted)) \ failed

(* Eof is the last word: a decoder that has said it holds no packet and its  *)
(* caller has flushed, so no accepted packet is still to be decoded.         *)
EofComplete == reply = "Eof" => ended /\ decPending = << >>

(* The packets the encoder makes carry the timestamps of their frames; one   *)
(* without a timestamp follows the packet before it by one tick, however     *)
(* many frames were refused in between, and the first of a stream is 0.      *)
Made == received \o encPending

PtsFollow ==
  \A k \in DOMAIN Made :
    LET given == accepted[Made[k].id].pts
    IN  Made[k].pts = IF given # NoPts THEN given
                      ELSE IF k = 1 THEN 0 ELSE Made[k - 1].pts + 1

(* Under a caller that goes on calling, a flush is answered by Eof, also     *)
(* when a packet was pending as it came.                                     *)
FlushAnswered == ended ~> (reply = "Eof")

(* Under the same caller every accepted packet comes out or is answered with *)
(* an error, flushed or not: neither codec waits for more input.             *)
AllAnswered ==
  \A id \in 1 .. MaxPackets :
    (id <= Len(accepted)) ~> (id \in failed \/ \E k \in DOMAIN received : received[k].id = id)
==============================================================================
