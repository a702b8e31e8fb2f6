------------------------------- MODULE FrameSlot -------------------------------
(***************************************************************************)
(* What decode_into promises the owner of a DecodedFrame it decodes into   *)
(* again and again: a call that returns Ok leaves the whole frame of that  *)
(* call; one that fails leaves either the frame that was there, untouched, *)
(* or that frame's header over no planes at all.  Never a frame with some  *)
(* rows of one call and some of another, and never a new header over old   *)
(* or missing planes.                                                      *)
(***************************************************************************)
EXTENDS Naturals

CONSTANT Headers

VARIABLES
  verdict,                 \* "running", "ok" or "error"; "none" before any call
  call,                    \* calls begun
  age,                     \* the call the slot's header and planes are from
  header,                  \* the slot's header
  content                  \* "none", "whole" or "torn"

slotVars == <<verdict, call, age, header, content>>

Init ==
  /\ verdict = "none" /\ call = 0 /\ age = 0
  /\ header \in Headers
  /\ content = "none"

Begin ==
  /\ verdict # "running"
  /\ verdict' = "running"
  /\ call' = call + 1
  /\ UNCHANGED <<age, header, content>>

(* The old planes are given up; their header stays. *)
Drain ==
  /\ verdict = "running"
  /\ content' = "none"
  /\ UNCHANGED <<verdict, call, age, header>>

Succeed ==
  /\ verdict = "running"
  /\ verdict' = "ok"
  /\ age' = call
  /\ header' \in Headers
  /\ content' = "whole"
  /\ UNCHANGED call

Fail ==
  /\ verdict = "running"
  /\ verdict' = "error"
  /\ UNCHANGED <<call, age, header, content>>

Next == Begin \/ Drain \/ Succeed \/ Fail

Spec == Init /\ [][Next]_slotVars
==============================================================================
