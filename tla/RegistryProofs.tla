---------------------------- MODULE RegistryProofs ----------------------------
(***************************************************************************)
(* Why the transcoding chain loses, repeats and reorders nothing and keeps *)
(* its timestamps, for any number of packets: ids grow along the chain and *)
(* are, with the failed ones, all that were accepted; what waits in the    *)
(* decoder or in the caller's hand is still the packet that was accepted   *)
(* under its id; and next_pts is one tick after the last packet made.      *)
(***************************************************************************)
EXTENDS Registry, SequenceTheorems, TLAPS

(* A packet on its way is the one accepted under its id. *)
Original(s) == \A i \in DOMAIN s : s[i].id \in DOMAIN accepted /\ accepted[s[i].id] = s[i]

PtsKept ==
  /\ \A i \in DOMAIN accepted : accepted[i].id = i
  /\ Original(decPending) /\ Original(hand)
  /\ \A k \in DOMAIN Made : Made[k].id \in DOMAIN accepted
  /\ nextPts = IF Made = << >> THEN 0 ELSE Made[Len(Made)].pts + 1
  /\ PtsFollow

EofKept == (eof <=> ended) /\ EofComplete

(* The calls, with the packet they are about given a name. *)
Accept(p) ==
  /\ ~ ended /\ p \in Packet /\ p.id = NextId
  /\ SendPacket(p)
  /\ UNCHANGED <<eof, encoder, hand, failed, received, ended>>

LEMMA NextCases ==
  ASSUME Next
  PROVE  \/ \E p \in Packet : Accept(p)
         \/ CallReceiveFrame \/ CallFlush \/ CallSendFrame \/ CallReceivePacket
<1>1. ASSUME CallSendPacket PROVE \E p \in Packet : Accept(p)
  <2>1. PICK pts \in Timestamps[NextId], decodes \in BOOLEAN, fits \in BOOLEAN :
           SendPacket([id |-> NextId, pts |-> pts, decodes |-> decodes, fits |-> fits])
    BY <1>1 DEF CallSendPacket
  <2> DEFINE p == [id |-> NextId, pts |-> pts, decodes |-> decodes, fits |-> fits]
  <2>2. p \in Packet
    BY <1>1, RegistryAssumption DEF CallSendPacket, NextId, Packet
  <2> QED
    BY <1>1, <2>1, <2>2 DEF CallSendPacket, Accept
<1> QED
  BY <1>1 DEF Next

------------------------------------------------------------------------------
LEMMA Slot ==
  ASSUME NEW S
  PROVE  /\ << >> \in Seq(S) /\ Len(<< >>) = 0
         /\ \A e \in S : <<e>> \in Seq(S) /\ Len(<<e>>) = 1 /\ <<e>>[1] = e
         /\ \A s \in Seq(S) : s # << >> => Len(s) >= 1 /\ s[1] \in S
<1>1. \A e \in S : <<e>> \in Seq(S)
  OBVIOUS
<1>2. \A e \in S : Len(<<e>>) = 1 /\ <<e>>[1] = e
  OBVIOUS
<1>3. << >> \in Seq(S) /\ Len(<< >>) = 0
  OBVIOUS
<1>4. \A s \in Seq(S) : s # << >> => Len(s) >= 1 /\ s[1] \in S
  OBVIOUS
<1> QED
  BY <1>1, <1>2, <1>3, <1>4

LEMMA InitSlots == Init => SlotsOK
  BY Slot DEF Init, SlotsOK

LEMMA StepSlots == SlotsOK /\ [Next]_vars => SlotsOK'
<1> SUFFICES ASSUME SlotsOK, [Next]_vars PROVE SlotsOK'
  OBVIOUS
<1> USE DEF SlotsOK, decoder, encoder
<1>1. ASSUME NEW p \in Packet, Accept(p) PROVE SlotsOK'
  <2>1. <<p>> \in Seq(Packet) /\ Len(<<p>>) <= 1 /\ Append(accepted, p) \in Seq(Packet)
    BY Slot
  <2>2. /\ decPending' = decPending \/ decPending' = <<p>>
        /\ accepted' = accepted \/ accepted' = Append(accepted, p)
    BY <1>1 DEF Accept, SendPacket
  <2>3. UNCHANGED <<hand, encPending, nextPts, received, failed>>
    BY <1>1 DEF Accept
  <2> QED
    BY <2>1, <2>2, <2>3
<1>2. CASE CallReceiveFrame
  <2>1. decPending # << >> => decPending[1] \in Packet
    BY Slot
  <2>2. \A p \in Packet : p.id \in 1 .. MaxPackets
    BY DEF Packet
  <2> QED
    BY <1>2, <2>1, <2>2, Slot DEF CallReceiveFrame, ReceiveFrame
<1>3. CASE CallFlush
  BY <1>3 DEF CallFlush
<1>4. CASE CallSendFrame
  <2>1. hand[1] \in Packet
    BY <1>4, Slot DEF CallSendFrame
  <2>2. Stamp(hand[1]) \in Int /\ hand[1].id \in 1 .. MaxPackets
    BY <2>1 DEF Stamp, Packet
  <2>3. [id |-> hand[1].id, pts |-> Stamp(hand[1])] \in Coded
    BY <2>2 DEF Coded
  <2> QED
    <3> DEFINE made == [id |-> hand[1].id, pts |-> Stamp(hand[1])]
    <3>1. <<made>> \in Seq(Coded) /\ Len(<<made>>) <= 1
      BY <2>3, Slot
    <3>2. << >> \in Seq(Packet) /\ Len(<< >>) <= 1
      BY Slot
    <3>3. /\ hand' = hand \/ hand' = << >>
          /\ encPending' = encPending \/ encPending' = <<made>>
          /\ nextPts' = nextPts \/ nextPts' = Stamp(hand[1]) + 1
          /\ failed' = failed \/ failed' = failed \cup {hand[1].id}
          /\ UNCHANGED <<decPending, received, accepted>>
      BY <1>4 DEF CallSendFrame, SendFrame
    <3>4. nextPts' \in Int
      BY <2>2, <3>3
    <3>5. failed' \subseteq 1 .. MaxPackets
      BY <2>2, <3>3
    <3> HIDE DEF made
    <3> QED
      BY <3>1, <3>2, <3>3, <3>4, <3>5
<1>5. CASE CallReceivePacket
  <2>1. received \o encPending \in Seq(Coded) /\ << >> \in Seq(Coded) /\ Len(<< >>) <= 1
    BY Slot, ConcatProperties
  <2> QED
    BY <1>5, <2>1 DEF CallReceivePacket, ReceivePacket
<1>6. CASE UNCHANGED vars
  BY <1>6 DEF vars
<1> QED
  BY <1>1, <1>2, <1>3, <1>4, <1>5, <1>6, NextCases

LEMMA InitFlags == Init => FlagsOK
  BY Zenon DEF Init, FlagsOK

LEMMA StepFlags == FlagsOK /\ [Next]_vars => FlagsOK'
<1> SUFFICES ASSUME FlagsOK, [Next]_vars PROVE FlagsOK'
  OBVIOUS
<1> USE DEF FlagsOK
<1>1. ASSUME NEW p \in Packet, Accept(p) PROVE FlagsOK'
  BY <1>1, Zenon DEF Accept, SendPacket
<1>2. CASE CallReceiveFrame
  BY <1>2, Zenon DEF CallReceiveFrame, ReceiveFrame
<1>3. CASE CallFlush
  BY <1>3, Zenon DEF CallFlush, Flush
<1>4. CASE CallSendFrame
  BY <1>4, Zenon DEF CallSendFrame, SendFrame, decoder
<1>5. CASE CallReceivePacket
  BY <1>5, Zenon DEF CallReceivePacket, ReceivePacket, decoder
<1>6. CASE UNCHANGED vars
  BY <1>6, Zenon DEF vars
<1> QED
  BY <1>1, <1>2, <1>3, <1>4, <1>5, <1>6, NextCases

(* The one-element slots and the types of all that passes through them.      *)
THEOREM TypeCorrect == Spec => []TypeOK
<1>1. SlotsOK /\ FlagsOK => TypeOK
  BY DEF TypeOK
<1> QED
  BY InitSlots, StepSlots, InitFlags, StepFlags, <1>1, PTL DEF Spec
------------------------------------------------------------------------------
LEMMA InitEof == Init => EofKept
  BY Zenon DEF Init, EofKept, EofComplete

LEMMA StepEof == EofKept /\ [Next]_vars => EofKept'
<1> SUFFICES ASSUME EofKept, [Next]_vars PROVE EofKept'
  OBVIOUS
<1> USE DEF EofKept, EofComplete
<1>1. ASSUME NEW p \in Packet, Accept(p) PROVE EofKept'
  BY <1>1, Zenon DEF Accept, SendPacket
<1>2. CASE CallReceiveFrame
  BY <1>2, Zenon DEF CallReceiveFrame, ReceiveFrame
<1>3. CASE CallFlush
  BY <1>3, Zenon DEF CallFlush, Flush
<1>4. CASE CallSendFrame
  BY <1>4, Zenon DEF CallSendFrame, SendFrame, decoder
<1>5. CASE CallReceivePacket
  BY <1>5, Zenon DEF CallReceivePacket, ReceivePacket, decoder
<1>6. CASE UNCHANGED vars
  BY <1>6, Zenon DEF vars
<1> QED
  BY <1>1, <1>2, <1>3, <1>4, <1>5, <1>6, NextCases

(* The decoder says Eof only after the caller's flush and with nothing left, *)
(* whatever was called in between.                                           *)
THEOREM EofCorrect == Spec => []EofComplete
<1>1. EofKept => EofComplete
  BY DEF EofKept
<1> QED
  BY InitEof, StepEof, <1>1, PTL DEF Spec

------------------------------------------------------------------------------
(* What the two calls of the encoder do to the packets made so far.          *)
LEMMA MadeSoFar ==
  ASSUME SlotsOK
  PROVE  /\ Made \in Seq(Coded)
         /\ encPending = << >> => Made = received
  BY Slot, ConcatProperties, ConcatEmptySeq DEF SlotsOK, Made

LEMMA MadeByReceive ==
  ASSUME SlotsOK, ReceivePacket
  PROVE  Made' = Made
<1>1. received \o encPending \in Seq(Coded)
  BY ConcatProperties DEF SlotsOK
<1>2. CASE encPending = << >>
  BY <1>2 DEF ReceivePacket, Made
<1>3. CASE encPending # << >>
  <2>1. Made' = (received \o encPending) \o << >>
    BY <1>3 DEF ReceivePacket, Made
  <2> QED
    BY <1>1, <2>1, ConcatEmptySeq DEF Made
<1> QED
  BY <1>2, <1>3

LEMMA MadeBySend ==
  ASSUME SlotsOK, NEW m \in Coded, encPending = << >>, encPending' = <<m>>, received' = received
  PROVE  /\ Len(Made') = Len(Made) + 1
         /\ \A k \in DOMAIN Made : Made'[k] = Made[k]
         /\ Made'[Len(Made) + 1] = m
<1>1. Made' = Append(Made, m)
  <2>1. Made' = received \o <<m>>
    BY DEF Made
  <2>2. Append(received, m) = received \o <<m>>
    BY AppendIsConcat DEF SlotsOK
  <2> QED
    BY <2>1, <2>2, MadeSoFar
<1> QED
  BY <1>1, MadeSoFar, AppendProperties

LEMMA InitPts == Init => PtsKept
<1> SUFFICES ASSUME Init PROVE PtsKept
  OBVIOUS
<1>1. Made = << >>
  BY DEF Init, Made
<1> QED
  BY <1>1 DEF Init, PtsKept, PtsFollow, Original

LEMMA StepPts == SlotsOK /\ PtsKept /\ [Next]_vars => PtsKept'
<1> SUFFICES ASSUME SlotsOK, PtsKept, [Next]_vars PROVE PtsKept'
  OBVIOUS
<1>0. accepted \in Seq(Packet) /\ Made \in Seq(Coded)
  BY MadeSoFar DEF SlotsOK
<1>1. ASSUME NEW p \in Packet, Accept(p) PROVE PtsKept'
  <2>1. CASE decPending # << >>
    BY <1>1, <2>1 DEF Accept, SendPacket, PtsKept, PtsFollow, Original, Made, encoder
  <2>2. CASE decPending = << >>
    <3>1. /\ accepted' = Append(accepted, p) /\ decPending' = <<p>> /\ p.id = Len(accepted) + 1
          /\ hand' = hand /\ nextPts' = nextPts /\ Made' = Made
      BY <1>1, <2>2 DEF Accept, SendPacket, NextId, Made, encoder
    <3>2. /\ Len(accepted') = Len(accepted) + 1
          /\ \A i \in DOMAIN accepted : i \in DOMAIN accepted' /\ accepted'[i] = accepted[i]
          /\ accepted'[Len(accepted) + 1] = p
      BY <1>0, <3>1, AppendProperties
    <3>3. \A i \in DOMAIN accepted' : i \in DOMAIN accepted \/ i = Len(accepted) + 1
      BY <1>0, <3>1, AppendProperties
    <3>4. \A i \in DOMAIN accepted' : accepted'[i].id = i
      BY <3>1, <3>2, <3>3 DEF PtsKept
    <3>5. Original(decPending)' /\ Original(hand)'
      BY <1>0, <3>1, <3>2, Slot DEF PtsKept, Original
    <3>6. \A k \in DOMAIN Made : Made[k].id \in DOMAIN accepted' /\ accepted'[Made[k].id] = accepted[Made[k].id]
      BY <3>2 DEF PtsKept
    <3>7. PtsFollow'
      BY <3>1, <3>6 DEF PtsKept, PtsFollow
    <3> QED
      BY <3>1, <3>4, <3>5, <3>6, <3>7 DEF PtsKept
  <2> QED
    BY <2>1, <2>2
<1>2. CASE CallReceiveFrame
  <2>1. /\ decPending' = decPending \/ decPending' = << >>
        /\ hand' = hand \/ (hand' = <<decPending[1]>> /\ decPending # << >>)
        /\ UNCHANGED <<accepted, nextPts, encPending, received>>
    BY <1>2 DEF CallReceiveFrame, ReceiveFrame, encoder
  <2>2. Original(decPending)' /\ Original(hand)'
    BY <2>1, Slot DEF PtsKept, Original, SlotsOK
  <2>3. Made' = Made
    BY <2>1 DEF Made
  <2> QED
    BY <2>1, <2>2, <2>3 DEF PtsKept, PtsFollow
<1>3. CASE CallFlush
  BY <1>3 DEF CallFlush, PtsKept, PtsFollow, Original, Made, encoder
<1>4. CASE CallSendFrame
  <2> DEFINE f == hand[1]
             m == [id |-> f.id, pts |-> Stamp(f)]
  <2>1. UNCHANGED <<decPending, accepted, received>>
    BY <1>4 DEF CallSendFrame, decoder
  <2>2. Original(decPending)' /\ Original(hand)'
    BY <1>4, <2>1 DEF CallSendFrame, SendFrame, PtsKept, Original
  <2>3. CASE UNCHANGED <<encPending, nextPts>>
    BY <2>1, <2>2, <2>3 DEF PtsKept, PtsFollow, Made
  <2>4. CASE encPending = << >> /\ encPending' = <<m>> /\ nextPts' = Stamp(f) + 1
    <3>1. f \in Packet
      BY <1>4, Slot DEF CallSendFrame, SlotsOK
    <3>2. f.id \in DOMAIN accepted /\ accepted[f.id] = f
      BY <1>4 DEF CallSendFrame, PtsKept, Original, SlotsOK
    <3>3. m \in Coded /\ m.id = f.id /\ m.pts = Stamp(f)
      BY <3>1 DEF Coded, Packet, Stamp, SlotsOK
    <3>4. /\ Len(Made') = Len(Made) + 1
          /\ \A k \in DOMAIN Made : Made'[k] = Made[k]
          /\ Made'[Len(Made) + 1] = m
      BY <2>1, <2>4, <3>3, MadeBySend
    <3>5. DOMAIN Made' = 1 .. Len(Made) + 1 /\ Made' # << >>
      BY <2>1, <3>4, <1>0
    <3> HIDE DEF f, m
    <3>6. \A k \in DOMAIN Made' : k \in DOMAIN Made \/ k = Len(Made) + 1
      BY <1>0, <3>5
    <3>7. \A k \in DOMAIN Made' : Made'[k].id \in DOMAIN accepted
      BY <3>2, <3>3, <3>4, <3>6 DEF PtsKept
    <3>8. nextPts' = Made'[Len(Made')].pts + 1
      BY <2>4, <3>3, <3>4
    <3>9. ASSUME NEW k \in DOMAIN Made
          PROVE  Made'[k].pts = IF accepted[Made'[k].id].pts # NoPts THEN accepted[Made'[k].id].pts
                                ELSE IF k = 1 THEN 0 ELSE Made'[k - 1].pts + 1
      <4>1. k # 1 => k - 1 \in DOMAIN Made
        BY <1>0
      <4> QED
        BY <3>4, <4>1 DEF PtsKept, PtsFollow
    <3>10. m.pts = IF accepted[m.id].pts # NoPts THEN accepted[m.id].pts
                   ELSE IF Len(Made) + 1 = 1 THEN 0 ELSE Made'[Len(Made) + 1 - 1].pts + 1
      <4>1. Stamp(f) = IF f.pts = NoPts THEN nextPts ELSE f.pts
        BY DEF Stamp
      <4>2. nextPts = IF Len(Made) + 1 = 1 THEN 0 ELSE Made'[Len(Made) + 1 - 1].pts + 1
        BY <1>0, <3>4, Slot DEF PtsKept
      <4> QED
        BY <3>2, <3>3, <4>1, <4>2
    <3>11. PtsFollow'
      BY <2>1, <3>4, <3>6, <3>9, <3>10 DEF PtsFollow
    <3> QED
      BY <2>1, <2>2, <3>5, <3>7, <3>8, <3>11 DEF PtsKept
  <2> QED
    BY <1>4, <2>3, <2>4 DEF CallSendFrame, SendFrame
<1>5. CASE CallReceivePacket
  <2>1. UNCHANGED <<decPending, hand, accepted, nextPts>> /\ Made' = Made
    BY <1>5, MadeByReceive DEF CallReceivePacket, decoder
  <2> QED
    BY <2>1 DEF PtsKept, PtsFollow, Original
<1>6. CASE UNCHANGED vars
  BY <1>6 DEF vars, PtsKept, PtsFollow, Original, Made
<1> QED
  BY <1>1, <1>2, <1>3, <1>4, <1>5, <1>6, NextCases

(* However many frames are refused in between, the packets made carry their  *)
(* frames' timestamps or follow the packet before them by one tick.          *)
THEOREM PtsCorrect == Spec => []PtsFollow
<1>1. PtsKept => PtsFollow
  BY DEF PtsKept
<1> QED
  BY InitSlots, StepSlots, InitPts, StepPts, <1>1, PTL DEF Spec

------------------------------------------------------------------------------
Item == Coded \cup Packet

Growing(s) == \A i, j \in DOMAIN s : i < j => s[i].id < s[j].id
IdsIn(s)   == {s[i].id : i \in DOMAIN s}

ChainKept ==
  /\ Growing(Chain) /\ IdsIn(Chain) = (1 .. Len(accepted)) \ failed
  /\ failed \subseteq 1 .. Len(accepted)

LEMMA ItemIds == \A x \in Item : x.id \in Int
  BY RegistryAssumption DEF Item, Coded, Packet

(* A packet accepted comes last.                                             *)
LEMMA Added ==
  ASSUME NEW s \in Seq(Item), NEW x \in Item, Growing(s),
         \A i \in DOMAIN s : s[i].id < x.id
  PROVE  Growing(Append(s, x)) /\ IdsIn(Append(s, x)) = IdsIn(s) \cup {x.id}
<1>1. /\ DOMAIN Append(s, x) = 1 .. Len(s) + 1
      /\ \A i \in DOMAIN s : Append(s, x)[i] = s[i]
      /\ Append(s, x)[Len(s) + 1] = x
  BY AppendProperties
<1>2. \A i \in 1 .. Len(s) + 1 : i \in DOMAIN s \/ i = Len(s) + 1
  OBVIOUS
<1>3. Growing(Append(s, x))
  BY <1>1, <1>2, ItemIds DEF Growing
<1>4. IdsIn(Append(s, x)) = IdsIn(s) \cup {x.id}
  BY <1>1, <1>2 DEF IdsIn
<1> QED
  BY <1>3, <1>4

(* A packet that fails leaves its place, whichever it is, to those behind.   *)
LEMMA Removed ==
  ASSUME NEW s \in Seq(Item), NEW t \in Seq(Item), Growing(s),
         NEW k \in DOMAIN s, Len(t) = Len(s) - 1,
         \A i \in DOMAIN t : t[i] = IF i < k THEN s[i] ELSE s[i + 1]
  PROVE  Growing(t) /\ IdsIn(t) = IdsIn(s) \ {s[k].id}
<1> DEFINE from(i) == IF i < k THEN i ELSE i + 1
<1>1. \A i \in DOMAIN t : from(i) \in DOMAIN s /\ from(i) # k /\ t[i] = s[from(i)]
  OBVIOUS
<1>2. \A i, j \in DOMAIN t : i < j => from(i) < from(j)
  OBVIOUS
<1>3. \A j \in DOMAIN s : j # k => \E i \in DOMAIN t : from(i) = j
  <2> TAKE j \in DOMAIN s
  <2> HAVE j # k
  <2>1. CASE j < k
    BY <2>1
  <2>2. CASE j > k
    <3>1. j - 1 \in DOMAIN t /\ from(j - 1) = j
      BY <2>2
    <3> QED
      BY <3>1
  <2> QED
    BY <2>1, <2>2
<1>4. \A i, j \in DOMAIN s : i # j => s[i].id # s[j].id
  <2>1. \A i \in DOMAIN s : s[i].id \in Int
    BY ItemIds
  <2>2. \A i, j \in DOMAIN s : i # j => i < j \/ j < i
    OBVIOUS
  <2> QED
    BY <2>1, <2>2 DEF Growing
<1> HIDE DEF from
<1>5. Growing(t)
  BY <1>1, <1>2 DEF Growing
<1>6. IdsIn(t) = IdsIn(s) \ {s[k].id}
  BY <1>1, <1>3, <1>4 DEF IdsIn
<1> QED
  BY <1>5, <1>6

LEMMA Parts ==
  ASSUME SlotsOK
  PROVE  /\ received \in Seq(Item) /\ encPending \in Seq(Item)
         /\ hand \in Seq(Item) /\ decPending \in Seq(Item)
         /\ Made \in Seq(Item) /\ Chain \in Seq(Item)
<1>1. /\ received \in Seq(Item) /\ encPending \in Seq(Item)
      /\ hand \in Seq(Item) /\ decPending \in Seq(Item)
  BY SeqMonotonic DEF SlotsOK, Item
<1>2. Made \in Seq(Item)
  BY <1>1, ConcatProperties DEF Made
<1>3. Made \o hand \in Seq(Item)
  BY <1>1, <1>2, ConcatProperties
<1>4. Chain \in Seq(Item)
  BY <1>1, <1>3, ConcatProperties DEF Chain, Made
<1> QED
  BY <1>1, <1>2, <1>4

(* A slot holds one packet or none.                                          *)
LEMMA OneOrNone ==
  ASSUME NEW s \in Seq(Item), Len(s) <= 1
  PROVE  s # << >> => s = <<s[1]>> /\ s[1] \in Item
<1> SUFFICES ASSUME s # << >> PROVE s = <<s[1]>> /\ s[1] \in Item
  OBVIOUS
<1>1. Len(s) = 1 /\ s[1] \in Item
  <2>1. Len(s) \in Nat /\ Len(s) # 0
    OBVIOUS
  <2>2. \A n \in Nat : n <= 1 /\ n # 0 => n = 1
    OBVIOUS
  <2>3. s[1] \in Item
    BY Slot
  <2> QED
    BY <2>1, <2>2, <2>3
<1>2. <<s[1]>> \in Seq(Item) /\ Len(<<s[1]>>) = 1 /\ <<s[1]>>[1] = s[1]
  BY <1>1, Slot
<1> QED
  BY <1>1, <1>2, SeqEqual

(* Where the packets of three pieces end up when they are put together, the  *)
(* middle one a single packet, and when the middle one is left out.          *)
LEMMA Middle ==
  ASSUME NEW s \in Seq(Item), NEW x \in Item, NEW t \in Seq(Item)
  PROVE  /\ Len((s \o <<x>>) \o t) = Len(s) + 1 + Len(t)
         /\ \A i \in 1 .. Len(s) + 1 + Len(t) :
              ((s \o <<x>>) \o t)[i] = IF i <= Len(s) THEN s[i]
                                     ELSE IF i = Len(s) + 1 THEN x ELSE t[i - Len(s) - 1]
         /\ Len(s \o t) = Len(s) + Len(t)
         /\ \A i \in 1 .. Len(s) + Len(t) :
              (s \o t)[i] = IF i <= Len(s) THEN s[i] ELSE t[i - Len(s)]
<1>1. <<x>> \in Seq(Item) /\ Len(<<x>>) = 1 /\ <<x>>[1] = x
  BY Slot
<1>2. /\ s \o <<x>> \in Seq(Item) /\ Len(s \o <<x>>) = Len(s) + 1
      /\ \A i \in 1 .. Len(s) + 1 : (s \o <<x>>)[i] = IF i <= Len(s) THEN s[i] ELSE x
  BY <1>1, ConcatProperties
<1> QED
  BY <1>1, <1>2, ConcatProperties

LEMMA InitChain == Init => ChainKept
<1> SUFFICES ASSUME Init PROVE ChainKept
  OBVIOUS
<1>1. Chain = << >>
  BY DEF Init, Chain
<1> QED
  BY <1>1 DEF Init, ChainKept, Growing, IdsIn

(* A call that moves no packet, or only from one place of the chain to the   *)
(* next.                                                                     *)
LEMMA ChainStays ==
  ASSUME ChainKept, Chain' = Chain, accepted' = accepted, failed' = failed
  PROVE  ChainKept'
<1> DEFINE c == Chain
           n == Len(accepted)
<1>1. c' = c /\ n' = n
  OBVIOUS
<1>2. /\ \A i, j \in DOMAIN c : i < j => c[i].id < c[j].id
      /\ {c[i].id : i \in DOMAIN c} = (1 .. n) \ failed
      /\ failed \subseteq 1 .. n
  BY DEF ChainKept, Growing, IdsIn
<1> HIDE DEF c, n
<1>3. /\ \A i, j \in DOMAIN c' : i < j => c'[i].id < c'[j].id
      /\ {c'[i].id : i \in DOMAIN c'} = (1 .. n') \ failed'
      /\ failed' \subseteq 1 .. n'
  BY ONLY <1>1, <1>2, failed' = failed
<1> QED BY <1>3 DEF ChainKept, Growing, IdsIn, c, n

(* A call that loses a packet.                                               *)
LEMMA ChainLoses ==
  ASSUME ChainKept, NEW id, id \in 1 .. Len(accepted), NEW s,
         accepted' = accepted, failed' = failed \cup {id},
         Chain' = s, Growing(s), IdsIn(s) = IdsIn(Chain) \ {id}
  PROVE  ChainKept'
<1> DEFINE c == Chain
           n == Len(accepted)
<1>1. c' = s /\ n' = n
  OBVIOUS
<1>2. IdsIn(s) = (1 .. n) \ (failed \cup {id}) /\ failed \cup {id} \subseteq 1 .. n
  BY DEF ChainKept
<1> HIDE DEF c, n
<1>3. /\ \A i, j \in DOMAIN c' : i < j => c'[i].id < c'[j].id
      /\ {c'[i].id : i \in DOMAIN c'} = (1 .. n') \ failed'
      /\ failed' \subseteq 1 .. n'
  BY <1>1, <1>2 DEF Growing, IdsIn
<1> QED BY <1>3 DEF ChainKept, Growing, IdsIn, c, n

LEMMA StepChain == SlotsOK /\ ChainKept /\ [Next]_vars => ChainKept'
<1> SUFFICES ASSUME SlotsOK, ChainKept, [Next]_vars PROVE ChainKept'
  OBVIOUS
<1>0. SlotsOK'
  BY StepSlots
<1>1. ASSUME NEW p \in Packet, Accept(p) PROVE ChainKept'
  <2>1. CASE decPending # << >>
    <3>1. Chain' = Chain /\ accepted' = accepted /\ failed' = failed
      BY <1>1, <2>1 DEF Accept, SendPacket, Chain, encoder
    <3> QED BY <3>1, ChainStays
  <2>2. CASE decPending = << >>
    <3>1. /\ accepted' = Append(accepted, p) /\ p.id = Len(accepted) + 1
          /\ failed' = failed /\ Chain' = (Made \o hand) \o <<p>>
      BY <1>1, <2>2 DEF Accept, SendPacket, NextId, Made, Chain, encoder
    <3>2. Made \o hand \in Seq(Item) /\ p \in Item
      BY Parts, ConcatProperties DEF Item
    <3>3. Chain = Made \o hand
      BY <2>2, <3>2, ConcatEmptySeq DEF Chain, Made
    <3>4. Chain' = Append(Chain, p)
      BY <3>1, <3>2, <3>3, AppendIsConcat
    <3>5. \A i \in DOMAIN Chain : Chain[i].id \in 1 .. Len(accepted)
      BY DEF ChainKept, IdsIn
    <3>6. Len(accepted) \in Nat /\ Len(accepted') = Len(accepted) + 1
      BY <3>1, AppendProperties DEF SlotsOK
    <3>7. Growing(Chain') /\ IdsIn(Chain') = IdsIn(Chain) \cup {p.id}
      <4>1. \A i \in DOMAIN Chain : Chain[i].id < p.id
        BY <3>1, <3>5, <3>6
      <4>2. Chain \in Seq(Item) /\ Growing(Chain)
        BY Parts DEF ChainKept
      <4> QED
        BY <3>2, <3>4, <4>1, <4>2, Added
    <3>8. IdsIn(Chain') = (1 .. Len(accepted')) \ failed' /\ failed' \subseteq 1 .. Len(accepted')
      BY <3>1, <3>6, <3>7 DEF ChainKept
    <3> QED
      BY <3>7, <3>8 DEF ChainKept, Growing, IdsIn
  <2> QED
    BY <2>1, <2>2
<1>2. CASE CallReceiveFrame
  <2> DEFINE d == decPending[1]
  <2>1. hand = << >> /\ UNCHANGED <<accepted, received, encPending>> /\ Made' = Made
    BY <1>2 DEF CallReceiveFrame, encoder, Made
  <2>2. Made \o << >> = Made /\ Made \in Seq(Item)
    BY Parts, ConcatEmptySeq
  <2>3. CASE decPending = << >>
    <3>1. Chain' = Chain /\ accepted' = accepted /\ failed' = failed
      BY <1>2, <2>1, <2>3 DEF CallReceiveFrame, ReceiveFrame, Chain
    <3> QED BY <3>1, ChainStays
  <2>4. CASE decPending # << >>
    <3>1. decPending = <<d>> /\ d \in Item /\ decPending' = << >>
      BY <1>2, <2>4, Parts, OneOrNone DEF CallReceiveFrame, ReceiveFrame, SlotsOK
    <3>2. Chain = Made \o <<d>>
      BY <2>1, <2>2, <3>1 DEF Chain, Made
    <3>3. CASE d.decodes
      <4>1. hand' = <<d>> /\ failed' = failed
        BY <1>2, <2>4, <3>3 DEF CallReceiveFrame, ReceiveFrame
      <4>2. Chain' = (Made \o <<d>>) \o << >>
        BY <2>1, <3>1, <4>1 DEF Chain, Made
      <4>3. Chain' = Chain
        BY <3>2, <4>2, Parts, ConcatEmptySeq
      <4> QED
        BY <2>1, <4>1, <4>3, ChainStays
    <3>4. CASE ~ d.decodes
      <4>1. hand' = << >> /\ failed' = failed \cup {d.id}
        BY <1>2, <2>1, <2>4, <3>4 DEF CallReceiveFrame, ReceiveFrame
      <4>2. Chain' = Made
        BY <2>1, <2>2, <3>1, <4>1 DEF Chain, Made
      <4>3. /\ Len(Chain) = Len(Made) + 1 /\ Chain[Len(Made) + 1] = d
            /\ \A i \in 1 .. Len(Made) : Chain[i] = Made[i]
        BY <2>2, <3>1, <3>2, Slot, ConcatProperties
      <4>4. Growing(Made) /\ IdsIn(Made) = IdsIn(Chain) \ {d.id}
        <5>1. Len(Made) + 1 \in DOMAIN Chain /\ Len(Made) = Len(Chain) - 1
          BY <2>2, <4>3, Parts
        <5>2. \A i \in DOMAIN Made : Made[i] = IF i < Len(Made) + 1 THEN Chain[i] ELSE Chain[i + 1]
          BY <2>2, <4>3
        <5>3. Growing(Chain) /\ Chain \in Seq(Item)
          BY Parts DEF ChainKept
        <5> QED
          BY <2>2, <4>3, <5>1, <5>2, <5>3, Removed
      <4>5. d.id \in 1 .. Len(accepted)
        <5>1. Len(Made) + 1 \in DOMAIN Chain
          BY <2>2, <4>3, Parts
        <5>2. Chain[Len(Made) + 1].id \in IdsIn(Chain)
          BY <5>1 DEF IdsIn
        <5> QED
          BY <4>3, <5>2 DEF ChainKept
      <4> QED
        BY <2>1, <4>1, <4>2, <4>4, <4>5, ChainLoses
    <3> QED
      BY <3>3, <3>4
  <2> QED
    BY <2>3, <2>4
<1>3. CASE CallFlush
  <2>1. Chain' = Chain /\ accepted' = accepted /\ failed' = failed
    BY <1>3 DEF CallFlush, Chain, encoder
  <2> QED BY <2>1, ChainStays
<1>4. CASE CallSendFrame
  <2> DEFINE f == hand[1]
             m == [id |-> f.id, pts |-> Stamp(f)]
  <2>1. hand # << >> /\ UNCHANGED <<decPending, accepted, received>>
    BY <1>4 DEF CallSendFrame, decoder
  <2>2. hand = <<f>> /\ f \in Item /\ f \in Packet
    BY <2>1, Parts, OneOrNone, Slot DEF SlotsOK
  <2>3. CASE encPending # << >>
    BY <1>4, <2>1, <2>3 DEF CallSendFrame, SendFrame, ChainKept, Growing, IdsIn, Chain
  <2>4. CASE encPending = << >>
    <3>1. received \o << >> = received
      BY Parts, ConcatEmptySeq
    <3>2. Chain = (received \o <<f>>) \o decPending
      BY <2>2, <2>4, <3>1 DEF Chain
    <3>3. CASE f.fits
      <4>1. encPending' = <<m>> /\ hand' = << >> /\ failed' = failed
        BY <1>4, <2>4, <3>3 DEF CallSendFrame, SendFrame
      <4>2. m \in Item /\ m.id = f.id
        BY <2>2 DEF Item, Coded, Packet, Stamp, SlotsOK
      <4> HIDE DEF m, f
      <4>3. Chain' = (received \o <<m>>) \o decPending
        <5>1. received \o <<m>> \in Seq(Item)
          BY <4>2, Parts, Slot, ConcatProperties
        <5>2. (received \o <<m>>) \o << >> = received \o <<m>>
          BY <5>1, ConcatEmptySeq
        <5> QED
          BY <2>1, <4>1, <5>2 DEF Chain
      <4>4. DOMAIN Chain' = DOMAIN Chain /\ \A i \in DOMAIN Chain : Chain'[i].id = Chain[i].id
        BY <2>2, <3>2, <4>2, <4>3, Parts, Middle
      <4> QED
        BY <2>1, <4>1, <4>4 DEF ChainKept, Growing, IdsIn
    <3>4. CASE ~ f.fits
      <4>1. encPending' = << >> /\ hand' = << >> /\ failed' = failed \cup {f.id}
        BY <1>4, <2>4, <3>4 DEF CallSendFrame, SendFrame
      <4> HIDE DEF f
      <4>2. Chain' = received \o decPending
        BY <2>1, <3>1, <4>1 DEF Chain
      <4>3. Growing(Chain') /\ IdsIn(Chain') = IdsIn(Chain) \ {f.id} /\ f.id \in IdsIn(Chain)
        <5> DEFINE k == Len(received) + 1
        <5>1. /\ Len(Chain) = Len(received) + 1 + Len(decPending)
              /\ Len(Chain') = Len(received) + Len(decPending)
              /\ Chain \in Seq(Item) /\ Chain' \in Seq(Item)
          BY <2>2, <3>2, <4>2, Parts, Middle, ConcatProperties
        <5>2. Len(received) \in Nat /\ Len(decPending) \in Nat
          BY Parts, LenProperties
        <5>3. k \in DOMAIN Chain /\ Len(Chain') = Len(Chain) - 1 /\ DOMAIN Chain' = 1 .. Len(received) + Len(decPending)
          BY <5>1, <5>2
        <5>4. Chain[k] = f
          BY <2>2, <3>2, <5>2, Parts, Middle
        <5>5. \A i \in DOMAIN Chain' : Chain'[i] = IF i < k THEN Chain[i] ELSE Chain[i + 1]
          <6> TAKE i \in DOMAIN Chain'
          <6>1. Chain'[i] = IF i <= Len(received) THEN received[i] ELSE decPending[i - Len(received)]
            BY <2>2, <4>2, <5>3, Parts, Middle
          <6>2. CASE i <= Len(received)
            BY <2>2, <3>2, <5>2, <5>3, <6>1, <6>2, Parts, Middle
          <6>3. CASE ~ (i <= Len(received))
            <7>1. ~ (i < k)
              BY <5>2, <5>3, <6>3
            <7>2. \A n \in 1 .. Len(received) + 1 + Len(decPending) :
                    Chain[n] = IF n <= Len(received) THEN received[n]
                               ELSE IF n = Len(received) + 1 THEN f
                               ELSE decPending[n - Len(received) - 1]
              BY <2>2, <3>2, Parts, Middle
            <7> DEFINE l == i + 1
            <7>3. /\ l \in 1 .. Len(received) + 1 + Len(decPending)
                  /\ ~ (l <= Len(received)) /\ l # Len(received) + 1
                  /\ l - Len(received) - 1 = i - Len(received)
              BY <5>2, <5>3, <6>3
            <7>4. Chain[l] = decPending[i - Len(received)]
              <8> HIDE DEF l
              <8> QED
                BY <7>2, <7>3
            <7> QED
              BY <6>1, <6>3, <7>1, <7>4
          <6> QED
            BY <6>2, <6>3
        <5>6. Growing(Chain)
          BY DEF ChainKept
        <5>7. f.id \in IdsIn(Chain)
          BY <5>3, <5>4 DEF IdsIn
        <5> HIDE DEF k
        <5> QED
          BY <5>1, <5>3, <5>4, <5>5, <5>6, <5>7, Removed
      <4>4. f.id \in 1 .. Len(accepted)
        BY <4>3 DEF ChainKept
      <4> QED
        BY <2>1, <4>1, <4>3, <4>4 DEF ChainKept, Growing, IdsIn
    <3> QED
      BY <3>3, <3>4
  <2> QED
    BY <2>3, <2>4
<1>5. CASE CallReceivePacket
  <2>1. Made' = Made
    BY <1>5, MadeByReceive DEF CallReceivePacket
  <2>2. Chain' = Chain /\ UNCHANGED <<accepted, failed>>
    BY <1>5, <2>1 DEF CallReceivePacket, Chain, Made, decoder
  <2> QED
    BY <2>2, ChainStays
<1>6. CASE UNCHANGED vars
  <2>1. Chain' = Chain /\ accepted' = accepted /\ failed' = failed
    BY <1>6 DEF vars, Chain
  <2> QED BY <2>1, ChainStays
<1> QED
  BY <1>1, <1>2, <1>3, <1>4, <1>5, <1>6, NextCases

(* For any number of packets and any interleaving of the calls, each packet  *)
(* accepted is in exactly one place of the chain, in order, or has failed.   *)
THEOREM ConservedCorrect == Spec => []Conserved
<1>1. ChainKept => Conserved
  BY DEF ChainKept, Conserved, Growing, IdsIn
<1> QED
  BY InitSlots, StepSlots, InitChain, StepChain, <1>1, PTL DEF Spec
==============================================================================
