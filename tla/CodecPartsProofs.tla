--------------------------- MODULE CodecPartsProofs ---------------------------
(***************************************************************************)
(* Proofs about the loops of the codec that share no state: the bit        *)
(* packers, the raw unpacker, the residual builder, the descriptors, the   *)
(* header and the predictors.                                              *)
(***************************************************************************)
EXTENDS Descriptor, Header, BitWriter, RawUnpack, SliceResiduals, Predict,
        FiniteSetTheorems, Lemmas

------------------------------------------------------------------------------
(* BitWriter.  For every sequence of codes of up to 32 bits and every raw    *)
(* depth: the accumulator never loses, moves or overlays a waiting bit, and  *)
(* all three packing loops implement the one abstract sink.                  *)

(* AccFaithful needs the bound on `used` of the types, and the types need    *)
(* nothing back from it but that `written` accounts for every bit.           *)
WriterInv == TypeOK /\ AccFaithful

(* A code of up to 32 bits behind at most seven waiting ones: they stay, the *)
(* code follows them, everything below is 0.                                 *)
LEMMA CodeMerged ==
  ASSUME WriterInv, phase = "code", NEW l \in 1 .. 32, loop = "raw" => l <= 16
  PROVE  Merge(l) = [j \in Slots |-> IF j < used + l THEN 8 * pushed + j ELSE Zero]
<1>1. used \in 0 .. 7 /\ pushed \in Nat /\ written = 8 * pushed + used
  BY DEF WriterInv, TypeOK, AccFaithful
<1>2. ASSUME NEW j \in Slots
      PROVE  Or(acc[j], Placed(l, used + l - 1 - j))
               = IF j < used + l THEN 8 * pushed + j ELSE Zero
  <2>1. j \in Nat /\ acc[j] = IF j < used THEN 8 * pushed + j ELSE Zero
    BY DEF WriterInv, AccFaithful, Slots, AccBits
  <2> DEFINE b == used + l - 1 - j
  <2>2. b \in Int
    BY <1>1, <2>1
  <2>3. Placed(l, b) = IF b >= 0 /\ b < l THEN written + (l - 1 - b) ELSE Zero
    BY <2>2 DEF Placed, GivenBit, MaskedBit, SampleBit, CodeBit
  <2>4. CASE j < used
    <3>1. Placed(l, b) = Zero
      BY <1>1, <2>1, <2>2, <2>3, <2>4
    <3>2. Or(acc[j], Placed(l, b)) = acc[j]
      BY <3>1 DEF Or
    <3>3. j < used + l
      BY <1>1, <2>1, <2>4
    <3>4. QED
      BY <2>1, <2>4, <3>2, <3>3
  <2>5. CASE ~ (j < used)
    <3>1. Placed(l, b) = IF j < used + l THEN 8 * pushed + j ELSE Zero
      BY <1>1, <2>1, <2>2, <2>3, <2>5
    <3>2. acc[j] = Zero
      BY <2>1, <2>5
    <3>3. Or(acc[j], Placed(l, b)) = Placed(l, b)
      BY <3>2 DEF Or
    <3>4. QED
      BY <3>1, <3>3
  <2>6. QED
    BY <2>4, <2>5
<1>3. QED
  BY <1>2 DEF Merge

(* A byte that leaves the top takes the eight oldest waiting bits.           *)
LEMMA ByteShifted ==
  ASSUME WriterInv, phase = "drain"
  PROVE  Shl(acc, 8) = [j \in Slots |-> IF j < used - 8 THEN 8 * (pushed + 1) + j ELSE Zero]
<1>1. /\ used \in 8 .. 39 /\ pushed \in Nat
      /\ acc = [j \in Slots |-> IF j < used THEN 8 * pushed + j ELSE Zero]
  BY DEF WriterInv, TypeOK, AccFaithful
<1>2. ASSUME NEW j \in Slots
      PROVE  (IF j + 8 < AccBits THEN acc[j + 8] ELSE Zero)
               = IF j < used - 8 THEN 8 * (pushed + 1) + j ELSE Zero
  BY <1>1 DEF Slots, AccBits
<1>3. QED
  BY <1>2 DEF Shl

(* The top byte, whole or filled up with zeros.                              *)
LEMMA TopByteFaithful ==
  ASSUME WriterInv, phase # "returned"
  PROVE  Top(acc, 8) = [j \in 0 .. 7 |-> IF 8 * pushed + j < written
                                         THEN 8 * pushed + j ELSE Zero]
<1>1. /\ used \in Nat /\ pushed \in Nat /\ written = 8 * pushed + used
      /\ acc = [j \in Slots |-> IF j < used THEN 8 * pushed + j ELSE Zero]
  BY DEF WriterInv, TypeOK, AccFaithful
<1>2. ASSUME NEW j \in 0 .. 7
      PROVE  acc[j] = IF 8 * pushed + j < written THEN 8 * pushed + j ELSE Zero
  BY <1>1 DEF Slots, AccBits
<1>3. Top(acc, 8) = [j \in 0 .. 7 |-> acc[j]]
  BY DEF Top
<1>4. QED
  BY <1>2, <1>3

LEMMA WriterInitInv == Init => WriterInv
<1>1. SUFFICES ASSUME Init PROVE WriterInv
  OBVIOUS
<1>2. Blank \in [Slots -> Int]
  BY DEF Blank, Zero
<1>3. TypeOK
  BY <1>1, <1>2 DEF Init, TypeOK
<1>4. Blank = [j \in Slots |-> IF j < 0 THEN 8 * 0 + j ELSE Zero]
  BY DEF Blank, Slots, AccBits
<1>5. AccFaithful
  BY <1>1, <1>4 DEF Init, AccFaithful
<1>6. QED
  BY <1>3, <1>5 DEF WriterInv

(* Merging a code, for the two actions that do.                              *)
LEMMA AppendInv ==
  ASSUME WriterInv, NEW l \in 1 .. 32, loop = "raw" => l <= 16, AppendCode(l)
  PROVE  WriterInv'
<1>1. /\ used \in 0 .. 7 /\ pushed \in Nat /\ written = 8 * pushed + used
      /\ phase = "code"
  BY DEF WriterInv, TypeOK, AccFaithful, AppendCode
<1>2. acc' = [j \in Slots |-> IF j < used + l THEN 8 * pushed + j ELSE Zero]
  BY <1>1, CodeMerged DEF AppendCode
<1>3. acc' \in [Slots -> Int]
  BY <1>1, <1>2 DEF Slots, AccBits, Zero
<1>4. used' \in 0 .. 39 /\ used' = used + l /\ written' = written + l
  BY <1>1 DEF AppendCode
<1>5. /\ phase' \in {"code", "drain"}
      /\ phase' = "code" => used' < 8
      /\ phase' = "drain" => used' >= 8
  BY <1>1, <1>4 DEF AppendCode, PhaseAt
<1>6. TypeOK'
  BY <1>1, <1>3, <1>4, <1>5 DEF AppendCode, WriterInv, TypeOK
<1>7. AccFaithful'
  BY <1>1, <1>2, <1>4 DEF AppendCode, AccFaithful
<1>8. QED
  BY <1>6, <1>7 DEF WriterInv

LEMMA DrainInv ==
  ASSUME WriterInv, DrainByte
  PROVE  WriterInv'
<1>1. /\ used \in 8 .. 39 /\ pushed \in Nat /\ written = 8 * pushed + used
      /\ phase = "drain"
  BY DEF WriterInv, TypeOK, AccFaithful, DrainByte
<1>2. acc' = [j \in Slots |-> IF j < used - 8 THEN 8 * (pushed + 1) + j ELSE Zero]
  BY <1>1, ByteShifted DEF DrainByte
<1>3. acc' \in [Slots -> Int]
  BY <1>1, <1>2 DEF Slots, AccBits, Zero
<1>4. used' = used - 8 /\ used' \in 0 .. 39 /\ pushed' = pushed + 1 /\ written' = written
  BY <1>1 DEF DrainByte, PushTop
<1>5. /\ phase' \in {"code", "drain"}
      /\ phase' = "code" => used' < 8
      /\ phase' = "drain" => used' >= 8
  BY <1>1, <1>4 DEF DrainByte, PhaseAt
<1>6. TypeOK'
  BY <1>1, <1>3, <1>4, <1>5 DEF DrainByte, WriterInv, TypeOK
<1>7. AccFaithful'
  BY <1>1, <1>2, <1>4 DEF AccFaithful
<1>8. QED
  BY <1>6, <1>7 DEF WriterInv

LEMMA WriterNextInv == WriterInv /\ [Next]_vars => WriterInv'
<1>1. SUFFICES ASSUME WriterInv, [Next]_vars PROVE WriterInv'
  OBVIOUS
<1>2. ASSUME NEW l \in CodeLengths, WriteCode(l)
      PROVE  WriterInv'
  <2>1. l \in 1 .. 32 /\ loop # "raw" /\ AppendCode(l)
    BY <1>2, BitWriterAssumption DEF WriteCode
  <2>2. QED
    BY <1>1, <2>1, AppendInv
<1>3. CASE PackSample
  <2>1. bits \in 1 .. 32 /\ bits <= 16 /\ AppendCode(bits)
    BY <1>3 DEF PackSample
  <2>2. QED
    BY <1>1, <2>1, AppendInv
<1>4. CASE DrainByte
  BY <1>1, <1>4, DrainInv
<1>5. CASE Finish
  BY <1>1, <1>5 DEF Finish, PushTop, WriterInv, TypeOK, AccFaithful
<1>6. CASE UNCHANGED vars
  BY <1>1, <1>6 DEF vars, WriterInv, TypeOK, AccFaithful
<1>7. QED
  BY <1>1, <1>2, <1>3, <1>4, <1>5, <1>6 DEF Next

(* The packing loops keep their types: at most 39 bits ever wait, so a code  *)
(* of 32 bits behind seven others never reaches the end of the u64.          *)
THEOREM WriterTypeCorrect == Spec => []TypeOK
<1>1. WriterInv => TypeOK
  BY DEF WriterInv
<1>2. QED
  BY <1>1, WriterInitInv, WriterNextInv, PTL DEF Spec

(* No waiting bit is ever lost, moved or overlaid.                           *)
THEOREM AccAlwaysFaithful == Spec => []AccFaithful
<1>1. WriterInv => AccFaithful
  BY DEF WriterInv
<1>2. QED
  BY <1>1, WriterInitInv, WriterNextInv, PTL DEF Spec

(* A merge is the sink accepting the bits of the code.                       *)
LEMMA AppendAccepts ==
  ASSUME WriterInv, NEW l \in 1 .. 32, AppendCode(l)
  PROVE  Sink!Accept(l)
<1>1. used \in 0 .. 7 /\ pushed \in Nat /\ written = 8 * pushed + used
  BY DEF WriterInv, TypeOK, AccFaithful, AppendCode
<1>2. pushed = written \div 8
  BY <1>1
<1>3. phase # "returned" /\ phase' # "returned"
  BY DEF AppendCode, PhaseAt
<1>4. QED
  BY <1>2, <1>3 DEF AppendCode, Sink!Accept, Sink!Drained

LEMMA DrainEmits ==
  ASSUME WriterInv, DrainByte
  PROVE  Sink!Emit
<1>1. used \in 8 .. 39 /\ pushed \in Nat /\ written = 8 * pushed + used
  BY DEF WriterInv, TypeOK, AccFaithful, DrainByte
<1>2. pushed # written \div 8
  BY <1>1
<1>3. phase # "returned" /\ phase' # "returned"
  BY DEF DrainByte, PhaseAt
<1>4. byte' = Sink!ByteAt(pushed)
  BY <1>3, TopByteFaithful DEF DrainByte, PushTop, Sink!ByteAt, Sink!Zero, Zero
<1>5. QED
  BY <1>2, <1>3, <1>4 DEF DrainByte, PushTop, Sink!Emit, Sink!Drained

LEMMA FinishCloses ==
  ASSUME WriterInv, Finish
  PROVE  Sink!Close
<1>1. used \in 0 .. 7 /\ pushed \in Nat /\ written = 8 * pushed + used
  BY DEF WriterInv, TypeOK, AccFaithful, Finish
<1>2. pushed = written \div 8 /\ (written % 8 = 0 <=> ~ (used > 0))
  BY <1>1
<1>3. phase # "returned" /\ phase' = "returned"
  BY DEF Finish
<1>4. Top(acc, 8) = Sink!ByteAt(pushed)
  BY <1>3, TopByteFaithful DEF Sink!ByteAt, Sink!Zero, Zero
<1>5. QED
  BY <1>2, <1>3, <1>4 DEF Finish, PartialByte, PushTop, Sink!Close, Sink!Drained

(* write, pack_raw_bits_from_u16 and pack_huffman_residuals put out the very *)
(* bits they are given, in order and zero-padded to a byte.                  *)
THEOREM ImplementsSink == Spec => SinkSpec
<1>1. Init => Sink!Init
  BY DEF Init, Sink!Init
<1>2. WriterInv /\ [Next]_vars => [Sink!Next]_Sink!sinkVars
  <2>1. SUFFICES ASSUME WriterInv, [Next]_vars PROVE [Sink!Next]_Sink!sinkVars
    OBVIOUS
  <2>2. ASSUME NEW l \in CodeLengths, WriteCode(l)
        PROVE  Sink!Next
    <3>1. l \in 1 .. 32 /\ AppendCode(l)
      BY <2>2, BitWriterAssumption DEF WriteCode
    <3>2. QED
      BY <2>1, <3>1, AppendAccepts DEF Sink!Next
  <2>3. ASSUME PackSample PROVE Sink!Next
    <3>1. bits \in 1 .. 32 /\ AppendCode(bits)
      BY <2>3 DEF PackSample
    <3>2. bits \in RawDepths
      BY <2>1 DEF WriterInv, TypeOK
    <3>3. QED
      BY <2>1, <3>1, <3>2, AppendAccepts DEF Sink!Next
  <2>4. ASSUME DrainByte PROVE Sink!Next
    BY <2>1, <2>4, DrainEmits DEF Sink!Next
  <2>5. ASSUME Finish PROVE Sink!Next
    BY <2>1, <2>5, FinishCloses DEF Sink!Next
  <2>6. ASSUME UNCHANGED vars PROVE UNCHANGED Sink!sinkVars
    BY <2>6 DEF vars, Sink!sinkVars
  <2>7. QED
    BY <2>1, <2>2, <2>3, <2>4, <2>5, <2>6 DEF Next
<1>3. QED
  BY <1>1, <1>2, WriterInitInv, WriterNextInv, PTL DEF Spec, SinkSpec, Sink!Spec

------------------------------------------------------------------------------
(* RawUnpack.  For payloads of every length and samples of every width up to *)
(* 16 bits: the unpacker's window stays faithful, and it reads the same bit  *)
(* stream as BitReader, although it pads and counts differently.             *)

RawInv == RawTypeOK /\ WindowFaithful

(* A merge of whole bytes that ends past the data is at its end: the byte    *)
(* count is capped one above what is left.                                   *)
LEMMA MergeBytesFaithful ==
  ASSUME NEW n \in Nat, NEW c \in Nat, NEW w, Faithful(n, c, w),
         NEW want \in Nat, w.fill + 8 * want <= AccBits
  PROVE  LET v == MergeBytes(n, w, UpToOnePad(n, w, want))
         IN  /\ Faithful(n, c, v)
             /\ v.fill >= w.fill + 8 * want \/ AtEnd(n, c, v)
<1> DEFINE m == UpToOnePad(n, w, want)
<1> DEFINE v == MergeBytes(n, w, m)
<1>1. /\ w.fill \in 0 .. AccBits
      /\ w.pos \in Nat
      /\ w.pos <= n
      /\ c + w.fill = 8 * w.pos \/ AtEnd(n, c, w)
  BY DEF Faithful, Windows
<1>2. /\ m \in Nat
      /\ m <= want
      /\ m < want => m = n - w.pos + 1
  BY <1>1 DEF UpToOnePad, Least
<1>3. w.fill + 8 * m \in Int /\ w.fill + 8 * m <= AccBits
  BY <1>1, <1>2 DEF AccBits
<1>4. Faithful(n, c, v)
  BY <1>1, <1>2, <1>3, MergeFaithful DEF MergeBytes, AccBits
<1>5. v.fill >= w.fill + 8 * want \/ AtEnd(n, c, v)
  <2>1. v.fill = w.fill + 8 * m /\ v.pos = Least(n, w.pos + m)
    BY DEF MergeBytes
  <2>2. CASE m = want
    BY <1>1, <1>2, <2>1, <2>2 DEF AccBits
  <2>3. CASE m < want
    <3>1. m = n - w.pos + 1
      BY <1>2, <2>3
    <3>2. v.pos = n
      BY <1>1, <2>1, <3>1 DEF Least
    <3>3. c + v.fill >= 8 * n
      BY <1>1, <2>1, <3>1 DEF AtEnd, AccBits
    <3>4. QED
      BY <3>2, <3>3 DEF AtEnd
  <2>4. QED
    BY <1>2, <2>2, <2>3
<1>6. QED
  BY <1>4, <1>5

(* An 8-byte load is faithful and leaves more than 56 valid bits.            *)
LEMMA WideLoadFaithful ==
  ASSUME NEW n \in Nat, NEW c \in Nat, NEW w, Faithful(n, c, w), w.pos + 8 <= n
  PROVE  Faithful(n, c, WideLoad(n, w)) /\ WideLoad(n, w).fill > 56
<1>1. w.fill \in 0 .. AccBits /\ w.pos \in Nat
  BY DEF Faithful, Windows
<1>2. /\ Room(w.fill) \in 0 .. 8
      /\ w.fill + 8 * Room(w.fill) <= AccBits
      /\ AccBits - 8 < w.fill + 8 * Room(w.fill)
  BY <1>1, RoomProperties
<1>3. Faithful(n, c, [acc  |-> Load(n, w.acc, w.pos, w.fill, AccBits),
                      fill |-> w.fill + 8 * Room(w.fill),
                      pos  |-> Least(n, w.pos + Room(w.fill))])
  BY <1>1, <1>2, MergeFaithful DEF AccBits
<1>4. Least(n, w.pos + Room(w.fill)) = w.pos + Room(w.fill)
  BY <1>1, <1>2 DEF Least
<1>5. QED
  BY <1>2, <1>3, <1>4 DEF WideLoad, AccBits

(* After the top-up enough bits are valid, or the data has been used up.     *)
LEMMA TopUpFaithful ==
  ASSUME NEW n \in Nat, NEW c \in Nat, NEW w, Faithful(n, c, w), NEW d \in 1 .. 16
  PROVE  /\ Faithful(n, c, TopUp(n, w, d))
         /\ d <= TopUp(n, w, d).fill \/ AtEnd(n, c, TopUp(n, w, d))
<1>1. w.fill \in 0 .. AccBits
  BY DEF Faithful, Windows
<1>2. CASE w.fill >= d
  BY <1>2 DEF TopUp
<1>3. CASE w.fill < d /\ w.pos + 8 <= n
  <2>1. TopUp(n, w, d) = WideLoad(n, w)
    BY <1>1, <1>3 DEF TopUp, AccBits
  <2>2. Faithful(n, c, WideLoad(n, w)) /\ WideLoad(n, w).fill > 56
    BY <1>3, WideLoadFaithful
  <2>3. WideLoad(n, w).fill \in 0 .. AccBits
    BY <2>2 DEF Faithful, Windows
  <2>4. QED
    BY <2>1, <2>2, <2>3 DEF AccBits
<1>4. CASE w.fill < d /\ ~ (w.pos + 8 <= n)
  <2>1. TopUp(n, w, d) = MergeBytes(n, w, UpToOnePad(n, w, Missing(w, d)))
    BY <1>1, <1>4 DEF TopUp, AccBits
  <2>2. /\ Missing(w, d) \in Nat
        /\ w.fill + 8 * Missing(w, d) >= d
        /\ w.fill + 8 * Missing(w, d) <= AccBits
    <3>1. \A x \in 8 .. 23 : x \div 8 \in Nat /\ 8 * (x \div 8) <= x /\ x - 8 < 8 * (x \div 8)
      OBVIOUS
    <3>2. d - w.fill + 7 \in 8 .. 23
      BY <1>1, <1>4 DEF AccBits
    <3>3. /\ Missing(w, d) \in Nat
          /\ 8 * Missing(w, d) <= d - w.fill + 7
          /\ d - w.fill - 1 < 8 * Missing(w, d)
      BY <3>1, <3>2, <1>1 DEF Missing, AccBits
    <3>4. QED
      BY <1>1, <3>3 DEF AccBits
  <2>3. /\ Faithful(n, c, TopUp(n, w, d))
        /\ \/ TopUp(n, w, d).fill >= w.fill + 8 * Missing(w, d)
           \/ AtEnd(n, c, TopUp(n, w, d))
    BY <2>1, <2>2, MergeBytesFaithful
  <2>4. TopUp(n, w, d).fill \in 0 .. AccBits
    BY <2>3 DEF Faithful, Windows
  <2> DEFINE f == TopUp(n, w, d).fill
  <2> DEFINE b == w.fill + 8 * Missing(w, d)
  <2>5. b \in Int /\ d <= b /\ f \in Int
    BY <1>1, <2>2, <2>4 DEF AccBits
  <2>6. f >= b \/ AtEnd(n, c, TopUp(n, w, d))
    BY <2>3
  <2> HIDE DEF f, b
  <2>7. d <= f \/ AtEnd(n, c, TopUp(n, w, d))
    BY <2>5, <2>6
  <2>8. QED
    BY <2>3, <2>7 DEF f
<1>5. QED
  BY <1>1, <1>2, <1>3, <1>4 DEF AccBits

LEMMA RawInitInv == RawInit => RawInv
<1> SUFFICES ASSUME RawInit PROVE RawInv
  OBVIOUS
<1> DEFINE empty == [acc |-> Blank, fill |-> 0, pos |-> 0]
<1>1. len \in Nat
  BY RawUnpackAssumption DEF RawInit
<1>2. Faithful(len, 0, empty)
  <2>1. Blank \in [Slots -> Int] /\ \A j \in Slots : j >= 0 /\ Blank[j] = Zero
    BY DEF Blank, Slots, Zero
  <2>2. QED
    BY <1>1, <2>1 DEF Faithful, Windows, AccBits
<1>3. Faithful(len, 0, win)
  <2>1. CASE len >= 8
    <3>1. win = WideLoad(len, empty)
      BY <2>1 DEF RawInit, InitialFill
    <3>2. QED
      BY <1>1, <1>2, <2>1, <3>1, WideLoadFaithful
  <2>2. CASE ~ (len >= 8)
    <3>1. win = MergeBytes(len, empty, UpToOnePad(len, empty, 8))
      BY <2>2 DEF RawInit, InitialFill
    <3>2. empty.fill + 8 * 8 <= AccBits
      BY DEF AccBits
    <3>3. QED
      BY <1>1, <1>2, <3>1, <3>2, MergeBytesFaithful
  <2>3. QED
    BY <2>1, <2>2
<1>4. 0 \in 0 .. 8 * len + Beyond
  BY <1>1, RawUnpackAssumption
<1>5. QED
  BY <1>3, <1>4 DEF RawInit, RawInv, RawTypeOK, WindowFaithful, Faithful

(* Every sample is the next sampleBits bits of the stream.                   *)
LEMMA RawStepCorrect == RawInv /\ [RawNext]_rawVars => RawInv' /\ [Stream!Next]_Stream!streamVars
<1> SUFFICES ASSUME RawInv, [RawNext]_rawVars
             PROVE  RawInv' /\ [Stream!Next]_Stream!streamVars
  OBVIOUS
<1>1. CASE Sample
  <2> DEFINE w == TopUp(len, win, sampleBits)
  <2>1. /\ len \in Nat
        /\ taken \in Nat
        /\ Beyond \in Nat
        /\ Faithful(len, taken, win)
    BY RawUnpackAssumption DEF RawInv, RawTypeOK, WindowFaithful
  <2>2. sampleBits \in Depths /\ sampleBits \in 1 .. 16
    BY RawUnpackAssumption DEF RawInv, RawTypeOK
  <2>3. Faithful(len, taken, w) /\ (sampleBits <= w.fill \/ AtEnd(len, taken, w))
    BY <2>1, <2>2, TopUpFaithful
  <2> HIDE DEF w
  <2>4. Top(w.acc, sampleBits) = [j \in 0 .. sampleBits - 1 |-> StreamBit(len, taken + j)]
    <3>1. sampleBits \in 0 .. AccBits
      BY <2>2 DEF AccBits
    <3>2. QED
      BY <2>1, <2>3, <3>1, PeekDelivers
  <2>5. Faithful(len, taken + sampleBits, win')
    <3>1. sampleBits \in Nat
      BY <2>2
    <3>2. Faithful(len, taken + sampleBits, [acc  |-> Shl(w.acc, sampleBits),
                                             fill |-> SatSub(w.fill, sampleBits),
                                             pos  |-> w.pos])
      BY <2>1, <2>3, <3>1, ShiftFaithful
    <3>3. QED
      BY <1>1, <3>2 DEF Sample, w
  <2>6. taken' \in 0 .. 8 * len + Beyond
    BY <1>1, <2>1, <2>2 DEF Sample
  <2>7. RawInv'
    BY <1>1, <2>5, <2>6 DEF Sample, RawInv, RawTypeOK, WindowFaithful, Faithful
  <2>8. Stream!Take(sampleBits, sampleBits)
    BY <1>1, <2>4 DEF Sample, w, Stream!Take, StreamBit, Stream!StreamBit, Zero, Stream!Zero
  <2>9. QED
    BY <2>2, <2>7, <2>8 DEF Stream!Next
<1>2. CASE UNCHANGED rawVars
  BY <1>2 DEF rawVars, RawInv, RawTypeOK, WindowFaithful, Stream!streamVars
<1>3. QED
  BY <1>1, <1>2 DEF RawNext

(* The unpacker's window stays faithful.                                     *)
THEOREM WindowCorrect == RawSpec => []WindowFaithful
<1>1. RawInv => WindowFaithful
  BY DEF RawInv
<1>2. QED
  BY <1>1, RawInitInv, RawStepCorrect, PTL DEF RawSpec

(* The locals and the argument keep their types; fill and pos stay in the    *)
(* accumulator and the payload although fill saturates at the end of data.   *)
THEOREM RawTypeCorrect == RawSpec => []RawTypeOK
<1>1. RawInv => RawTypeOK
  BY DEF RawInv
<1>2. QED
  BY <1>1, RawInitInv, RawStepCorrect, PTL DEF RawSpec

(* The unpacker implements the zero-extended bit stream.                     *)
THEOREM StreamCorrect == RawSpec => StreamSpec
<1>1. RawInit => Stream!Init
  BY RawUnpackAssumption DEF RawInit, Stream!Init
<1>2. QED
  BY <1>1, RawInitInv, RawStepCorrect, PTL DEF RawSpec, StreamSpec, Stream!Spec

------------------------------------------------------------------------------
(* SliceResiduals.  From the second trial on, the buffer bestInA points at   *)
(* holds the best kind's residuals of this slice, and the median trial only  *)
(* overwrites the other one.                                                 *)

(* The buffer that would be appended now holds what would be reported.       *)
BestHeld == (IF bestInA THEN trialA ELSE trialB) = Filled(bestKind)

ResidualsInv ==
  /\ step \in {"done", "fixed", "left", "gradient", "median", "append"}
  /\ bestInA \in BOOLEAN
  /\ step = "gradient" => bestInA
  /\ step \in {"gradient", "median", "append"} => BestHeld
  /\ ResidualsMatchId

LEMMA ResidualsInitInv == ResidualsInit => ResidualsInv
  BY DEF ResidualsInit, ResidualsInv, BestHeld, ResidualsMatchId, Empty

LEMMA ResidualsStepInv == ResidualsInv /\ [ResidualsNext]_residualVars => ResidualsInv'
<1> SUFFICES ASSUME ResidualsInv, [ResidualsNext]_residualVars PROVE ResidualsInv'
  OBVIOUS
<1> USE DEF ResidualsInv
<1>1. ASSUME NEW y \in [Kinds -> Blocks], NextSlice(y) PROVE ResidualsInv'
  BY <1>1 DEF NextSlice, ResidualsMatchId
<1>2. CASE Fixed
  BY <1>2 DEF Fixed, ResidualsMatchId, Filled
<1>3. CASE TryLeft
  BY <1>3 DEF TryLeft, BestHeld, ResidualsMatchId, Filled
<1>4. CASE TryGradient
  <2>1. BestHeld'
    BY <1>4 DEF TryGradient, BestHeld, Filled
  <2> QED
    BY <1>4, <2>1 DEF TryGradient, ResidualsMatchId
<1>5. CASE TryMedian
  <2>1. BestHeld
    BY <1>5 DEF TryMedian
  <2>2. CASE Score(Filled("Median")) < bestScore
    (* The loser becomes the best.                                           *)
    BY <1>5, <2>2 DEF TryMedian, LoserIsA, BestHeld, ResidualsMatchId, Filled
  <2>3. CASE ~ (Score(Filled("Median")) < bestScore)
    (* The best was not the one overwritten.                                 *)
    BY <1>5, <2>1, <2>3 DEF TryMedian, LoserIsA, BestHeld, ResidualsMatchId, Filled
  <2> QED
    BY <2>2, <2>3
<1>6. CASE AppendWinner
  <2>1. last' = Filled(bestKind)
    BY <1>6 DEF AppendWinner, BestHeld
  <2> QED
    BY <1>6, <2>1 DEF AppendWinner, ResidualsMatchId, Filled
<1>7. CASE UNCHANGED residualVars
  BY <1>7 DEF residualVars, BestHeld, ResidualsMatchId, Filled
<1> QED
  BY <1>1, <1>2, <1>3, <1>4, <1>5, <1>6, <1>7 DEF ResidualsNext

(* For any blocks, slices and scores: what is appended are this slice's      *)
(* residuals by the predictor whose id is reported with them.                *)
THEOREM MatchIdCorrect == ResidualsSpec => []ResidualsMatchId
<1>1. ResidualsInv => ResidualsMatchId
  BY DEF ResidualsInv
<1> QED
  BY ResidualsInitInv, ResidualsStepInv, <1>1, PTL DEF ResidualsSpec

(* The cost in the definition of the best kind is the score the code         *)
(* computes: the sign by half the range picks the shorter way round.         *)
LEMMA ScoreIsCost ==
  ASSUME yields \in [Kinds -> Blocks], NEW k \in Kinds
  PROVE  /\ Score(Filled(k)) = Cost(k)
         /\ Score(Filled(k)) \in Nat
<1> DEFINE b == yields[k]
           f == [j \in DOMAIN b |-> Magnitude(b[j])]
           g == [j \in DOMAIN b |-> Min({b[j], Modulus - b[j]})]
<1>1. b \in Seq(0 .. Modulus - 1) /\ Modulus \in Nat
  BY SliceResidualsAssumption
<1>2. DOMAIN b = 1 .. Len(b) /\ Len(b) \in Nat
  BY <1>1
<1>3. \A j \in 1 .. Len(b) : b[j] \in 0 .. Modulus - 1
  BY <1>1
<1> HIDE DEF b
<1>4. ASSUME NEW j \in 1 .. Len(b)
      PROVE  f[j] \in Nat /\ f[j] = g[j]
  <2>1. b[j] \in Nat /\ b[j] < Modulus /\ Modulus - b[j] \in Nat
    BY <1>1, <1>3
  <2>2. \A x, y \in Nat : Min({x, y}) = IF x <= y THEN x ELSE y
    <3> SUFFICES ASSUME NEW x \in Nat, NEW y \in Nat
                 PROVE  Min({x, y}) = IF x <= y THEN x ELSE y
      OBVIOUS
    <3>1. \E m \in {x, y} : \A z \in {x, y} : m <= z
      OBVIOUS
    <3> QED BY <3>1 DEF Min
  <2>3. f[j] = Magnitude(b[j]) /\ g[j] = Min({b[j], Modulus - b[j]})
    BY <1>2
  <2>4. g[j] = IF b[j] <= Modulus - b[j] THEN b[j] ELSE Modulus - b[j]
    BY <2>1, <2>2, <2>3
  <2>5. Modulus = 2 * (Modulus \div 2) /\ Modulus \div 2 \in Nat
    <3>1. Modulus \in Nat /\ Modulus % 2 = 0
      BY SliceResidualsAssumption
    <3> QED BY ONLY <3>1, SMT
  <2>6. f[j] = IF b[j] >= Modulus \div 2 THEN Modulus - b[j] ELSE b[j]
    BY <2>3 DEF Magnitude
  <2> DEFINE h == Modulus \div 2
             r == b[j]
  <2>7. h \in Nat /\ Modulus = 2 * h /\ f[j] = (IF r >= h THEN Modulus - r ELSE r)
        /\ g[j] = (IF r <= Modulus - r THEN r ELSE Modulus - r)
        /\ r \in Nat /\ r < Modulus
    BY <2>1, <2>4, <2>5, <2>6
  <2> HIDE DEF f, g, h, r
  <2> QED BY <2>7
<1>5. Sum(f, Len(b)) = Sum(g, Len(b)) /\ Sum(f, Len(b)) \in Nat
  <2> HIDE DEF f, g
  <2> QED BY <1>2, <1>4, SumSame, SumNat
<1>6. Score(Filled(k)) = Sum(f, Len(b)) /\ Cost(k) = Sum(g, Len(b))
  BY DEF Score, Cost, Filled, b
<1> QED BY <1>5, <1>6

(* What each trial has established about the kinds tried so far.             *)
Beats(kind, k) ==
  \/ Score(Filled(k)) > Score(Filled(kind))
  \/ Score(Filled(k)) = Score(Filled(kind)) /\ Id(k) >= Id(kind)

Tried ==
  CASE step = "gradient" -> {"Left"} [] step = "median" -> {"Left", "Gradient"}
    [] OTHER -> Kinds

ChoiceInv ==
  /\ yields \in [Kinds -> Blocks]
  /\ step \in {"left", "gradient", "median", "append"} => strategy = "Dynamic"
  /\ step = "fixed" => strategy # "Dynamic"
  /\ step \in {"gradient", "median"} => bestScore = Score(Filled(bestKind))
  /\ step \in {"gradient", "median", "append"} =>
       bestKind \in Tried /\ \A k \in Tried : Beats(bestKind, k)
  /\ step = "done" /\ slice > 0 /\ strategy = "Dynamic" =>
       chosen \in Kinds /\ \A k \in Kinds : Beats(chosen, k)

LEMMA ChoiceStep ==
  ResidualsInv /\ ChoiceInv /\ [ResidualsNext]_residualVars => ChoiceInv'
<1> SUFFICES ASSUME ResidualsInv, ChoiceInv, [ResidualsNext]_residualVars
             PROVE  ChoiceInv'
  OBVIOUS
<1>1. yields \in [Kinds -> Blocks] /\ \A k \in Kinds : Score(Filled(k)) \in Nat
  BY ScoreIsCost DEF ChoiceInv
<1>2. Kinds = {"Left", "Gradient", "Median"}
  BY DEF Kinds
<1>3. Id("Left") = 1 /\ Id("Gradient") = 2 /\ Id("Median") = 3
  BY DEF Id
<1>4. ASSUME NEW y \in [Kinds -> Blocks], NextSlice(y) PROVE ChoiceInv'
  BY <1>4 DEF NextSlice, ChoiceInv
<1>5. CASE Fixed
  BY <1>5 DEF Fixed, ChoiceInv
<1>6. CASE TryLeft
  <2>1. UNCHANGED <<slice, yields, strategy>> /\ step' = "gradient"
        /\ bestKind' = "Left" /\ bestScore' = Score(Filled("Left"))
        /\ step = "left" /\ Tried' = {"Left"}
    BY <1>6 DEF TryLeft, Tried
  <2>2. Score(Filled("Left"))' = Score(Filled("Left"))
    BY <2>1 DEF Score, Filled, Magnitude
  <2> QED BY <1>1, <1>2, <1>3, <2>1, <2>2 DEF ChoiceInv, Beats
<1>7. CASE TryGradient
  <2>1. UNCHANGED <<slice, yields, strategy>> /\ step' = "median"
        /\ step = "gradient" /\ Tried' = {"Left", "Gradient"} /\ Tried = {"Left"}
    BY <1>7 DEF TryGradient, Tried
  <2>2. \A k : Score(Filled(k))' = Score(Filled(k))
    BY <2>1 DEF Score, Filled, Magnitude
  <2>3. bestKind = "Left" /\ bestScore = Score(Filled("Left"))
    BY <2>1 DEF ChoiceInv
  <2>4. IF Score(Filled("Gradient")) < bestScore
        THEN bestKind' = "Gradient" /\ bestScore' = Score(Filled("Gradient"))
        ELSE UNCHANGED <<bestKind, bestScore>>
    BY <1>7 DEF TryGradient
  <2>5. bestKind' \in {"Left", "Gradient"} /\ bestScore' = Score(Filled(bestKind'))
    BY <2>3, <2>4
  <2>6. \A k \in {"Left", "Gradient"} :
          \/ Score(Filled(k)) > Score(Filled(bestKind'))
          \/ Score(Filled(k)) = Score(Filled(bestKind')) /\ Id(k) >= Id(bestKind')
    BY <1>1, <1>2, <1>3, <2>3, <2>4
  <2> QED BY <2>1, <2>2, <2>5, <2>6 DEF ChoiceInv, Beats
<1>8. CASE TryMedian
  <2>1. UNCHANGED <<slice, yields, strategy>> /\ step' = "append"
        /\ step = "median" /\ Tried' = Kinds /\ Tried = {"Left", "Gradient"}
    BY <1>8 DEF TryMedian, Tried
  <2>2. \A k : Score(Filled(k))' = Score(Filled(k))
    BY <2>1 DEF Score, Filled, Magnitude
  <2>3. /\ bestKind \in {"Left", "Gradient"} /\ bestScore = Score(Filled(bestKind))
        /\ \A k \in {"Left", "Gradient"} : Beats(bestKind, k)
    BY <2>1 DEF ChoiceInv
  <2>4. bestKind' = IF Score(Filled("Median")) < bestScore THEN "Median" ELSE bestKind
    BY <1>8 DEF TryMedian
  <2>5. bestKind' \in Kinds
    BY <1>2, <2>3, <2>4
  <2>6. \A k \in Kinds :
          \/ Score(Filled(k)) > Score(Filled(bestKind'))
          \/ Score(Filled(k)) = Score(Filled(bestKind')) /\ Id(k) >= Id(bestKind')
    BY <1>1, <1>2, <1>3, <2>3, <2>4 DEF Beats
  <2> QED BY <2>1, <2>2, <2>5, <2>6 DEF ChoiceInv, Beats
<1>9. CASE AppendWinner
  <2>1. UNCHANGED <<slice, yields, strategy, bestKind>> /\ step' = "done"
        /\ step = "append" /\ Tried = Kinds /\ chosen' = bestKind
    BY <1>9 DEF AppendWinner, Tried
  <2>2. \A k : Score(Filled(k))' = Score(Filled(k))
    BY <2>1 DEF Score, Filled, Magnitude
  <2> QED BY <2>1, <2>2 DEF ChoiceInv, Beats
<1>10. CASE UNCHANGED residualVars
  <2>1. \A k : Score(Filled(k))' = Score(Filled(k))
    BY <1>10 DEF residualVars, Score, Filled, Magnitude
  <2> QED BY <1>10, <2>1 DEF residualVars, ChoiceInv, Beats, Tried
<1> QED BY <1>4, <1>5, <1>6, <1>7, <1>8, <1>9, <1>10 DEF ResidualsNext

(* For any blocks of any length and any even range of samples: Dynamic takes *)
(* the kind of least cost, of several such the one with the lowest id, with  *)
(* two buffers and without a third comparison.                               *)
THEOREM ChoiceCorrect == ResidualsSpec => []ChoiceMinimal
<1>1. ResidualsInit => ChoiceInv
  BY DEF ResidualsInit, ChoiceInv
<1>2. ChoiceInv => ChoiceMinimal
  BY ScoreIsCost, SMT DEF ChoiceInv, ChoiceMinimal, Beats
<1> QED
  BY ResidualsInitInv, ResidualsStepInv, ChoiceStep, <1>1, <1>2, PTL DEF ResidualsSpec

------------------------------------------------------------------------------
(* Descriptor.  For every alphabet and every assignment of lengths, the      *)
(* parser reads what the encoder wrote, and nothing after it.                *)

(* A bounded set of numbers has a largest one: Max is one of its elements.   *)
LEMMA MaxIsElement ==
  ASSUME NEW S \in SUBSET Nat, NEW b \in Nat, \A n \in S : n <= b, NEW e \in S
  PROVE  Max(S) \in S
BY LargestExists, Zenon DEF Max

(* A set of numbers has a smallest one: Min is one of its elements.          *)
LEMMA MinIsElement ==
  ASSUME NEW S \in SUBSET Nat, NEW e \in S
  PROVE  Min(S) \in S
<1> DEFINE T == {m \in Nat : (\E x \in S : x <= m) => \E x \in S : \A y \in S : x <= y}
<1>1. 0 \in T
  OBVIOUS
<1>2. ASSUME NEW m \in T PROVE m + 1 \in T
  <2> SUFFICES ASSUME NEW x \in S, x <= m + 1
               PROVE  \E z \in S : \A y \in S : z <= y
    OBVIOUS
  <2>1. CASE \E z \in S : z <= m
    BY <2>1
  <2>2. CASE ~ \E z \in S : z <= m
    <3>1. ASSUME NEW y \in S PROVE x <= y
      <4>1. ~ (y <= m) /\ x \in Nat /\ y \in Nat /\ m \in Nat
        BY <2>2
      <4> QED BY <4>1
    <3> QED BY <3>1
  <2> QED BY <2>1, <2>2
<1>3. T = Nat
  <2> HIDE DEF T
  <2>1. T \in SUBSET Nat
    BY DEF T
  <2> QED BY <1>1, <1>2, <2>1, NatSetInduction
<1>4. \E x \in S : \A y \in S : x <= y
  <2>1. e \in T
    <3> HIDE DEF T
    <3> QED BY <1>3
  <2>2. e <= e
    OBVIOUS
  <2> QED BY <2>1, <2>2
<1> QED BY <1>4, Zenon DEF Min

(* The bytes bs[p + 1 .. p2] stand for the lengths a + 1 .. a2.              *)
Token(bs, a, p, a2, p2) ==
  /\ a2 \in a + 1 .. N /\ a2 - a <= MaxRun
  /\ \A k \in a + 1 .. a2 : lengths[k] = lengths[a + 1]
  /\ p2 <= Len(bs)
  /\ IF a2 - a >= 2
     THEN p2 = p + 2 /\ bs[p + 1] = 128 + lengths[a + 1] /\ bs[p + 2] = a2 - a - 1
     ELSE p2 = p + 1 /\ bs[p + 1] = lengths[a + 1]

(* The pairs <<lengths covered, bytes used>> at the boundaries of tokens:    *)
(* from each but the last, <<a, p>>, a token leads to another.               *)
Boundaries(M, bs, a, p) ==
  /\ M \subseteq (0 .. N) \X Nat
  /\ <<0, 0>> \in M /\ <<a, p>> \in M
  /\ \A m \in M : m = <<a, p>> \/ \E n \in M : Token(bs, m[1], m[2], n[1], n[2])

(* The encoder leaves the boundaries of its tokens behind, and the parser    *)
(* only ever stands on one of them, having read the lengths before it.       *)
DescriptorInv ==
  lengths # << >> =>
    /\ lengths \in [1 .. N -> 0 .. MaxLength]
    /\ bytes \in Seq(Int) /\ i \in 0 .. N
    /\ stage \in {"encode", "parse", "parsed"}
    /\ stage = "encode" => /\ got = << >> /\ pos = 0
                           /\ \E M : Boundaries(M, bytes, i, Len(bytes))
    /\ stage = "parse"  => /\ got \in Seq(Int) /\ Len(got) \in 0 .. N
                           /\ \A k \in 1 .. Len(got) : got[k] = lengths[k]
                           /\ \E M : /\ Boundaries(M, bytes, N, size)
                                     /\ <<Len(got), pos>> \in M
    /\ stage = "parsed" => got = lengths /\ pos = size

(* More bytes behind them leave tokens and boundaries alone. *)
LEMMA TokenStays ==
  ASSUME NEW bs \in Seq(Int), NEW more \in Seq(Int),
         NEW a \in Nat, NEW p \in Nat, NEW a2 \in Nat, NEW p2 \in Nat,
         Token(bs, a, p, a2, p2)
  PROVE  Token(bs \o more, a, p, a2, p2)
<1>1. /\ Len(bs) \in Nat /\ Len(more) \in Nat /\ Len(bs \o more) = Len(bs) + Len(more)
      /\ \A k \in 1 .. Len(bs) : (bs \o more)[k] = bs[k]
  OBVIOUS
<1> DEFINE all == bs \o more
<1> HIDE DEF all
<1>2. /\ Len(bs) \in Nat /\ Len(more) \in Nat /\ Len(all) = Len(bs) + Len(more)
      /\ \A k \in 1 .. Len(bs) : all[k] = bs[k]
  BY <1>1 DEF all
<1>3. p2 <= Len(all)
  BY <1>2 DEF Token
<1>4. CASE a2 - a >= 2
  <2>1. p + 1 \in 1 .. Len(bs) /\ p + 2 \in 1 .. Len(bs)
    BY <1>2, <1>4 DEF Token
  <2> QED BY <1>2, <1>3, <1>4, <2>1 DEF Token, all
<1>5. CASE ~ (a2 - a >= 2)
  <2>1. p + 1 \in 1 .. Len(bs)
    BY <1>2, <1>5 DEF Token
  <2> QED BY <1>2, <1>3, <1>5, <2>1 DEF Token, all
<1> QED BY <1>4, <1>5

LEMMA BoundariesStay ==
  ASSUME NEW M, NEW bs \in Seq(Int), NEW more \in Seq(Int),
         NEW a \in 0 .. N, NEW p \in Nat, Boundaries(M, bs, a, p)
  PROVE  Boundaries(M, bs \o more, a, p)
<1>1. ASSUME NEW m \in M, NEW n \in M, Token(bs, m[1], m[2], n[1], n[2])
      PROVE  Token(bs \o more, m[1], m[2], n[1], n[2])
  <2>1. m[1] \in Nat /\ m[2] \in Nat /\ n[1] \in Nat /\ n[2] \in Nat
    BY DEF Boundaries
  <2> QED BY <1>1, <2>1, TokenStays
<1> QED BY <1>1, Zenon DEF Boundaries

(* A new token at the end makes its end the last boundary. *)
LEMMA BoundaryAdded ==
  ASSUME NEW M, NEW bs \in Seq(Int), NEW a \in 0 .. N, NEW p \in Nat,
         Boundaries(M, bs, a, p),
         NEW a2 \in 0 .. N, NEW p2 \in Nat, Token(bs, a, p, a2, p2)
  PROVE  Boundaries(M \cup {<<a2, p2>>}, bs, a2, p2)
<1> DEFINE M2 == M \cup {<<a2, p2>>}
<1>1. M2 \subseteq (0 .. N) \X Nat /\ <<0, 0>> \in M2 /\ <<a2, p2>> \in M2
  BY DEF Boundaries
<1>2. ASSUME NEW m \in M2
      PROVE  m = <<a2, p2>> \/ \E n \in M2 : Token(bs, m[1], m[2], n[1], n[2])
  <2>1. CASE m = <<a2, p2>>
    BY <2>1
  <2>2. CASE m \in M /\ m # <<a, p>>
    <3>1. PICK n \in M : Token(bs, m[1], m[2], n[1], n[2])
      BY <2>2, Zenon DEF Boundaries
    <3> QED BY <3>1, Zenon
  <2>3. CASE m = <<a, p>>
    <3>1. m[1] = a /\ m[2] = p /\ <<a2, p2>>[1] = a2 /\ <<a2, p2>>[2] = p2
      BY <2>3
    <3>2. Token(bs, m[1], m[2], <<a2, p2>>[1], <<a2, p2>>[2])
      BY <3>1, Zenon
    <3> QED BY <1>1, <3>2, Zenon
  <2> QED BY <2>1, <2>2, <2>3
<1> HIDE DEF M2
<1>3. Boundaries(M2, bs, a2, p2)
  BY <1>1, <1>2, Zenon DEF Boundaries
<1> QED BY <1>3 DEF M2

(* The run the encoder measures. *)
LEMMA RunMeasured ==
  ASSUME DescriptorAssumption, i \in 0 .. N, i < N, lengths # << >>, DescriptorInv
  PROVE  /\ RunAt(i) \in 1 .. MaxRun /\ i + RunAt(i) <= N
         /\ \A k \in i + 1 .. i + RunAt(i) : lengths[k] = lengths[i + 1]
<1> DEFINE S == {n \in Runs(i) : n <= MaxRun}
<1>1. S \in SUBSET Nat /\ \A n \in S : n <= MaxRun
  BY DEF Runs, DescriptorAssumption
<1>2. 1 \in S
  BY DEF Runs, DescriptorAssumption
<1>3. MaxRun \in Nat
  BY DEF DescriptorAssumption
<1>4. Max(S) \in S
  <2> HIDE DEF S
  <2> QED BY <1>1, <1>2, <1>3, MaxIsElement
<1>5. RunAt(i) \in S
  BY <1>4 DEF RunAt
<1> DEFINE run == RunAt(i)
<1>6. run \in Nat /\ run \in 1 .. N - i /\ run <= MaxRun
      /\ \A k \in 1 .. run : lengths[i + k] = lengths[i + 1]
  BY <1>5 DEF Runs, DescriptorAssumption
<1> HIDE DEF run
<1>7. ASSUME NEW k \in i + 1 .. i + run PROVE lengths[k] = lengths[i + 1]
  <2>1. k - i \in 1 .. run /\ i + (k - i) = k
    BY <1>6
  <2>2. lengths[i + (k - i)] = lengths[i + 1]
    BY <1>6, <2>1, Zenon
  <2> QED BY <2>1, <2>2
<1>8. i + run <= N /\ run \in 1 .. MaxRun
  BY <1>6 DEF DescriptorAssumption
<1> QED BY <1>7, <1>8 DEF run

LEMMA DescriptorInvCorrect == DescriptorSpec => []DescriptorInv
<1> USE DescriptorAssumption
<1>1. DescriptorInit => DescriptorInv
  <2> SUFFICES ASSUME DescriptorInit, lengths # << >> PROVE DescriptorInv
    BY DEF DescriptorInv
  <2>1. lengths \in [1 .. N -> 0 .. MaxLength] /\ stage = "encode" /\ bytes = << >>
        /\ i = 0 /\ got = << >> /\ pos = 0
    BY DEF DescriptorInit
  <2>2. Boundaries({<<0, 0>>}, bytes, i, Len(bytes))
    BY <2>1 DEF Boundaries, DescriptorAssumption
  <2> QED BY <2>1, <2>2 DEF DescriptorInv, DescriptorAssumption
<1>2. DescriptorInv /\ [DescriptorNext]_descriptorVars => DescriptorInv'
  <2> SUFFICES ASSUME DescriptorInv, [DescriptorNext]_descriptorVars, lengths' # << >>
               PROVE  DescriptorInv'
    BY DEF DescriptorInv
  <2>0. lengths' = lengths /\ lengths # << >>
    BY DEF DescriptorNext, descriptorVars, EncodeRun, Assemble, ParseLiteral, ParseRun,
           ParsePastEnd, ParseEnd, Fail, Push
  <2>1. /\ lengths \in [1 .. N -> 0 .. MaxLength]
        /\ bytes \in Seq(Int) /\ i \in 0 .. N
    BY <2>0 DEF DescriptorInv
  <2>2. CASE EncodeRun
    <3> DEFINE v   == lengths[i + 1]
               run == RunAt(i)
               more == IF run >= 2 THEN <<128 + v, (run - 1) % CountSpace>> ELSE <<v>>
    <3>1. stage = "encode" /\ i < N /\ bytes' = bytes \o more /\ i' = i + run
          /\ stage' = "encode" /\ got' = << >> /\ pos' = 0
      BY <2>0, <2>2 DEF EncodeRun, DescriptorInv
    <3>2. run \in 1 .. MaxRun /\ i + run <= N
          /\ \A k \in i + 1 .. i + run : lengths[k] = lengths[i + 1]
      BY <2>0, <2>1, <3>1, RunMeasured
    <3>3. v \in Nat
      BY <2>1, <3>1 DEF DescriptorAssumption
    <3> HIDE DEF run, v
    <3>4. run \in Nat /\ run >= 1 /\ run <= MaxRun /\ (run - 1) % CountSpace = run - 1
      BY <3>2 DEF DescriptorAssumption
    <3>5. more \in Seq(Int)
          /\ IF run >= 2 THEN Len(more) = 2 /\ more[1] = 128 + v /\ more[2] = run - 1
                         ELSE Len(more) = 1 /\ more[1] = v
      BY <3>3, <3>4
    <3> HIDE DEF more
    <3>6. /\ bytes' \in Seq(Int) /\ Len(bytes') = Len(bytes) + Len(more)
          /\ \A k \in 1 .. Len(more) : bytes'[Len(bytes) + k] = more[k]
      BY <2>1, <3>1, <3>5
    <3>7. Token(bytes', i, Len(bytes), i', Len(bytes'))
      <4>1. i' - i = run /\ i' \in i + 1 .. N /\ i' - i <= MaxRun
        BY <2>1, <3>1, <3>2, <3>4
      <4>2. \A k \in i + 1 .. i' : lengths[k] = lengths[i + 1]
        BY <3>1, <3>2
      <4>3. Len(bytes) \in Nat /\ Len(bytes') <= Len(bytes')
        BY <2>1, <3>6
      <4>4. IF i' - i >= 2
            THEN Len(bytes') = Len(bytes) + 2 /\ bytes'[Len(bytes) + 1] = 128 + v
                 /\ bytes'[Len(bytes) + 2] = i' - i - 1
            ELSE Len(bytes') = Len(bytes) + 1 /\ bytes'[Len(bytes) + 1] = v
        <5>1. CASE run >= 2
          <6>1. Len(more) = 2 /\ more[1] = 128 + v /\ more[2] = run - 1
            BY <3>5, <5>1
          <6>2. 1 \in 1 .. Len(more) /\ 2 \in 1 .. Len(more)
            BY <6>1
          <6>3. bytes'[Len(bytes) + 1] = 128 + v /\ bytes'[Len(bytes) + 2] = run - 1
            BY <3>6, <6>1, <6>2
          <6> QED BY <3>6, <4>1, <5>1, <6>1, <6>3
        <5>2. CASE ~ (run >= 2)
          <6>1. Len(more) = 1 /\ more[1] = v
            BY <3>5, <5>2
          <6>2. 1 \in 1 .. Len(more)
            BY <6>1
          <6>3. bytes'[Len(bytes) + 1] = v
            BY <3>6, <6>1, <6>2
          <6> QED BY <3>6, <4>1, <5>2, <6>1, <6>3
        <5> QED BY <5>1, <5>2
      <4> QED BY <4>1, <4>2, <4>3, <4>4 DEF Token, v
    <3>8. PICK M : Boundaries(M, bytes, i, Len(bytes))
      BY <2>0, <3>1 DEF DescriptorInv
    <3>9. i' \in 0 .. N /\ Len(bytes) \in Nat /\ Len(bytes') \in Nat
      BY <2>1, <3>1, <3>2, <3>4, <3>6
    <3>10. Boundaries(M, bytes', i, Len(bytes))
      BY <2>1, <3>1, <3>5, <3>8, <3>9, BoundariesStay
    <3>11. Boundaries(M \cup {<<i', Len(bytes')>>}, bytes', i', Len(bytes'))
      BY <2>1, <3>6, <3>7, <3>9, <3>10, BoundaryAdded
    <3>12. \E MM : Boundaries(MM, bytes', i', Len(bytes'))
      BY <3>11
    <3>13. (\E MM : Boundaries(MM, bytes, i, Len(bytes)))'
      BY <2>0, <3>12 DEF Boundaries, Token
    <3> QED BY <2>0, <2>1, <3>1, <3>6, <3>9, <3>13 DEF DescriptorInv
  <2>3. CASE Assemble
    <3>1. stage = "encode" /\ i = N /\ size' = Len(bytes) /\ stage' = "parse"
          /\ i' = i /\ got' = << >> /\ pos' = 0
      BY <2>0, <2>3 DEF Assemble, DescriptorInv
    <3>2. PICK tail \in Tails : bytes' = bytes \o tail
      BY <2>3 DEF Assemble
    <3>3. tail \in Seq(Int)
      <4>1. tail \in Seq(0 .. 255)
        BY DEF DescriptorAssumption
      <4>2. Len(tail) \in Nat /\ tail = [k \in 1 .. Len(tail) |-> tail[k]]
            /\ \A k \in 1 .. Len(tail) : tail[k] \in Int
        <5>1. Len(tail) \in Nat /\ tail = [k \in 1 .. Len(tail) |-> tail[k]]
          BY <4>1
        <5>2. ASSUME NEW k \in 1 .. Len(tail) PROVE tail[k] \in Int
          <6>1. tail[k] \in 0 .. 255
            BY <4>1, ElementOfSeq
          <6>2. \A x \in 0 .. 255 : x \in Int
            OBVIOUS
          <6> QED BY <6>1, <6>2, Zenon
        <5> QED BY <5>1, <5>2
      <4> QED BY <4>2
    <3>4. bytes' \in Seq(Int) /\ size' \in Nat
      BY <2>1, <3>1, <3>2, <3>3
    <3>5. PICK M : Boundaries(M, bytes, i, Len(bytes))
      BY <2>0, <3>1 DEF DescriptorInv
    <3>6. Boundaries(M, bytes', N, size')
      BY <2>1, <3>1, <3>2, <3>3, <3>4, <3>5, BoundariesStay
    <3>7. <<0, 0>> \in M
      BY <3>5 DEF Boundaries
    <3>8. \E MM : Boundaries(MM, bytes', N, size') /\ <<Len(got'), pos'>> \in MM
      BY <3>1, <3>6, <3>7
    <3>9. (\E MM : Boundaries(MM, bytes, N, size) /\ <<Len(got), pos>> \in MM)'
      BY <2>0, <3>8 DEF Boundaries, Token
    <3> QED BY <2>0, <2>1, <3>1, <3>4, <3>9 DEF DescriptorInv, DescriptorAssumption
  <2>4. ASSUME stage = "parse"
        PROVE  /\ got \in Seq(Int) /\ Len(got) \in 0 .. N
               /\ \A k \in 1 .. Len(got) : got[k] = lengths[k]
               /\ \E M : Boundaries(M, bytes, N, size) /\ <<Len(got), pos>> \in M
    BY <2>0, <2>4 DEF DescriptorInv
  <2>5. CASE stage = "parse" /\ Len(got) < N /\ (ParseLiteral \/ ParseRun \/ ParsePastEnd)
    <3>1. /\ got \in Seq(Int) /\ Len(got) \in 0 .. N
          /\ \A k \in 1 .. Len(got) : got[k] = lengths[k]
      BY <2>4, <2>5
    <3>2. PICK M : Boundaries(M, bytes, N, size) /\ <<Len(got), pos>> \in M
      BY <2>4, <2>5
    <3>3. pos \in Nat
      BY <3>2 DEF Boundaries
    <3>4. PICK n \in M : Token(bytes, Len(got), pos, n[1], n[2])
      <4>1. <<Len(got), pos>> # <<N, size>>
        BY <2>5, <3>1
      <4>2. <<Len(got), pos>>[1] = Len(got) /\ <<Len(got), pos>>[2] = pos
        OBVIOUS
      <4>3. PICK n \in M : Token(bytes, <<Len(got), pos>>[1], <<Len(got), pos>>[2], n[1], n[2])
        BY <3>2, <4>1, Zenon DEF Boundaries
      <4> QED BY <4>2, <4>3, Zenon
    <3> DEFINE a  == Len(got)
               v  == lengths[a + 1]
               a2 == n[1]
               p2 == n[2]
    <3>5. a \in Nat /\ a < N /\ a2 \in 0 .. N /\ p2 \in Nat /\ n = <<a2, p2>>
      BY <2>5, <3>1, <3>2 DEF Boundaries
    <3>6. v \in 0 .. MaxLength /\ v < 128 /\ Len(bytes) \in Nat
      <4>1. a + 1 \in 1 .. N /\ N \in Nat /\ MaxLength \in 0 .. 127
        BY <3>5 DEF DescriptorAssumption
      <4>2. v \in 0 .. MaxLength
        BY <2>1, <4>1
      <4>3. Len(bytes) \in Nat
        BY <2>1
      <4> HIDE DEF v
      <4>4. v \in 0 .. MaxLength /\ MaxLength \in 0 .. 127 => v < 128
        OBVIOUS
      <4> QED BY <4>1, <4>2, <4>3, <4>4
    <3>7. /\ a2 \in a + 1 .. N /\ p2 <= Len(bytes)
          /\ \A k \in a + 1 .. a2 : lengths[k] = v
          /\ IF a2 - a >= 2
             THEN p2 = pos + 2 /\ bytes[pos + 1] = 128 + v /\ bytes[pos + 2] = a2 - a - 1
             ELSE p2 = pos + 1 /\ bytes[pos + 1] = v
      BY <3>4 DEF Token
    <3>8. pos < Len(bytes)
      BY <3>3, <3>5, <3>6, <3>7
    <3>9. /\ got' = got \o [k \in 1 .. a2 - a |-> v]
          /\ pos' = p2 /\ UNCHANGED <<lengths, bytes, stage, i, size>>
      <4>1. CASE a2 - a >= 2
        <5>1. bytes[pos + 1] >= 128 /\ ~ (bytes[pos + 1] < 128)
          BY <3>6, <3>7, <4>1
        <5>2. ParseRun
          BY <2>5, <3>8, <5>1, <3>3, <3>6 DEF ParseLiteral, ParsePastEnd
        <5>3. ~ (pos + 1 >= Len(bytes)) /\ bytes[pos + 1] - 128 = v /\ ~ (v > MaxLength)
          <6> HIDE DEF a, v, p2, a2
          <6>1. v \in Int /\ ~ (v > MaxLength)
            BY <3>6 DEF DescriptorAssumption
          <6>2. pos + 2 <= Len(bytes) /\ bytes[pos + 1] = 128 + v
            BY <3>7, <4>1
          <6> QED BY <3>3, <3>6, <6>1, <6>2
        <5>4. Push(v, Copies(bytes[pos + 2]), 2)
          BY <5>2, <5>3 DEF ParseRun
        <5>5. Copies(bytes[pos + 2]) = a2 - a
          BY <3>5, <3>7, <4>1 DEF Copies, DescriptorAssumption
        <5> QED BY <3>7, <4>1, <5>4, <5>5 DEF Push
      <4>2. CASE ~ (a2 - a >= 2)
        <5>1. bytes[pos + 1] = v /\ v < 128 /\ ~ (v >= 128) /\ ~ (v > MaxLength) /\ a2 - a = 1
          <6> HIDE DEF a, v, p2, a2
          <6>1. v \in Int /\ ~ (v > MaxLength) /\ ~ (v >= 128) /\ v < 128
            BY <3>6 DEF DescriptorAssumption
          <6>2. bytes[pos + 1] = v /\ a2 - a = 1
            BY <3>5, <3>7, <4>2
          <6> QED BY <6>1, <6>2
        <5>2. ParseLiteral
          BY <2>5, <3>8, <5>1, <3>3, <3>6 DEF ParseRun, ParsePastEnd
        <5>3. Push(v, 1, 1)
          BY <5>1, <5>2 DEF ParseLiteral
        <5> QED BY <3>7, <4>2, <5>1, <5>3 DEF Push
      <4> QED BY <4>1, <4>2
    <3> DEFINE run == [k \in 1 .. a2 - a |-> v]
    <3>10. run \in Seq(Int) /\ Len(run) = a2 - a /\ \A k \in 1 .. a2 - a : run[k] = v
      <4>1. a2 - a \in Nat /\ v \in Int
        BY <3>5, <3>6, <3>7 DEF DescriptorAssumption
      <4> HIDE DEF v
      <4> QED BY <4>1
    <3> HIDE DEF run, a2, p2, v
    <3>11. /\ got' \in Seq(Int) /\ Len(got') = a2
           /\ \A k \in 1 .. a2 : got'[k] = IF k <= a THEN got[k] ELSE run[k - a]
      <4>1. got' = got \o run
        BY <3>9 DEF run
      <4>2. /\ got \o run \in Seq(Int) /\ Len(got \o run) = Len(got) + Len(run)
            /\ \A k \in 1 .. Len(got) : (got \o run)[k] = got[k]
            /\ \A k \in 1 .. Len(run) : (got \o run)[Len(got) + k] = run[k]
        <5>1. got \in Seq(Int) /\ run \in Seq(Int)
          BY <3>1, <3>10
        <5> QED BY ONLY <5>1, Concatenated
      <4>3. a2 \in Nat /\ a < a2 /\ Len(run) = a2 - a /\ Len(got) = a
        BY <3>5, <3>7, <3>10
      <4>4. ASSUME NEW k \in 1 .. a2
            PROVE  got'[k] = IF k <= a THEN got[k] ELSE run[k - a]
        <5>1. CASE k <= a
          BY <3>5, <4>1, <4>2, <4>3, <5>1
        <5>2. CASE ~ (k <= a)
          <6>1. k - a \in 1 .. Len(run) /\ a + (k - a) = k
            BY <3>5, <4>3, <5>2
          <6>2. (got \o run)[a + (k - a)] = run[k - a]
            BY <4>2, <4>3, <6>1
          <6> QED BY <4>1, <5>2, <6>1, <6>2
        <5> QED BY <5>1, <5>2
      <4>5. Len(got') = a2 /\ got' \in Seq(Int)
        BY <3>5, <4>1, <4>2, <4>3
      <4> QED BY <4>4, <4>5
    <3>12. ASSUME NEW k \in 1 .. Len(got') PROVE got'[k] = lengths'[k]
      <4>1. k \in Nat /\ k \in 1 .. a2
        BY <3>5, <3>11
      <4>2. CASE k <= a
        BY <2>0, <3>1, <3>11, <4>1, <4>2
      <4>3. CASE ~ (k <= a)
        <5>1. k - a \in 1 .. a2 - a /\ k \in a + 1 .. a2
          BY <3>5, <4>1, <4>3
        <5>2. got'[k] = v /\ lengths[k] = v
          BY <3>7, <3>10, <3>11, <4>1, <4>3, <5>1
        <5> QED BY <2>0, <5>2
      <4> QED BY <4>2, <4>3
    <3>13. \E MM : Boundaries(MM, bytes', N, size') /\ <<Len(got'), pos'>> \in MM
      BY <3>2, <3>5, <3>9, <3>11
    <3>14. (\E MM : Boundaries(MM, bytes, N, size) /\ <<Len(got), pos>> \in MM)'
      BY <2>0, <3>13 DEF Boundaries, Token
    <3>15. Len(got') \in 0 .. N /\ stage' = "parse"
      BY <2>5, <3>5, <3>9, <3>11
    <3> QED BY <2>0, <2>1, <3>9, <3>11, <3>12, <3>14, <3>15 DEF DescriptorInv
  <2>6. CASE ParseEnd
    <3>1. stage = "parse" /\ Len(got) >= N /\ bytes' = bytes /\ i' = i /\ got' = got
          /\ pos' = pos /\ size' = size
      BY <2>6 DEF ParseEnd
    <3>2. /\ got \in Seq(Int) /\ Len(got) = N /\ N \in Nat
          /\ \A k \in 1 .. Len(got) : got[k] = lengths[k]
      BY <2>4, <3>1 DEF DescriptorAssumption
    <3>3. stage' = "parsed"
      BY <2>6, <3>2 DEF ParseEnd
    <3>4. got = lengths
      BY <2>1, <3>2
    <3>5. PICK M : Boundaries(M, bytes, N, size) /\ <<Len(got), pos>> \in M
      BY <2>4, <3>1
    <3>6. pos = size
      <4>1. SUFFICES ASSUME <<Len(got), pos>> # <<N, size>> PROVE FALSE
        BY <3>2
      <4>2. PICK n \in M : Token(bytes, <<Len(got), pos>>[1], <<Len(got), pos>>[2], n[1], n[2])
        BY <3>5, <4>1, Zenon DEF Boundaries
      <4>3. n[1] \in Len(got) + 1 .. N
        BY <4>2 DEF Token
      <4> QED BY <3>2, <4>3
    <3> QED BY <2>0, <2>1, <3>1, <3>3, <3>4, <3>6 DEF DescriptorInv
  <2>7. CASE UNCHANGED descriptorVars
    <3>1. /\ bytes' = bytes /\ i' = i /\ stage' = stage /\ got' = got
          /\ pos' = pos /\ size' = size
      BY <2>7 DEF descriptorVars
    <3>2. /\ (\E M : Boundaries(M, bytes, i, Len(bytes)))
               => (\E M : Boundaries(M, bytes, i, Len(bytes)))'
          /\ (\E M : Boundaries(M, bytes, N, size) /\ <<Len(got), pos>> \in M)
               => (\E M : Boundaries(M, bytes, N, size) /\ <<Len(got), pos>> \in M)'
      <4>1. ASSUME NEW M, Boundaries(M, bytes, i, Len(bytes))
            PROVE  Boundaries(M, bytes, i, Len(bytes))'
        <5>1. Boundaries(M, bytes, i, Len(bytes))' <=> Boundaries(M, bytes, i, Len(bytes))
          BY <2>0, <3>1 DEF Boundaries, Token
        <5> QED BY <4>1, <5>1
      <4>2. ASSUME NEW M, Boundaries(M, bytes, N, size)
            PROVE  Boundaries(M, bytes, N, size)'
        <5>1. Boundaries(M, bytes, N, size)' <=> Boundaries(M, bytes, N, size)
          BY <2>0, <3>1 DEF Boundaries, Token
        <5> QED BY <4>2, <5>1
      <4>3. (\E M : Boundaries(M, bytes, i, Len(bytes)))
              => (\E M : Boundaries(M, bytes, i, Len(bytes)))'
        BY <4>1
      <4>4. (\E M : Boundaries(M, bytes, N, size) /\ <<Len(got), pos>> \in M)
              => (\E M : Boundaries(M, bytes, N, size) /\ <<Len(got), pos>> \in M)'
        BY <3>1, <4>2
      <4> QED BY <4>3, <4>4
    <3> QED BY <2>0, <2>1, <2>4, <3>1, <3>2 DEF DescriptorInv
  <2>8. ParseLiteral \/ ParseRun \/ ParsePastEnd => stage = "parse" /\ Len(got) < N
    BY DEF ParseLiteral, ParseRun, ParsePastEnd
  <2> QED BY <2>2, <2>3, <2>5, <2>6, <2>7, <2>8 DEF DescriptorNext
<1>3. QED
  BY <1>1, <1>2, PTL DEF DescriptorSpec

(* What the encoder wrote is read back: the same lengths, from exactly its   *)
(* bytes, so that the next plane's descriptor is read from its beginning.    *)
THEOREM RoundTripCorrect == DescriptorSpec => []RoundTrip
<1>1. DescriptorInv => RoundTrip
  BY DEF DescriptorInv, RoundTrip
<1> QED BY <1>1, DescriptorInvCorrect, PTL

------------------------------------------------------------------------------
(* Header.  For every format and every u32 size, with every flag: what is    *)
(* written field by field is found by offset, and a changed byte changes one *)
(* field.                                                                    *)

(* A u32 is put together again from its four bytes.                          *)
LEMMA DwordRead ==
  ASSUME NEW n \in Dword
  PROVE  /\ LittleEndian(n) \in Seq(Byte) /\ Len(LittleEndian(n)) = 4
         /\ LittleEndian(n)[1] + 256 * (LittleEndian(n)[2]
              + 256 * (LittleEndian(n)[3] + 256 * LittleEndian(n)[4])) = n
<1>1. n \in Nat /\ n \div 16777216 \in 0 .. 255
  BY DEF Dword, Byte
<1> DEFINE b1 == n % 256
           b2 == (n \div 256) % 256
           b3 == (n \div 65536) % 256
           b4 == (n \div 16777216) % 256
<1>2. b1 \in Byte /\ b2 \in Byte /\ b3 \in Byte /\ b4 \in Byte
  BY <1>1 DEF Byte
<1>3. n \div 65536 = (n \div 256) \div 256 /\ n \div 16777216 = (n \div 65536) \div 256
  BY <1>1
<1>4. b1 + 256 * (b2 + 256 * (b3 + 256 * b4)) = n
  BY <1>1, <1>3
<1>5. LittleEndian(n) = <<b1, b2, b3, b4>>
  BY DEF LittleEndian
<1> HIDE DEF b1, b2, b3, b4
<1> QED BY <1>2, <1>4, <1>5

(* A number is the sum of the weights of its set.                           *)
LEMMA NumberSum ==
  ASSUME NEW set
  PROVE  Number(set) = (IF 0 \in set THEN 1 ELSE 0) + (IF 1 \in set THEN 2 ELSE 0)
                      + (IF 2 \in set THEN 4 ELSE 0) + (IF 3 \in set THEN 8 ELSE 0)
                      + (IF 4 \in set THEN 16 ELSE 0) + (IF 5 \in set THEN 32 ELSE 0)
                      + (IF 6 \in set THEN 64 ELSE 0) + (IF 7 \in set THEN 128 ELSE 0)
<1> DEFINE w(k) == IF k - 1 \in set THEN Weight[k] ELSE 0
           f    == [k \in 1 .. 8 |-> w(k)]
<1>1. /\ f[1] = IF 0 \in set THEN 1 ELSE 0
      /\ f[2] = IF 1 \in set THEN 2 ELSE 0
      /\ f[3] = IF 2 \in set THEN 4 ELSE 0
      /\ f[4] = IF 3 \in set THEN 8 ELSE 0
      /\ f[5] = IF 4 \in set THEN 16 ELSE 0
      /\ f[6] = IF 5 \in set THEN 32 ELSE 0
      /\ f[7] = IF 6 \in set THEN 64 ELSE 0
      /\ f[8] = IF 7 \in set THEN 128 ELSE 0
  BY DEF Weight
<1> HIDE DEF f
<1>2. /\ Sum(f, 0) = 0
      /\ \A n \in Nat : Sum(f, n + 1) = Sum(f, n) + f[n + 1]
  BY SumEquations
<1>3. /\ Sum(f, 1) = Sum(f, 0) + f[1] /\ Sum(f, 2) = Sum(f, 1) + f[2]
      /\ Sum(f, 3) = Sum(f, 2) + f[3] /\ Sum(f, 4) = Sum(f, 3) + f[4]
      /\ Sum(f, 5) = Sum(f, 4) + f[5] /\ Sum(f, 6) = Sum(f, 5) + f[6]
      /\ Sum(f, 7) = Sum(f, 6) + f[7] /\ Sum(f, 8) = Sum(f, 7) + f[8]
  <2>1. Sum(f, 0 + 1) = Sum(f, 0) + f[0 + 1] /\ Sum(f, 1 + 1) = Sum(f, 1) + f[1 + 1]
        /\ Sum(f, 2 + 1) = Sum(f, 2) + f[2 + 1] /\ Sum(f, 3 + 1) = Sum(f, 3) + f[3 + 1]
        /\ Sum(f, 4 + 1) = Sum(f, 4) + f[4 + 1] /\ Sum(f, 5 + 1) = Sum(f, 5) + f[5 + 1]
        /\ Sum(f, 6 + 1) = Sum(f, 6) + f[6 + 1] /\ Sum(f, 7 + 1) = Sum(f, 7) + f[7 + 1]
    BY <1>2
  <2> QED BY <2>1
<1>4. /\ f[1] \in Nat /\ f[2] \in Nat /\ f[3] \in Nat /\ f[4] \in Nat
      /\ f[5] \in Nat /\ f[6] \in Nat /\ f[7] \in Nat /\ f[8] \in Nat
  BY <1>1
<1>5. Sum(f, 8) = f[1] + f[2] + f[3] + f[4] + f[5] + f[6] + f[7] + f[8]
  BY <1>2, <1>3, <1>4
<1> QED BY <1>1, <1>5 DEF Number, f

(* A byte of flags is put together from eight set and taken apart again.    *)
LEMMA NumberOfBits ==
  ASSUME NEW set \in SUBSET (0 .. 7)
  PROVE  /\ Number(set) \in Byte
         /\ BitsOf(Number(set), 0 .. 7) = set
<1> DEFINE s == Number(set)
<1>1. s = (IF 0 \in set THEN 1 ELSE 0) + (IF 1 \in set THEN 2 ELSE 0)
        + (IF 2 \in set THEN 4 ELSE 0) + (IF 3 \in set THEN 8 ELSE 0)
        + (IF 4 \in set THEN 16 ELSE 0) + (IF 5 \in set THEN 32 ELSE 0)
        + (IF 6 \in set THEN 64 ELSE 0) + (IF 7 \in set THEN 128 ELSE 0)
  BY NumberSum
<1> HIDE DEF s
<1>7. s \in 0 .. 255
  BY <1>1
<1>8. /\ (s \div 1) % 2 = 1 <=> 0 \in set
      /\ (s \div 2) % 2 = 1 <=> 1 \in set
      /\ (s \div 4) % 2 = 1 <=> 2 \in set
      /\ (s \div 8) % 2 = 1 <=> 3 \in set
      /\ (s \div 16) % 2 = 1 <=> 4 \in set
      /\ (s \div 32) % 2 = 1 <=> 5 \in set
      /\ (s \div 64) % 2 = 1 <=> 6 \in set
      /\ (s \div 128) % 2 = 1 <=> 7 \in set
  BY <1>1
<1>9. ASSUME NEW b \in 0 .. 7
      PROVE  (s \div Weight[b + 1]) % 2 = 1 <=> b \in set
  BY <1>8 DEF Weight
<1>10. BitsOf(s, 0 .. 7) = set
  BY <1>9 DEF BitsOf
<1> QED BY <1>7, <1>10 DEF s, Byte

(* The low nibble of a byte, taken apart and put together.                   *)
LEMMA LowNibble ==
  ASSUME NEW n \in Byte
  PROVE  Number(BitsOf(n, 0 .. 3)) = n % 16
<1> DEFINE set == BitsOf(n, 0 .. 3)
<1>1. /\ 0 \in set <=> n % 2 = 1
      /\ 1 \in set <=> (n \div 2) % 2 = 1
      /\ 2 \in set <=> (n \div 4) % 2 = 1
      /\ 3 \in set <=> (n \div 8) % 2 = 1
      /\ 4 \notin set /\ 5 \notin set /\ 6 \notin set /\ 7 \notin set
  BY DEF BitsOf, Weight, Byte
<1> HIDE DEF set
<1>2. Number(set) = (IF 0 \in set THEN 1 ELSE 0) + (IF 1 \in set THEN 2 ELSE 0)
        + (IF 2 \in set THEN 4 ELSE 0) + (IF 3 \in set THEN 8 ELSE 0)
        + (IF 4 \in set THEN 16 ELSE 0) + (IF 5 \in set THEN 32 ELSE 0)
        + (IF 6 \in set THEN 64 ELSE 0) + (IF 7 \in set THEN 128 ELSE 0)
  BY NumberSum
<1>3. Number(set) = n % 16
  BY <1>1, <1>2 DEF Byte
<1> QED BY <1>3 DEF set

(* The flags dword is taken apart into the flags it was put together from.   *)
LEMMA FlagsRead ==
  ASSUME NEW flags \in SUBSET (0 .. 31)
  PROVE  /\ FlagBytes(flags) \in Seq(Byte) /\ Len(FlagBytes(flags)) = 4
         /\ \A f \in 0 .. 31 : f % 8 \in BitsOf(FlagBytes(flags)[1 + f \div 8], 0 .. 7)
                                 <=> f \in flags
<1> DEFINE set(k) == {b \in 0 .. 7 : 8 * k + b \in flags}
<1>1. \A k \in 0 .. 3 : FlagByte(flags, k) \in Byte /\ BitsOf(FlagByte(flags, k), 0 .. 7) = set(k)
  BY NumberOfBits DEF FlagByte
<1> DEFINE fb == FlagBytes(flags)
<1>2. fb = <<FlagByte(flags, 0), FlagByte(flags, 1), FlagByte(flags, 2), FlagByte(flags, 3)>>
  BY DEF FlagBytes
<1>3. /\ fb \in Seq(Byte) /\ Len(fb) = 4
      /\ fb[1] = FlagByte(flags, 0) /\ fb[2] = FlagByte(flags, 1)
      /\ fb[3] = FlagByte(flags, 2) /\ fb[4] = FlagByte(flags, 3)
  <2>1. FlagByte(flags, 0) \in Byte /\ FlagByte(flags, 1) \in Byte
        /\ FlagByte(flags, 2) \in Byte /\ FlagByte(flags, 3) \in Byte
    BY <1>1
  <2> HIDE DEF fb
  <2> QED BY <1>2, <2>1
<1> HIDE DEF fb
<1>4. ASSUME NEW f \in 0 .. 31
      PROVE  f % 8 \in BitsOf(fb[1 + f \div 8], 0 .. 7) <=> f \in flags
  <2>1. f \div 8 \in 0 .. 3 /\ f % 8 \in 0 .. 7 /\ 8 * (f \div 8) + (f % 8) = f
    OBVIOUS
  <2> DEFINE k == f \div 8
             r == f % 8
  <2>2. k \in 0 .. 3 /\ r \in 0 .. 7 /\ 8 * k + r = f
    BY <2>1
  <2> HIDE DEF k, r
  <2>3. fb[1 + k] = FlagByte(flags, k)
    BY <1>3, <2>2
  <2>4. BitsOf(fb[1 + k], 0 .. 7) = set(k)
    BY <1>1, <2>2, <2>3
  <2>5. r \in set(k) <=> f \in flags
    BY <2>2
  <2> HIDE DEF set
  <2> QED BY <2>4, <2>5 DEF k, r
<1> QED BY <1>3, <1>4 DEF fb

(* Four bytes more.                                                          *)
LEMMA FourMore ==
  ASSUME NEW u \in Seq(Byte), NEW v \in Seq(Byte), Len(v) = 4, NEW n \in Nat, Len(u) = n
  PROVE  /\ u \o v \in Seq(Byte) /\ Len(u \o v) = n + 4
         /\ \A j \in 1 .. n : (u \o v)[j] = u[j]
         /\ (u \o v)[n + 1] = v[1] /\ (u \o v)[n + 2] = v[2]
         /\ (u \o v)[n + 3] = v[3] /\ (u \o v)[n + 4] = v[4]
<1>1. /\ u \o v \in Seq(Byte) /\ Len(u \o v) = Len(u) + Len(v)
      /\ \A j \in 1 .. Len(u) : (u \o v)[j] = u[j]
      /\ \A j \in 1 .. Len(v) : (u \o v)[Len(u) + j] = v[j]
  <2>1. u \in Seq(Byte) /\ v \in Seq(Byte)
    OBVIOUS
  <2> QED BY ONLY <2>1, Concatenated
<1>2. 1 \in 1 .. Len(v) /\ 2 \in 1 .. Len(v) /\ 3 \in 1 .. Len(v) /\ 4 \in 1 .. Len(v)
  OBVIOUS
<1> QED BY <1>1, <1>2

(* The rows of the table the header is about.                                *)
LEMMA FormatFacts ==
  ASSUME NEW name \in DOMAIN FormatByte
  PROVE  /\ FormatByte[name] \in Byte /\ AuxByte(name) \in Byte
         /\ Lookup(FormatByte[name]) = {name}
         /\ KeepsFullRange(FormatByte[name])
              <=> FourccTable[name].family \notin {"RGB", "RGBA"}
<1>1. name \in {"M8RG", "M8RA", "M8Y4", "M8Y2", "M8Y0", "M8YA", "M8G0", "M0Y2", "M0RG",
                "M0RA", "M2RG", "M2RA", "M4RG", "M4RA", "M0G0", "M0Y4", "M0Y0"}
  BY DEF FormatByte
<1>2. FormatByte[name] \in Byte
  BY <1>1 DEF FormatByte, Byte
<1>3. FourccTable[name].depth \in {8, 10, 12, 14}
  BY <1>1 DEF FourccTable, Row
<1>4. AuxByte(name) \in Byte
  BY <1>3 DEF AuxByte, Byte
<1>5. \A other \in DOMAIN FormatByte : FormatByte[other] = FormatByte[name] => other = name
  BY <1>1 DEF FormatByte
<1>6. Lookup(FormatByte[name]) = {name}
  BY <1>5 DEF Lookup
<1>7. KeepsFullRange(FormatByte[name]) <=> FourccTable[name].family \notin {"RGB", "RGBA"}
  BY <1>1 DEF FormatByte, FourccTable, Row, KeepsFullRange, FullRangeKeepMask
<1> QED BY <1>2, <1>4, <1>6, <1>7

(* The flags are set of a u32. *)
LEMMA FlagsTyped == Flags \in SUBSET (0 .. 31)
<1>1. MatrixBits(request.matrix) \in SUBSET (0 .. 31)
  <2>1. ASSUME NEW b \in BitsOf(request.matrix, 0 .. 3) PROVE b + ColorMatrixAt \in 0 .. 31
    BY DEF BitsOf, ColorMatrixAt
  <2> QED BY <2>1 DEF MatrixBits
<1>2. FlagInterlaced \in SUBSET (0 .. 31) /\ FlagFullRange \in SUBSET (0 .. 31)
  BY DEF FlagInterlaced, FlagFullRange
<1> QED BY <1>1, <1>2 DEF Flags

(* The offsets at which the fields end up. *)
LEMMA WrittenAt ==
  ASSUME format \in DOMAIN FormatByte, request \in RequestRecords
  PROVE  /\ Written \in Seq(Byte) /\ Len(Written) = HeaderSize
         /\ SubSeq(Written, 1, 4) = Magic /\ U32(Written, 4) = HeaderSize
         /\ Written[9] = 7 /\ Written[10] = FormatByte[format]
         /\ Written[11] = AuxByte(format)
         /\ FlagsAt(Written, 12) = Flags
         /\ U32(Written, 16) = request.width /\ U32(Written, 20) = request.height
         /\ U32(Written, 24) = request.width /\ U32(Written, 28) = request.sliceHeight
<1> DEFINE head  == LittleEndian(HeaderSize)
           kind  == <<7, FormatByte[format], AuxByte(format), 2>>
           flags == FlagBytes(Flags)
           w     == LittleEndian(request.width)
           h     == LittleEndian(request.height)
           sh    == LittleEndian(request.sliceHeight)
<1>1. request.width \in Dword /\ request.height \in Dword /\ request.sliceHeight \in Dword
  BY DEF RequestRecords
<1>2. HeaderSize \in Dword
  BY DEF HeaderSize, Dword, Byte
<1>3. /\ Magic \in Seq(Byte) /\ Len(Magic) = 4
      /\ Magic[1] = 77 /\ Magic[2] = 65 /\ Magic[3] = 71 /\ Magic[4] = 89
  BY DEF Magic, Byte
<1>4. /\ head \in Seq(Byte) /\ Len(head) = 4
      /\ head[1] + 256 * (head[2] + 256 * (head[3] + 256 * head[4])) = HeaderSize
  BY <1>2, DwordRead
<1>5. /\ w \in Seq(Byte) /\ Len(w) = 4
      /\ w[1] + 256 * (w[2] + 256 * (w[3] + 256 * w[4])) = request.width
  BY <1>1, DwordRead
<1>6. /\ h \in Seq(Byte) /\ Len(h) = 4
      /\ h[1] + 256 * (h[2] + 256 * (h[3] + 256 * h[4])) = request.height
  BY <1>1, DwordRead
<1>7. /\ sh \in Seq(Byte) /\ Len(sh) = 4
      /\ sh[1] + 256 * (sh[2] + 256 * (sh[3] + 256 * sh[4])) = request.sliceHeight
  BY <1>1, DwordRead
<1>8. /\ flags \in Seq(Byte) /\ Len(flags) = 4
      /\ \A f \in 0 .. 31 : f % 8 \in BitsOf(flags[1 + f \div 8], 0 .. 7) <=> f \in Flags
  <2>1. Flags \in SUBSET (0 .. 31)
    BY FlagsTyped
  <2> QED BY <2>1, FlagsRead
<1>9. /\ kind \in Seq(Byte) /\ Len(kind) = 4
      /\ kind[1] = 7 /\ kind[2] = FormatByte[format] /\ kind[3] = AuxByte(format)
  <2>1. FormatByte[format] \in Byte /\ AuxByte(format) \in Byte /\ 7 \in Byte /\ 2 \in Byte
    BY FormatFacts DEF Byte
  <2> QED BY <2>1
<1> DEFINE u2 == Magic \o head
           u3 == u2 \o kind
           u4 == u3 \o flags
           u5 == u4 \o w
           u6 == u5 \o h
           u7 == u6 \o w
           u8 == u7 \o sh
<1>10. Written = u8
  BY DEF Written
<1> HIDE DEF head, kind, flags, w, h, sh
<1>12. /\ u2 \in Seq(Byte) /\ Len(u2) = 8 /\ \A j \in 1 .. 4 : u2[j] = Magic[j]
       /\ u2[5] = head[1] /\ u2[6] = head[2] /\ u2[7] = head[3] /\ u2[8] = head[4]
  BY <1>3, <1>4, FourMore
<1> HIDE DEF u2
<1>13. /\ u3 \in Seq(Byte) /\ Len(u3) = 12 /\ \A j \in 1 .. 8 : u3[j] = u2[j]
       /\ u3[9] = kind[1] /\ u3[10] = kind[2] /\ u3[11] = kind[3]
  <2>1. u2 \in Seq(Byte) /\ kind \in Seq(Byte) /\ Len(kind) = 4 /\ 8 \in Nat /\ Len(u2) = 8
    BY <1>12, <1>9
  <2>2. /\ u3 \in Seq(Byte) /\ Len(u3) = 8 + 4
        /\ \A j \in 1 .. 8 : u3[j] = u2[j]
        /\ u3[8 + 1] = kind[1] /\ u3[8 + 2] = kind[2]
        /\ u3[8 + 3] = kind[3] /\ u3[8 + 4] = kind[4]
    BY ONLY <2>1, FourMore
  <2> HIDE DEF u3
  <2> QED BY ONLY <2>2
<1> HIDE DEF u3
<1>14. /\ u4 \in Seq(Byte) /\ Len(u4) = 16 /\ \A j \in 1 .. 12 : u4[j] = u3[j]
       /\ u4[13] = flags[1] /\ u4[14] = flags[2] /\ u4[15] = flags[3] /\ u4[16] = flags[4]
  <2>1. u3 \in Seq(Byte) /\ flags \in Seq(Byte) /\ Len(flags) = 4 /\ 12 \in Nat /\ Len(u3) = 12
    BY <1>13, <1>8
  <2>2. /\ u4 \in Seq(Byte) /\ Len(u4) = 12 + 4
        /\ \A j \in 1 .. 12 : u4[j] = u3[j]
        /\ u4[12 + 1] = flags[1] /\ u4[12 + 2] = flags[2]
        /\ u4[12 + 3] = flags[3] /\ u4[12 + 4] = flags[4]
    BY ONLY <2>1, FourMore
  <2> HIDE DEF u4
  <2> QED BY ONLY <2>2
<1> HIDE DEF u4
<1>15. /\ u5 \in Seq(Byte) /\ Len(u5) = 20 /\ \A j \in 1 .. 16 : u5[j] = u4[j]
       /\ u5[17] = w[1] /\ u5[18] = w[2] /\ u5[19] = w[3] /\ u5[20] = w[4]
  <2>1. u4 \in Seq(Byte) /\ w \in Seq(Byte) /\ Len(w) = 4 /\ 16 \in Nat /\ Len(u4) = 16
    BY <1>14, <1>5
  <2>2. /\ u5 \in Seq(Byte) /\ Len(u5) = 16 + 4
        /\ \A j \in 1 .. 16 : u5[j] = u4[j]
        /\ u5[16 + 1] = w[1] /\ u5[16 + 2] = w[2]
        /\ u5[16 + 3] = w[3] /\ u5[16 + 4] = w[4]
    BY ONLY <2>1, FourMore
  <2> HIDE DEF u5
  <2> QED BY ONLY <2>2
<1> HIDE DEF u5
<1>16. /\ u6 \in Seq(Byte) /\ Len(u6) = 24 /\ \A j \in 1 .. 20 : u6[j] = u5[j]
       /\ u6[21] = h[1] /\ u6[22] = h[2] /\ u6[23] = h[3] /\ u6[24] = h[4]
  <2>1. u5 \in Seq(Byte) /\ h \in Seq(Byte) /\ Len(h) = 4 /\ 20 \in Nat /\ Len(u5) = 20
    BY <1>15, <1>6
  <2>2. /\ u6 \in Seq(Byte) /\ Len(u6) = 20 + 4
        /\ \A j \in 1 .. 20 : u6[j] = u5[j]
        /\ u6[20 + 1] = h[1] /\ u6[20 + 2] = h[2]
        /\ u6[20 + 3] = h[3] /\ u6[20 + 4] = h[4]
    BY ONLY <2>1, FourMore
  <2> HIDE DEF u6
  <2> QED BY ONLY <2>2
<1> HIDE DEF u6
<1>17. /\ u7 \in Seq(Byte) /\ Len(u7) = 28 /\ \A j \in 1 .. 24 : u7[j] = u6[j]
       /\ u7[25] = w[1] /\ u7[26] = w[2] /\ u7[27] = w[3] /\ u7[28] = w[4]
  <2>1. u6 \in Seq(Byte) /\ w \in Seq(Byte) /\ Len(w) = 4 /\ 24 \in Nat /\ Len(u6) = 24
    BY <1>16, <1>5
  <2>2. /\ u7 \in Seq(Byte) /\ Len(u7) = 24 + 4
        /\ \A j \in 1 .. 24 : u7[j] = u6[j]
        /\ u7[24 + 1] = w[1] /\ u7[24 + 2] = w[2]
        /\ u7[24 + 3] = w[3] /\ u7[24 + 4] = w[4]
    BY ONLY <2>1, FourMore
  <2> HIDE DEF u7
  <2> QED BY ONLY <2>2
<1> HIDE DEF u7
<1>18. /\ u8 \in Seq(Byte) /\ Len(u8) = 32 /\ \A j \in 1 .. 28 : u8[j] = u7[j]
       /\ u8[29] = sh[1] /\ u8[30] = sh[2] /\ u8[31] = sh[3] /\ u8[32] = sh[4]
  <2>1. u7 \in Seq(Byte) /\ sh \in Seq(Byte) /\ Len(sh) = 4 /\ 28 \in Nat /\ Len(u7) = 28
    BY <1>17, <1>7
  <2>2. /\ u8 \in Seq(Byte) /\ Len(u8) = 28 + 4
        /\ \A j \in 1 .. 28 : u8[j] = u7[j]
        /\ u8[28 + 1] = sh[1] /\ u8[28 + 2] = sh[2]
        /\ u8[28 + 3] = sh[3] /\ u8[28 + 4] = sh[4]
    BY ONLY <2>1, FourMore
  <2> HIDE DEF u8
  <2> QED BY ONLY <2>2
<1> HIDE DEF u8
<1>20. /\ \A j \in 1 .. 4 : u8[j] = Magic[j]
       /\ u8[5] = head[1] /\ u8[6] = head[2] /\ u8[7] = head[3] /\ u8[8] = head[4]
       /\ u8[9] = kind[1] /\ u8[10] = kind[2] /\ u8[11] = kind[3]
       /\ u8[13] = flags[1] /\ u8[14] = flags[2] /\ u8[15] = flags[3] /\ u8[16] = flags[4]
  <2>1. \A j \in 1 .. 16 : u8[j] = u4[j]
    <3>1. ASSUME NEW j \in 1 .. 16 PROVE u8[j] = u4[j]
      <4>1. j \in 1 .. 20 /\ j \in 1 .. 24 /\ j \in 1 .. 28
        OBVIOUS
      <4>2. u8[j] = u7[j] /\ u7[j] = u6[j]
        BY ONLY <1>17, <1>18, <4>1, Zenon
      <4>3. u6[j] = u5[j] /\ u5[j] = u4[j]
        BY ONLY <1>15, <1>16, <3>1, <4>1, Zenon
      <4> QED BY ONLY <4>2, <4>3, Zenon
    <3> QED BY <3>1
  <2>2. \A j \in 1 .. 8 : u8[j] = u2[j]
    BY ONLY <1>13, <1>14, <2>1
  <2>3. \A j \in 1 .. 4 : u8[j] = Magic[j]
    BY ONLY <1>12, <2>2
  <2>4. u8[5] = head[1] /\ u8[6] = head[2] /\ u8[7] = head[3] /\ u8[8] = head[4]
    BY ONLY <1>12, <2>2
  <2>5. u8[9] = kind[1] /\ u8[10] = kind[2] /\ u8[11] = kind[3]
    BY ONLY <1>13, <1>14, <2>1
  <2>6. u8[13] = flags[1] /\ u8[14] = flags[2] /\ u8[15] = flags[3] /\ u8[16] = flags[4]
    BY ONLY <1>14, <2>1
  <2> QED BY ONLY <2>3, <2>4, <2>5, <2>6
<1>21. /\ u8[17] = w[1] /\ u8[18] = w[2] /\ u8[19] = w[3] /\ u8[20] = w[4]
       /\ u8[21] = h[1] /\ u8[22] = h[2] /\ u8[23] = h[3] /\ u8[24] = h[4]
       /\ u8[25] = w[1] /\ u8[26] = w[2] /\ u8[27] = w[3] /\ u8[28] = w[4]
  <2>1. \A j \in 1 .. 20 : u8[j] = u5[j]
    <3>1. ASSUME NEW j \in 1 .. 20 PROVE u8[j] = u5[j]
      <4>1. j \in 1 .. 24 /\ j \in 1 .. 28
        OBVIOUS
      <4> QED BY ONLY <1>16, <1>17, <1>18, <3>1, <4>1, Zenon
    <3> QED BY <3>1
  <2>2. \A j \in 1 .. 24 : u8[j] = u6[j]
    <3>1. ASSUME NEW j \in 1 .. 24 PROVE u8[j] = u6[j]
      <4>1. j \in 1 .. 28
        OBVIOUS
      <4> QED BY ONLY <1>17, <1>18, <3>1, <4>1, Zenon
    <3> QED BY <3>1
  <2>3. u8[17] = w[1] /\ u8[18] = w[2] /\ u8[19] = w[3] /\ u8[20] = w[4]
    BY ONLY <1>15, <2>1
  <2>4. u8[21] = h[1] /\ u8[22] = h[2] /\ u8[23] = h[3] /\ u8[24] = h[4]
    BY ONLY <1>16, <2>2
  <2>5. u8[25] = w[1] /\ u8[26] = w[2] /\ u8[27] = w[3] /\ u8[28] = w[4]
    <3>1. 25 \in 1 .. 28 /\ 26 \in 1 .. 28 /\ 27 \in 1 .. 28 /\ 28 \in 1 .. 28
      OBVIOUS
    <3> QED BY ONLY <1>17, <1>18, <3>1, Zenon
  <2> QED BY ONLY <2>3, <2>4, <2>5
<1>22. U32(u8, 4) = HeaderSize
  BY <1>4, <1>20 DEF U32
<1>23. U32(u8, 16) = request.width /\ U32(u8, 20) = request.height
       /\ U32(u8, 24) = request.width /\ U32(u8, 28) = request.sliceHeight
  BY <1>5, <1>6, <1>7, <1>18, <1>21 DEF U32
<1>24. SubSeq(u8, 1, 4) = Magic
  <2>1. /\ SubSeq(u8, 0 + 1, 4) \in Seq(Byte) /\ Len(SubSeq(u8, 0 + 1, 4)) = 4 - 0
        /\ \A j \in 1 .. 4 - 0 : SubSeq(u8, 0 + 1, 4)[j] = u8[0 + j]
    <3>1. u8 \in Seq(Byte) /\ 0 \in Nat /\ 4 \in Nat /\ 0 <= 4 /\ 4 <= Len(u8)
      BY ONLY <1>18
    <3> QED BY ONLY <3>1, CutOut
  <2> DEFINE cut == SubSeq(u8, 0 + 1, 4)
  <2>2. cut \in Seq(Byte) /\ Len(cut) = 4 /\ \A j \in 1 .. 4 : cut[j] = u8[j]
    BY <2>1
  <2> HIDE DEF cut
  <2>3. \A j \in 1 .. 4 : cut[j] = Magic[j]
    BY <1>20, <2>2
  <2>4. cut = Magic
    BY <1>3, <2>2, <2>3
  <2> QED BY <2>4 DEF cut
<1>25. FlagsAt(u8, 12) = Flags
  <2>1. Flags \in SUBSET (0 .. 31)
    BY FlagsTyped
  <2>2. ASSUME NEW f \in 0 .. 31
        PROVE  u8[12 + 1 + f \div 8] = flags[1 + f \div 8]
    <3>1. f \div 8 \in {0, 1, 2, 3}
      OBVIOUS
    <3> DEFINE q == f \div 8
    <3>2. q \in {0, 1, 2, 3}
      BY <3>1
    <3> HIDE DEF q
    <3>3. u8[12 + 1 + q] = flags[1 + q]
      BY <1>20, <3>2
    <3> QED BY <3>3 DEF q
  <2>3. ASSUME NEW f \in 0 .. 31
        PROVE  f % 8 \in BitsOf(u8[12 + 1 + f \div 8], 0 .. 7) <=> f \in Flags
    BY <1>8, <2>2, Zenon
  <2>4. FlagsAt(u8, 12)
          = {f \in 0 .. 31 : f % 8 \in BitsOf(u8[12 + 1 + f \div 8], 0 .. 7)}
    BY Zenon DEF FlagsAt
  <2> QED BY <2>1, <2>3, <2>4, Zenon
<1> QED BY <1>9, <1>10, <1>18, <1>20, <1>22, <1>23, <1>24, <1>25 DEF HeaderSize

------------------------------------------------------------------------------
(* What is on its way: the header as written, cut short, or damaged in one   *)
(* byte; and what has been made of it.                                       *)
HeaderInv ==
  /\ format \in DOMAIN FormatByte /\ request \in RequestRecords
  /\ buf \in Seq(Byte) /\ damaged \in -1 .. HeaderSize - 1
  /\ damaged = -1 /\ Len(buf) = HeaderSize => buf = Written
  /\ damaged # -1 => /\ Len(buf) = HeaderSize
                     /\ \A j \in 1 .. HeaderSize : j # damaged + 1 => buf[j] = Written[j]
  /\ outcome.verdict # "none" => buf # << >> /\ outcome = ParseOf(buf)

LEMMA HeaderInvCorrect == HeaderSpec => []HeaderInv
<1> USE HeaderAssumption
<1>1. HeaderInit => HeaderInv
  BY DEF HeaderInit, HeaderInv, HeaderAssumption, HeaderSize
<1>2. HeaderInv /\ [HeaderNext]_headerVars => HeaderInv'
  <2> SUFFICES ASSUME HeaderInv, [HeaderNext]_headerVars PROVE HeaderInv'
    OBVIOUS
  <2>1. format' = format /\ request' = request
    BY DEF HeaderNext, headerVars, WriteHeader, Damage, Cut, Parse
  <2>2. Written' = Written
    BY <2>1 DEF Written, FlagBytes, FlagByte, Flags
  <2>3. Written \in Seq(Byte) /\ Len(Written) = HeaderSize
    BY WrittenAt DEF HeaderInv
  <2>4. CASE WriteHeader
    <3>1. buf' = Written /\ damaged' = damaged /\ outcome' = outcome /\ buf = << >>
      BY <2>4 DEF WriteHeader
    <3>2. damaged = -1
      BY <3>1 DEF HeaderInv, HeaderSize
    <3>3. outcome'.verdict = "none"
      BY <3>1 DEF HeaderInv
    <3> QED BY <2>1, <2>2, <2>3, <3>1, <3>2, <3>3 DEF HeaderInv
  <2>5. ASSUME NEW at \in 0 .. HeaderSize - 1, NEW b \in DamagedBytes, Damage(at, b)
        PROVE  HeaderInv'
    <3>1. /\ Len(buf) = HeaderSize /\ damaged = -1 /\ outcome.verdict = "none"
          /\ buf' = [buf EXCEPT ![at + 1] = b] /\ damaged' = at /\ outcome' = outcome
      BY <2>5 DEF Damage
    <3>2. buf = Written /\ b \in Byte /\ at \in Nat /\ at + 1 \in 1 .. HeaderSize
      BY <3>1 DEF HeaderInv, HeaderAssumption, HeaderSize
    <3>3. buf' \in Seq(Byte) /\ Len(buf') = HeaderSize
          /\ \A j \in 1 .. HeaderSize : j # at + 1 => buf'[j] = Written[j]
      BY <2>3, <3>1, <3>2
    <3>4. damaged' # -1 /\ damaged' \in -1 .. HeaderSize - 1
      BY <3>1, <3>2
    <3> QED BY <2>1, <2>2, <3>1, <3>3, <3>4 DEF HeaderInv
  <2>6. ASSUME NEW n \in {1, HeaderSize - 1}, Cut(n)
        PROVE  HeaderInv'
    <3>1. /\ Len(buf) = HeaderSize /\ damaged = -1 /\ outcome.verdict = "none"
          /\ buf' = SubSeq(buf, 1, n) /\ damaged' = damaged /\ outcome' = outcome
      BY <2>6 DEF Cut
    <3>2. n \in Nat /\ 0 <= n /\ n <= Len(buf) /\ n # HeaderSize /\ buf \in Seq(Byte)
      BY <3>1 DEF HeaderSize, HeaderInv
    <3>3. SubSeq(buf, 0 + 1, n) \in Seq(Byte) /\ Len(SubSeq(buf, 0 + 1, n)) = n - 0
      BY ONLY <3>2, CutOut
    <3>4. buf' \in Seq(Byte) /\ Len(buf') # HeaderSize
      BY <3>1, <3>2, <3>3
    <3> QED BY <2>1, <3>1, <3>4 DEF HeaderInv
  <2>7. CASE Parse
    <3>1. outcome' = ParseOf(buf) /\ buf' = buf /\ damaged' = damaged /\ buf # << >>
      BY <2>7 DEF Parse
    <3>2. buf' # << >> /\ outcome' = ParseOf(buf')
      BY <3>1
    <3>3. /\ buf' \in Seq(Byte) /\ damaged' \in -1 .. HeaderSize - 1
          /\ damaged' = -1 /\ Len(buf') = HeaderSize => buf' = Written
          /\ damaged' # -1 =>
               /\ Len(buf') = HeaderSize
               /\ \A j \in 1 .. HeaderSize : j # damaged' + 1 => buf'[j] = Written[j]
      BY <3>1 DEF HeaderInv
    <3> QED BY <2>1, <2>2, <3>2, <3>3 DEF HeaderInv
  <2>8. CASE UNCHANGED headerVars
    <3>1. outcome' = outcome /\ buf' = buf /\ damaged' = damaged
      BY <2>8 DEF headerVars
    <3>2. outcome'.verdict # "none" => buf' # << >> /\ outcome' = ParseOf(buf')
      BY <3>1 DEF HeaderInv
    <3>3. /\ buf' \in Seq(Byte) /\ damaged' \in -1 .. HeaderSize - 1
          /\ damaged' = -1 /\ Len(buf') = HeaderSize => buf' = Written
          /\ damaged' # -1 =>
               /\ Len(buf') = HeaderSize
               /\ \A j \in 1 .. HeaderSize : j # damaged' + 1 => buf'[j] = Written[j]
      BY <3>1 DEF HeaderInv
    <3> QED BY <2>1, <2>2, <3>2, <3>3 DEF HeaderInv
  <2> QED BY <2>4, <2>5, <2>6, <2>7, <2>8 DEF HeaderNext
<1>3. QED
  BY <1>1, <1>2, PTL DEF HeaderSpec

(* What parse answers to 32 bytes.                                           *)
LEMMA Parsed ==
  ASSUME NEW b, Len(b) = HeaderSize
  PROVE  LET h     == Fields(b)
             sizes == {h.width, h.height, h.sliceHeight}
             known == /\ SubSeq(b, 1, 4) = Magic /\ U32(b, 4) = HeaderSize
                      /\ ~ (b[9] > 7) /\ Lookup(b[10]) # {}
                      /\ \E name \in Lookup(b[10]) : AuxByte(name) = b[11]
             legal == 0 \notin sizes /\ \A d \in sizes : ~ (d > MaxDimension)
         IN  /\ ParseOf(b).verdict = "Ok" => known /\ legal
             /\ known /\ legal => ParseOf(b).verdict = "Ok"
             /\ ParseOf(b).verdict = "Ok" => ParseOf(b).header = Fields(b)
             /\ known /\ ~ legal => ParseOf(b).verdict \in {"ZeroDimension", "DimensionTooLarge"}
<1> DEFINE h     == Fields(b)
           sizes == {h.width, h.height, h.sliceHeight}
           f1 == SubSeq(b, 1, 4) # Magic
           f2 == U32(b, 4) # HeaderSize
           f3 == b[9] > 7
           f4 == Lookup(b[10]) = {}
           f5 == \A name \in Lookup(b[10]) : AuxByte(name) # b[11]
           f6 == 0 \in sizes
           f7 == \E d \in sizes : d > MaxDimension
           checks == << Check(f1, "BadMagic"), Check(f2, "BadHeaderSize"),
                        Check(f3, "BadVersion"), Check(f4, "UnsupportedFormatByte"),
                        Check(f5, "AuxByteMismatch"), Check(f6, "ZeroDimension"),
                        Check(f7, "DimensionTooLarge") >>
           failing == {j \in DOMAIN checks : checks[j].fails}
<1>1. Checks(b) = checks
  BY Zenon DEF Checks
<1>2. ParseOf(b) = IF failing = {} THEN [verdict |-> "Ok", header |-> h]
                   ELSE [verdict |-> checks[Min(failing)].error]
  <2>1. ~ (Len(b) < HeaderSize)
    BY DEF HeaderSize
  <2> HIDE DEF checks
  <2> QED BY <1>1, <2>1, Zenon DEF ParseOf
<1> HIDE DEF f1, f2, f3, f4, f5, f6, f7
<1>3. /\ DOMAIN checks = 1 .. 7
      /\ checks[1].fails = f1 /\ checks[2].fails = f2 /\ checks[3].fails = f3
      /\ checks[4].fails = f4 /\ checks[5].fails = f5 /\ checks[6].fails = f6
      /\ checks[7].fails = f7
      /\ checks[1].error = "BadMagic" /\ checks[2].error = "BadHeaderSize"
      /\ checks[3].error = "BadVersion" /\ checks[4].error = "UnsupportedFormatByte"
      /\ checks[5].error = "AuxByteMismatch" /\ checks[6].error = "ZeroDimension"
      /\ checks[7].error = "DimensionTooLarge"
  BY DEF Check
<1> HIDE DEF checks
<1>4. /\ failing \subseteq 1 .. 7
      /\ 1 \in failing <=> f1
      /\ 2 \in failing <=> f2
      /\ 3 \in failing <=> f3
      /\ 4 \in failing <=> f4
      /\ 5 \in failing <=> f5
      /\ 6 \in failing <=> f6
      /\ 7 \in failing <=> f7
  BY <1>3
<1> HIDE DEF failing
<1>5. failing = {} <=> ~ (f1 \/ f2 \/ f3 \/ f4 \/ f5 \/ f6 \/ f7)
  BY <1>4
<1>6. ASSUME failing # {}
      PROVE  Min(failing) \in failing
  <2>1. failing \in SUBSET Nat
    BY <1>4
  <2> QED BY <1>6, <2>1, MinIsElement
<1>7. ASSUME failing # {} PROVE ParseOf(b).verdict # "Ok"
  <2>1. Min(failing) \in 1 .. 7
    BY <1>4, <1>6, <1>7
  <2>2. ParseOf(b).verdict = checks[Min(failing)].error
    BY <1>2, <1>7
  <2> DEFINE m == Min(failing)
  <2>3. m \in {1, 2, 3, 4, 5, 6, 7}
    BY <2>1
  <2> HIDE DEF m
  <2>4. checks[m].error # "Ok"
    BY <1>3, <2>3
  <2> QED BY <2>2, <2>4 DEF m
<1>8. ASSUME failing = {} PROVE ParseOf(b).verdict = "Ok" /\ ParseOf(b).header = h
  BY <1>2, <1>8
<1>9. ASSUME ~ (f1 \/ f2 \/ f3 \/ f4 \/ f5), f6 \/ f7
      PROVE  ParseOf(b).verdict \in {"ZeroDimension", "DimensionTooLarge"}
  <2>1. failing # {} /\ failing \subseteq {6, 7}
    BY <1>4, <1>9
  <2>2. Min(failing) \in {6, 7}
    BY <1>6, <2>1
  <2>3. ParseOf(b).verdict = checks[Min(failing)].error
    <3>1. failing # {}
      BY <2>1
    <3> QED BY <1>2, <3>1
  <2> DEFINE m == Min(failing)
  <2>4. m \in {6, 7}
    BY <2>2
  <2> HIDE DEF m
  <2>5. checks[m].error \in {"ZeroDimension", "DimensionTooLarge"}
    BY <1>3, <2>4
  <2> QED BY <2>3, <2>5 DEF m
<1> HIDE DEF h
<1> QED BY <1>5, <1>7, <1>8, <1>9, Zenon DEF f1, f2, f3, f4, f5, f6, f7, h

(* A header that arrives as it was written.                                  *)
LEMMA ArrivedAsWritten ==
  ASSUME HeaderInv, Arrived, outcome.verdict # "none"
  PROVE  /\ outcome = ParseOf(Written) /\ Len(Written) = HeaderSize
         /\ Lookup(Written[10]) = {format}
         /\ LET sizes == {request.width, request.height, request.sliceHeight}
            IN  IF 0 \notin sizes /\ \A d \in sizes : ~ (d > MaxDimension)
                THEN outcome.verdict = "Ok" /\ outcome.header = Fields(Written)
                ELSE outcome.verdict \in {"ZeroDimension", "DimensionTooLarge"}
<1>1. outcome = ParseOf(Written) /\ format \in DOMAIN FormatByte /\ request \in RequestRecords
  BY DEF HeaderInv, Arrived
<1>2. /\ Written \in Seq(Byte) /\ Len(Written) = HeaderSize
      /\ SubSeq(Written, 1, 4) = Magic /\ U32(Written, 4) = HeaderSize
      /\ Written[9] = 7 /\ Written[10] = FormatByte[format]
      /\ Written[11] = AuxByte(format)
      /\ U32(Written, 16) = request.width /\ U32(Written, 20) = request.height
      /\ U32(Written, 28) = request.sliceHeight
  BY <1>1, WrittenAt
<1>3. Lookup(Written[10]) = {format}
  BY <1>1, <1>2, FormatFacts
<1> DEFINE h     == Fields(Written)
           sizes == {h.width, h.height, h.sliceHeight}
           known == /\ SubSeq(Written, 1, 4) = Magic /\ U32(Written, 4) = HeaderSize
                    /\ ~ (Written[9] > 7) /\ Lookup(Written[10]) # {}
                    /\ \E name \in Lookup(Written[10]) : AuxByte(name) = Written[11]
           legal == 0 \notin sizes /\ \A d \in sizes : ~ (d > MaxDimension)
<1>4. known
  BY <1>2, <1>3
<1>5. /\ h.width = request.width /\ h.height = request.height
      /\ h.sliceHeight = request.sliceHeight
  BY <1>2 DEF Fields
<1>6. /\ known /\ legal => ParseOf(Written).verdict = "Ok"
      /\ ParseOf(Written).verdict = "Ok" => ParseOf(Written).header = Fields(Written)
      /\ known /\ ~ legal => ParseOf(Written).verdict \in {"ZeroDimension", "DimensionTooLarge"}
  <2> HIDE DEF known, legal, h, sizes
  <2>1. Len(Written) = HeaderSize
    BY <1>2
  <2> USE DEF known, legal, h, sizes
  <2> QED BY <2>1, Parsed, Zenon
<1>7. legal <=> LET all == {request.width, request.height, request.sliceHeight}
               IN  0 \notin all /\ \A d \in all : ~ (d > MaxDimension)
  <2> HIDE DEF h
  <2> QED BY <1>5, Zenon
<1> HIDE DEF known, legal
<1> QED BY <1>1, <1>2, <1>3, <1>4, <1>6, <1>7, Zenon

(* The four bytes of a dword are numbers, and so is the dword.               *)
LEMMA DwordNat ==
  ASSUME NEW b \in Seq(Byte), NEW at \in Nat, at + 4 <= Len(b)
  PROVE  U32(b, at) \in Nat
<1>1. b[at + 1] \in Byte /\ b[at + 2] \in Byte /\ b[at + 3] \in Byte /\ b[at + 4] \in Byte
  <2>1. at + 1 \in 1 .. Len(b) /\ at + 2 \in 1 .. Len(b) /\ at + 3 \in 1 .. Len(b)
        /\ at + 4 \in 1 .. Len(b)
    OBVIOUS
  <2> QED BY <2>1, ElementOfSeq
<1>2. \A n \in Byte : n \in Nat
  BY DEF Byte
<1>3. b[at + 1] \in Nat /\ b[at + 2] \in Nat /\ b[at + 3] \in Nat /\ b[at + 4] \in Nat
  BY <1>1, <1>2, Zenon
<1> QED BY <1>3 DEF U32

(* A changed byte changes at most the field it lies in.                      *)
LEMMA OneField ==
  ASSUME NEW b, NEW c, NEW x \in 1 .. HeaderSize,
         \A j \in 1 .. HeaderSize : j # x => b[j] = c[j]
  PROVE  Cardinality({f \in DOMAIN Fields(c) : Fields(c)[f] # Fields(b)[f]}) <= 1
<1> DEFINE g == Fields(b)
           h == Fields(c)
           names == {"format", "aux", "variant", "flags", "width", "height",
                     "widthExtra", "sliceHeight"}
           D == {f \in DOMAIN h : h[f] # g[f]}
<1>1. DOMAIN h = names
  BY DEF Fields
<1>2. /\ x # 10 => g["format"] = h["format"]
      /\ x # 11 => g["aux"] = h["aux"]
      /\ x # 12 => g["variant"] = h["variant"]
  BY DEF Fields, HeaderSize
<1>3. ASSUME NEW at \in {16, 20, 24, 28}, x \notin at + 1 .. at + 4
      PROVE  U32(b, at) = U32(c, at)
  <2>1. /\ at + 1 \in 1 .. HeaderSize /\ at + 1 # x
        /\ at + 2 \in 1 .. HeaderSize /\ at + 2 # x
        /\ at + 3 \in 1 .. HeaderSize /\ at + 3 # x
        /\ at + 4 \in 1 .. HeaderSize /\ at + 4 # x
    BY <1>3 DEF HeaderSize
  <2>2. b[at + 1] = c[at + 1] /\ b[at + 2] = c[at + 2] /\ b[at + 3] = c[at + 3]
        /\ b[at + 4] = c[at + 4]
    BY <2>1
  <2> QED BY <2>2 DEF U32
<1>4. /\ x \notin 17 .. 20 => g["width"] = h["width"]
      /\ x \notin 21 .. 24 => g["height"] = h["height"]
      /\ x \notin 25 .. 28 => g["widthExtra"] = h["widthExtra"]
      /\ x \notin 29 .. 32 => g["sliceHeight"] = h["sliceHeight"]
  <2>1. /\ x \notin 17 .. 20 => U32(b, 16) = U32(c, 16)
        /\ x \notin 21 .. 24 => U32(b, 20) = U32(c, 20)
        /\ x \notin 25 .. 28 => U32(b, 24) = U32(c, 24)
        /\ x \notin 29 .. 32 => U32(b, 28) = U32(c, 28)
    BY <1>3
  <2> QED BY <2>1 DEF Fields
<1>5. x \notin 13 .. 16 => g["flags"] = h["flags"]
  <2> SUFFICES ASSUME x \notin 13 .. 16 PROVE FlagsAt(b, 12) = FlagsAt(c, 12)
    BY DEF Fields
  <2>1. ASSUME NEW f \in 0 .. 31 PROVE b[12 + 1 + f \div 8] = c[12 + 1 + f \div 8]
    <3>1. 12 + 1 + f \div 8 \in 13 .. 16
      OBVIOUS
    <3>2. 12 + 1 + f \div 8 \in 1 .. HeaderSize /\ 12 + 1 + f \div 8 # x
      BY <3>1 DEF HeaderSize
    <3> QED BY <3>2
  <2>2. FlagsAt(b, 12) = {f \in 0 .. 31 : f % 8 \in BitsOf(b[12 + 1 + f \div 8], 0 .. 7)}
        /\ FlagsAt(c, 12) = {f \in 0 .. 31 : f % 8 \in BitsOf(c[12 + 1 + f \div 8], 0 .. 7)}
    BY Zenon DEF FlagsAt
  <2>3. \A f \in 0 .. 31 : f % 8 \in BitsOf(b[12 + 1 + f \div 8], 0 .. 7)
                             <=> f % 8 \in BitsOf(c[12 + 1 + f \div 8], 0 .. 7)
    BY <2>1, Zenon
  <2> QED BY <2>2, <2>3, Zenon
<1> HIDE DEF g, h
<1>6. \E f : D \subseteq {f}
  <2>1. CASE x <= 9
    BY <1>1, <1>2, <1>4, <1>5, <2>1
  <2>2. CASE x = 10
    <3>1. D \subseteq {"format"}
      BY <1>1, <1>2, <1>4, <1>5, <2>2
    <3> QED BY <3>1
  <2>3. CASE x = 11
    <3>1. D \subseteq {"aux"}
      BY <1>1, <1>2, <1>4, <1>5, <2>3
    <3> QED BY <3>1
  <2>4. CASE x = 12
    <3>1. D \subseteq {"variant"}
      BY <1>1, <1>2, <1>4, <1>5, <2>4
    <3> QED BY <3>1
  <2>5. CASE x \in 13 .. 16
    <3>1. D \subseteq {"flags"}
      BY <1>1, <1>2, <1>4, <2>5
    <3> QED BY <3>1
  <2>6. CASE x \in 17 .. 20
    <3>1. D \subseteq {"width"}
      BY <1>1, <1>2, <1>4, <1>5, <2>6
    <3> QED BY <3>1
  <2>7. CASE x \in 21 .. 24
    <3>1. D \subseteq {"height"}
      BY <1>1, <1>2, <1>4, <1>5, <2>7
    <3> QED BY <3>1
  <2>8. CASE x \in 25 .. 28
    <3>1. D \subseteq {"widthExtra"}
      BY <1>1, <1>2, <1>4, <1>5, <2>8
    <3> QED BY <3>1
  <2>9. CASE x \in 29 .. 32
    <3>1. D \subseteq {"sliceHeight"}
      BY <1>1, <1>2, <1>4, <1>5, <2>9
    <3> QED BY <3>1
  <2> QED BY <2>1, <2>2, <2>3, <2>4, <2>5, <2>6, <2>7, <2>8, <2>9 DEF HeaderSize
<1> HIDE DEF D
<1>7. Cardinality(D) <= 1
  <2>1. PICK f : D \subseteq {f}
    BY <1>6
  <2>2. IsFiniteSet({f}) /\ Cardinality({f}) = 1
    BY FS_Singleton
  <2> QED BY <2>1, <2>2, FS_Subset
<1> QED BY <1>7 DEF D, g, h

(* What write_header pushes field by field parse finds by offset: a header   *)
(* that arrives unchanged gives the format and the sizes it was written for, *)
(* or is refused for a size and nothing else; one byte changed, and it       *)
(* differs in one field at most, with sizes that are legal.                  *)
THEOREM SurvivesCorrect == HeaderSpec => []HeaderSurvives
<1>1. HeaderInv => HeaderSurvives
  <2> SUFFICES ASSUME HeaderInv PROVE HeaderSurvives
    OBVIOUS
  <2>0. /\ format \in DOMAIN FormatByte /\ request \in RequestRecords
        /\ Written \in Seq(Byte) /\ Len(Written) = HeaderSize
        /\ U32(Written, 16) = request.width /\ U32(Written, 20) = request.height
        /\ U32(Written, 24) = request.width /\ U32(Written, 28) = request.sliceHeight
    BY WrittenAt DEF HeaderInv
  <2> DEFINE sizes == {request.width, request.height, request.sliceHeight}
             legal == \A d \in sizes : d \in 1 .. MaxDimension
  <2>1. legal <=> 0 \notin sizes /\ \A d \in sizes : ~ (d > MaxDimension)
    <3>1. \A d \in sizes : d \in Nat
      BY <2>0 DEF RequestRecords, Dword
    <3>2. MaxDimension \in Nat
      BY HeaderAssumption DEF HeaderAssumption
    <3> HIDE DEF sizes
    <3> QED BY <3>1, <3>2
  <2>2. ASSUME Arrived, outcome.verdict # "none"
        PROVE  IF legal
               THEN /\ outcome.verdict = "Ok"
                    /\ Lookup(outcome.header.format) = {format}
                    /\ outcome.header.width = request.width
                    /\ outcome.header.height = request.height
                    /\ outcome.header.sliceHeight = request.sliceHeight
                    /\ WidthFieldsAgree(outcome.header)
               ELSE outcome.verdict \in {"ZeroDimension", "DimensionTooLarge"}
    <3>1. /\ Lookup(Written[10]) = {format}
          /\ IF 0 \notin sizes /\ \A d \in sizes : ~ (d > MaxDimension)
             THEN outcome.verdict = "Ok" /\ outcome.header = Fields(Written)
             ELSE outcome.verdict \in {"ZeroDimension", "DimensionTooLarge"}
      BY <2>2, ArrivedAsWritten, Zenon
    <3> HIDE DEF sizes, legal
    <3>2. IF legal THEN outcome.verdict = "Ok" /\ outcome.header = Fields(Written)
                   ELSE outcome.verdict \in {"ZeroDimension", "DimensionTooLarge"}
      BY <2>1, <3>1, Zenon
    <3>3. /\ Fields(Written).format = Written[10]
          /\ Fields(Written).width = request.width /\ Fields(Written).height = request.height
          /\ Fields(Written).sliceHeight = request.sliceHeight
          /\ Fields(Written).widthExtra = request.width
      BY <2>0 DEF Fields
    <3> QED BY <3>1, <3>2, <3>3, Zenon DEF WidthFieldsAgree
  <2>3. ASSUME damaged # -1, outcome.verdict = "Ok"
        PROVE  /\ Cardinality(Changed) <= 1
               /\ \A d \in {outcome.header.width, outcome.header.height, outcome.header.sliceHeight} :
                    d \in 1 .. MaxDimension
    <3>1. /\ outcome = ParseOf(buf) /\ Len(buf) = HeaderSize /\ buf \in Seq(Byte)
          /\ damaged \in -1 .. HeaderSize - 1
          /\ \A j \in 1 .. HeaderSize : j # damaged + 1 => buf[j] = Written[j]
      BY <2>3 DEF HeaderInv
    <3> DEFINE h  == Fields(buf)
               of == {h.width, h.height, h.sliceHeight}
    <3>2. outcome.header = h /\ 0 \notin of /\ \A d \in of : ~ (d > MaxDimension)
      BY <2>3, <3>1, Parsed, Zenon
    <3>3. Cardinality(Changed) <= 1
      <4>1. damaged + 1 \in 1 .. HeaderSize
        BY <2>3, <3>1 DEF HeaderSize
      <4>2. Cardinality({f \in DOMAIN Fields(Written) : Fields(Written)[f] # Fields(buf)[f]}) <= 1
        BY <3>1, <4>1, OneField
      <4>3. Changed = {f \in DOMAIN Fields(Written) : Fields(Written)[f] # Fields(buf)[f]}
        BY <3>2, Zenon DEF Changed
      <4> QED BY <4>2, <4>3
    <3>4. \A d \in of : d \in Nat
      <4>1. U32(buf, 16) \in Nat /\ U32(buf, 20) \in Nat /\ U32(buf, 28) \in Nat
        <5>1. 16 + 4 <= Len(buf) /\ 20 + 4 <= Len(buf) /\ 28 + 4 <= Len(buf)
          BY <3>1 DEF HeaderSize
        <5>2. 16 \in Nat /\ 20 \in Nat /\ 28 \in Nat
          OBVIOUS
        <5> QED BY <3>1, <5>1, <5>2, DwordNat, Zenon
      <4>2. h.width = U32(buf, 16) /\ h.height = U32(buf, 20) /\ h.sliceHeight = U32(buf, 28)
        BY DEF Fields
      <4> QED BY <4>1, <4>2
    <3>5. MaxDimension \in Nat
      BY HeaderAssumption DEF HeaderAssumption
    <3>6. \A d \in of : d \in 1 .. MaxDimension
      <4> HIDE DEF of
      <4> QED BY <3>2, <3>4, <3>5
    <3> HIDE DEF h
    <3> QED BY <3>2, <3>3, <3>6
  <2> QED BY <2>2, <2>3, Zenon DEF HeaderSurvives
<1> QED BY <1>1, HeaderInvCorrect, PTL

(* Interlaced, full range and colour matrix share the flags dword, and each  *)
(* comes back out of its accessor.                                           *)
THEOREM KnobsCorrect == HeaderSpec => []KnobsIndependent
<1>1. HeaderInv => KnobsIndependent
  <2> SUFFICES ASSUME HeaderInv, Arrived, outcome.verdict = "Ok"
               PROVE  /\ IsInterlaced(outcome.header) = request.interlaced
                      /\ IsFullRange(outcome.header) =
                           (request.fullRange /\ FourccTable[format].family \notin {"RGB", "RGBA"})
                      /\ ColorMatrixNibble(outcome.header) =
                           (IF request.matrix = 1 THEN 0 ELSE request.matrix % 16)
    BY DEF KnobsIndependent
  <2>1. outcome.header.flags = Flags
    <3>1. outcome.header = Fields(Written)
      <4>1. outcome.verdict # "none" /\ outcome.verdict \notin {"ZeroDimension", "DimensionTooLarge"}
        OBVIOUS
      <4> QED BY <4>1, ArrivedAsWritten, Zenon
    <3>2. FlagsAt(Written, 12) = Flags
      BY WrittenAt DEF HeaderInv
    <3> QED BY <3>1, <3>2 DEF Fields
  <2>2. /\ request.interlaced \in BOOLEAN /\ request.fullRange \in BOOLEAN
        /\ request.matrix \in Byte
    BY DEF HeaderInv, RequestRecords
  <2>3. KeepsFullRange(FormatByte[format]) <=> FourccTable[format].family \notin {"RGB", "RGBA"}
    BY FormatFacts DEF HeaderInv
  <2> DEFINE nibble == BitsOf(request.matrix, 0 .. 3)
             matrix == MatrixBits(request.matrix)
  <2>4. nibble \subseteq 0 .. 3
    BY DEF BitsOf
  <2> HIDE DEF nibble
  <2>5. matrix = IF request.matrix = 1 THEN {} ELSE {b + 20 : b \in nibble}
    BY DEF MatrixBits, ColorMatrixAt, nibble
  <2>6. matrix \subseteq 20 .. 23
    BY <2>4, <2>5
  <2> HIDE DEF matrix
  <2>7. Flags = ((IF request.interlaced THEN {1} ELSE {}) \cup (IF request.fullRange THEN {2} ELSE {})
                   \cup matrix)
                 \ (IF KeepsFullRange(FormatByte[format]) THEN {} ELSE {2})
    BY DEF Flags, FlagInterlaced, FlagFullRange, matrix
  <2>8. /\ 1 \in Flags <=> request.interlaced
        /\ 2 \in Flags <=> request.fullRange /\ KeepsFullRange(FormatByte[format])
        /\ Flags \cap (20 .. 23) = matrix
    <3> DEFINE keeps == KeepsFullRange(FormatByte[format])
    <3>1. \A b \in matrix : b \in 20 .. 23
      BY <2>6
    <3>2. 1 \notin matrix /\ 2 \notin matrix /\ 1 \notin 20 .. 23 /\ 2 \notin 20 .. 23
      BY <3>1
    <3> HIDE DEF keeps
    <3>3. Flags = ((IF request.interlaced THEN {1} ELSE {}) \cup (IF request.fullRange THEN {2} ELSE {})
                     \cup matrix)
                   \ (IF keeps THEN {} ELSE {2})
      BY <2>7 DEF keeps
    <3>4. /\ 1 \in Flags <=> request.interlaced
          /\ 2 \in Flags <=> request.fullRange /\ keeps
      BY <3>2, <3>3
    <3>5. Flags \cap (20 .. 23) = matrix
      BY <2>6, <3>2, <3>3
    <3> QED BY <3>4, <3>5 DEF keeps
  <2>9. IsInterlaced(outcome.header) <=> request.interlaced
    BY <2>1, <2>8 DEF IsInterlaced, FlagInterlaced
  <2>10. IsFullRange(outcome.header)
          <=> request.fullRange /\ FourccTable[format].family \notin {"RGB", "RGBA"}
    BY <2>1, <2>3, <2>8 DEF IsFullRange, FlagFullRange
  <2>11. ColorMatrixNibble(outcome.header) = Number({b - 20 : b \in matrix})
    BY <2>1, <2>8 DEF ColorMatrixNibble, ColorMatrixMask, ColorMatrixAt
  <2>12. /\ IsInterlaced(outcome.header) = request.interlaced
         /\ IsFullRange(outcome.header) =
              (request.fullRange /\ FourccTable[format].family \notin {"RGB", "RGBA"})
    BY <2>2, <2>9, <2>10 DEF IsInterlaced, IsFullRange
  <2>13. CASE request.matrix = 1
    <3>1. {b - 20 : b \in matrix} = {}
      BY <2>5, <2>13
    <3>2. Number({}) = 0
      BY NumberSum
    <3> QED BY <2>11, <2>13, <2>12, <3>1, <3>2, Zenon
  <2>14. CASE request.matrix # 1
    <3>1. {b - 20 : b \in matrix} = nibble
      <4>1. matrix = {b + 20 : b \in nibble}
        BY <2>5, <2>14
      <4>2. \A b \in nibble : b \in Int /\ (b + 20) - 20 = b
        BY <2>4
      <4> QED BY <4>1, <4>2
    <3>2. Number(nibble) = request.matrix % 16
      BY <2>2, LowNibble DEF nibble
    <3> QED BY <2>11, <2>14, <2>12, <3>1, <3>2, Zenon
  <2> QED BY <2>13, <2>14
<1> QED BY <1>1, HeaderInvCorrect, PTL

------------------------------------------------------------------------------
(* Predict: the passes are lossless for every slice size, sample range,      *)
(* predictor, depth and field stride.  A prediction reads only samples       *)
(* before its own in raster order.  So the encoder, going backwards, always  *)
(* predicts from pixels, and leaves behind exactly the residuals an          *)
(* out-of-place encoder would make; the decoder, going forwards, predicts    *)
(* from the pixels it has restored.                                          *)


(* One sample of an out-of-place encoder. *)
Residual(r, c) == (pixels[r][c] - Prediction(pixels, r, c, stride)) % SampleSpace

Earlier(r, c, r2, c2) == r < r2 \/ (r = r2 /\ c < c2)

RowSet == 0 .. Rows - 1
ColSet == 0 .. Width - 1

EncodeInv ==
  pass = "encode" =>
    \A r \in RowSet, c \in ColSet :
      data[r][c] = IF Earlier(row, col, r, c) THEN Residual(r, c) ELSE pixels[r][c]

DecodeInv ==
  pass = "decode" =>
    \A r \in RowSet, c \in ColSet :
      data[r][c] = IF Earlier(r, c, row, col) THEN pixels[r][c] ELSE Residual(r, c)

DoneInv ==
  pass = "done" => \A r \in RowSet, c \in ColSet : data[r][c] = pixels[r][c]

PredictInv == PredictTypeOK /\ EncodeInv /\ DecodeInv /\ DoneInv

------------------------------------------------------------------------------
(* Arithmetic modulo the sample range. *)
LEMMA ModRange ==
  ASSUME NEW x \in Int PROVE x % SampleSpace \in Samples
  BY PredictAssumption DEF Samples

LEMMA SubAddBack ==
  ASSUME NEW p \in Samples, NEW q \in Samples
  PROVE  (((p - q) % SampleSpace) + q) % SampleSpace = p
<1>1. CASE p >= q
  <2>1. (p - q) % SampleSpace = p - q
    BY <1>1, PredictAssumption DEF Samples
  <2>2. p % SampleSpace = p
    BY PredictAssumption DEF Samples
  <2> QED BY <2>1, <2>2, PredictAssumption DEF Samples
<1>2. CASE p < q
  <2>1. (p - q) % SampleSpace = p - q + SampleSpace
    BY <1>2, PredictAssumption DEF Samples
  <2>2. (p + SampleSpace) % SampleSpace = p
    BY PredictAssumption DEF Samples
  <2> QED BY <2>1, <2>2, PredictAssumption DEF Samples
<1> QED BY <1>1, <1>2, PredictAssumption DEF Samples

(* A sample of a buffer is a sample, also at a neighbour's place. *)
LEMMA CellType ==
  ASSUME NEW d \in Buffers, NEW r \in RowSet, NEW c \in ColSet
  PROVE  d[r][c] \in Samples
  BY DEF Buffers, RowSet, ColSet

(* A prediction is a sample. *)
LEMMA PredictionType ==
  ASSUME NEW d \in Buffers, NEW r \in RowSet, NEW c \in ColSet,
         stride \in {1, 2}
  PROVE  Prediction(d, r, c, stride) \in Samples
<1>1. 0 \in Samples
  BY PredictAssumption DEF Samples
<1>2. c # 0 => c - 1 \in ColSet
  BY PredictAssumption DEF ColSet
<1>3. r >= stride => r - stride \in RowSet
  BY PredictAssumption DEF RowSet
<1>4. 0 \in ColSet
  BY PredictAssumption DEF ColSet
<1>5. c # 0 => d[r][c - 1] \in Samples
  BY <1>2, CellType
<1>6. r >= stride => d[r - stride][c] \in Samples /\ d[r - stride][0] \in Samples
  BY <1>3, <1>4, CellType
<1>7. c # 0 /\ r >= stride => d[r - stride][c - 1] \in Samples
  BY <1>2, <1>3, CellType
<1>8. \A a, b, e \in Samples : Gradient(a, b, e) \in Samples
  BY ModRange DEF Gradient, Samples
<1>9. \A a, b \in Samples : Smaller(a, b) \in Samples /\ Larger(a, b) \in Samples
  BY DEF Smaller, Larger
<1>10. \A a, b, e \in Samples : MedianU8(a, b, e) \in Samples /\ MedianU16(a, b, e) \in Samples
  BY <1>8, <1>9 DEF MedianU8, MedianU16
<1>11. CASE r < stride
  BY <1>11, <1>1, <1>5 DEF Prediction
<1>12. CASE ~ (r < stride) /\ c = 0
  <2>1. r >= stride
    BY <1>12 DEF RowSet
  <2> QED BY <2>1, <1>12, <1>6 DEF Prediction
<1>13. CASE ~ (r < stride) /\ c # 0
  <2>1. r >= stride
    BY <1>13 DEF RowSet
  <2> QED BY <2>1, <1>13, <1>5, <1>6, <1>7, <1>8, <1>10 DEF Prediction
<1> QED BY <1>11, <1>12, <1>13

(* A prediction depends on nothing but the samples before its own.           *)
LEMMA PredictionLocal ==
  ASSUME NEW d \in Buffers, NEW e \in Buffers, NEW r \in RowSet, NEW c \in ColSet,
         stride \in {1, 2},
         \A r2 \in RowSet, c2 \in ColSet : Earlier(r2, c2, r, c) => d[r2][c2] = e[r2][c2]
  PROVE  Prediction(d, r, c, stride) = Prediction(e, r, c, stride)
<1>1. r \in Int /\ c \in Int /\ stride \in Int /\ stride > 0 /\ c >= 0
  BY PredictAssumption DEF RowSet, ColSet
<1>2. c # 0 => c - 1 \in ColSet /\ Earlier(r, c - 1, r, c)
  BY <1>1, PredictAssumption DEF ColSet, Earlier
<1>3. ~ (r < stride) => r - stride \in RowSet
  BY <1>1, PredictAssumption DEF RowSet
<1>4. \A c2 \in ColSet : Earlier(r - stride, c2, r, c)
  BY <1>1 DEF Earlier
<1>5. 0 \in ColSet
  BY PredictAssumption DEF ColSet
<1>6. c # 0 => d[r][c - 1] = e[r][c - 1]
  BY <1>2
<1>7. ~ (r < stride) => \A c2 \in ColSet : d[r - stride][c2] = e[r - stride][c2]
  BY <1>3, <1>4
<1> QED BY <1>2, <1>5, <1>6, <1>7 DEF Prediction

------------------------------------------------------------------------------
LEMMA PredictInitInv == PredictInit => PredictInv
<1> SUFFICES ASSUME PredictInit PROVE PredictInv
  OBVIOUS
<1>1. PredictTypeOK
  BY PredictAssumption DEF PredictInit, PredictTypeOK
<1>2. EncodeInv
  <2> SUFFICES ASSUME NEW r \in RowSet, NEW c \in ColSet PROVE ~ Earlier(row, col, r, c)
    BY DEF PredictInit, EncodeInv
  <2> QED BY PredictAssumption DEF PredictInit, Earlier, RowSet, ColSet
<1>3. DecodeInv /\ DoneInv
  BY DEF PredictInit, DecodeInv, DoneInv
<1> QED BY <1>1, <1>2, <1>3 DEF PredictInv

(* One sample replaced in a buffer. *)
LEMMA Replaced ==
  ASSUME NEW d \in Buffers, NEW x \in Samples, NEW r0 \in RowSet, NEW c0 \in ColSet
  PROVE  /\ [d EXCEPT ![r0][c0] = x] \in Buffers
         /\ \A r \in RowSet, c \in ColSet :
              [d EXCEPT ![r0][c0] = x][r][c] = IF r = r0 /\ c = c0 THEN x ELSE d[r][c]
  BY DEF Buffers, RowSet, ColSet

LEMMA EncodeStep == PredictInv /\ Encode => PredictInv'
<1> SUFFICES ASSUME PredictInv, Encode PROVE PredictInv'
  OBVIOUS
<1> DEFINE x == EncodeSample(data, row, col)
<1>1. /\ data \in Buffers /\ pixels \in Buffers /\ stride \in {1, 2}
      /\ row \in RowSet /\ col \in ColSet /\ row \in Int /\ col \in Int
  BY DEF PredictInv, PredictTypeOK, RowSet, ColSet
<1>2. /\ data' = [data EXCEPT ![row][col] = x]
      /\ pass = "encode" /\ UNCHANGED <<predictor, deep, stride, pixels>>
  BY DEF Encode
<1>3. \A r2 \in RowSet, c2 \in ColSet :
        Earlier(r2, c2, row, col) => data[r2][c2] = pixels[r2][c2]
  BY <1>1, <1>2 DEF PredictInv, EncodeInv, Earlier, RowSet, ColSet
<1>4. Prediction(data, row, col, stride) = Prediction(pixels, row, col, stride)
  BY <1>1, <1>3, PredictionLocal
<1>5. data[row][col] = pixels[row][col]
  BY <1>1, <1>2 DEF PredictInv, EncodeInv, Earlier, RowSet, ColSet
<1>6. x = Residual(row, col)
  BY <1>4, <1>5 DEF EncodeSample, Residual
<1>7. x \in Samples
  <2>1. Prediction(pixels, row, col, stride) \in Int /\ pixels[row][col] \in Int
    BY <1>1, PredictionType, CellType DEF Samples
  <2> QED BY <2>1, <1>6, ModRange DEF Residual
<1> HIDE DEF x
<1>8. /\ data' \in Buffers
      /\ \A r \in RowSet, c \in ColSet :
           data'[r][c] = IF r = row /\ c = col THEN x ELSE data[r][c]
  <2> DEFINE new == [data EXCEPT ![row][col] = x]
  <2>1. /\ new \in Buffers
        /\ \A r \in RowSet, c \in ColSet :
             new[r][c] = IF r = row /\ c = col THEN x ELSE data[r][c]
    BY <1>1, <1>7, Replaced
  <2>2. data' = new
    BY <1>2
  <2> HIDE DEF new
  <2> QED BY <2>1, <2>2
<1>9. \A r \in RowSet, c \in ColSet : Residual(r, c)' = Residual(r, c)
  BY <1>2 DEF Residual, Prediction
<1>10. \A r \in RowSet, c \in ColSet :
         data'[r][c] = IF Earlier(row, col, r, c) \/ (r = row /\ c = col)
                       THEN Residual(r, c) ELSE pixels[r][c]
  BY <1>1, <1>2, <1>6, <1>8 DEF PredictInv, EncodeInv
<1>11. CASE col > 0
  <2>1. row' = row /\ col' = col - 1 /\ pass' = "encode"
    BY <1>11, <1>2 DEF Encode
  <2>2. \A r \in RowSet, c \in ColSet :
          Earlier(row', col', r, c) <=> Earlier(row, col, r, c) \/ (r = row /\ c = col)
    BY <1>1, <1>11, <2>1 DEF Earlier, RowSet, ColSet
  <2>3. EncodeInv'
    BY <1>2, <1>9, <1>10, <2>2 DEF EncodeInv
  <2>4. PredictTypeOK'
    BY <1>1, <1>2, <1>8, <1>11, <2>1, PredictAssumption DEF PredictInv, PredictTypeOK, RowSet, ColSet
  <2> QED BY <2>1, <2>3, <2>4 DEF PredictInv, DecodeInv, DoneInv
<1>12. CASE ~ (col > 0) /\ row > 0
  <2>1. row' = row - 1 /\ col' = Width - 1 /\ pass' = "encode" /\ col = 0
    BY <1>1, <1>12, <1>2 DEF Encode, ColSet
  <2>2. \A r \in RowSet, c \in ColSet :
          Earlier(row', col', r, c) <=> Earlier(row, col, r, c) \/ (r = row /\ c = col)
    BY <1>1, <1>12, <2>1, PredictAssumption DEF Earlier, RowSet, ColSet
  <2>3. EncodeInv'
    BY <1>2, <1>9, <1>10, <2>2 DEF EncodeInv
  <2>4. PredictTypeOK'
    BY <1>1, <1>2, <1>8, <1>12, <2>1, PredictAssumption DEF PredictInv, PredictTypeOK, RowSet, ColSet
  <2> QED BY <2>1, <2>3, <2>4 DEF PredictInv, DecodeInv, DoneInv
<1>13. CASE ~ (col > 0) /\ ~ (row > 0)
  <2>1. row' = 0 /\ col' = 0 /\ pass' = "decode" /\ col = 0 /\ row = 0
    BY <1>1, <1>13, <1>2 DEF Encode, ColSet, RowSet
  <2>2. \A r \in RowSet, c \in ColSet :
          /\ ~ Earlier(r, c, row', col')
          /\ Earlier(row, col, r, c) \/ (r = row /\ c = col)
    BY <1>1, <2>1 DEF Earlier, RowSet, ColSet
  <2>3. DecodeInv'
    BY <1>9, <1>10, <2>2 DEF DecodeInv
  <2>4. PredictTypeOK'
    BY <1>1, <1>2, <1>8, <2>1, PredictAssumption DEF PredictInv, PredictTypeOK, RowSet, ColSet
  <2> QED BY <2>1, <2>3, <2>4 DEF PredictInv, EncodeInv, DoneInv
<1> QED BY <1>1, <1>11, <1>12, <1>13

LEMMA DecodeStep == PredictInv /\ Decode => PredictInv'
<1> SUFFICES ASSUME PredictInv, Decode PROVE PredictInv'
  OBVIOUS
<1> DEFINE x == DecodeSample(data, row, col)
<1>1. /\ data \in Buffers /\ pixels \in Buffers /\ stride \in {1, 2}
      /\ row \in RowSet /\ col \in ColSet /\ row \in Int /\ col \in Int
  BY DEF PredictInv, PredictTypeOK, RowSet, ColSet
<1>2. /\ data' = [data EXCEPT ![row][col] = x]
      /\ pass = "decode" /\ UNCHANGED <<predictor, deep, stride, pixels>>
  BY DEF Decode
<1>3. \A r2 \in RowSet, c2 \in ColSet :
        Earlier(r2, c2, row, col) => data[r2][c2] = pixels[r2][c2]
  BY <1>1, <1>2 DEF PredictInv, DecodeInv
<1>4. Prediction(data, row, col, stride) = Prediction(pixels, row, col, stride)
  BY <1>1, <1>3, PredictionLocal
<1>5. data[row][col] = Residual(row, col)
  BY <1>1, <1>2 DEF PredictInv, DecodeInv, Earlier, RowSet, ColSet
<1>6. x = pixels[row][col]
  <2>1. Prediction(pixels, row, col, stride) \in Samples /\ pixels[row][col] \in Samples
    BY <1>1, PredictionType, CellType
  <2> QED BY <2>1, <1>4, <1>5, SubAddBack DEF DecodeSample, Residual
<1>7. x \in Samples
  BY <1>1, <1>6, CellType
<1> HIDE DEF x
<1>8. /\ data' \in Buffers
      /\ \A r \in RowSet, c \in ColSet :
           data'[r][c] = IF r = row /\ c = col THEN x ELSE data[r][c]
  <2> DEFINE new == [data EXCEPT ![row][col] = x]
  <2>1. /\ new \in Buffers
        /\ \A r \in RowSet, c \in ColSet :
             new[r][c] = IF r = row /\ c = col THEN x ELSE data[r][c]
    BY <1>1, <1>7, Replaced
  <2>2. data' = new
    BY <1>2
  <2> HIDE DEF new
  <2> QED BY <2>1, <2>2
<1>9. \A r \in RowSet, c \in ColSet : Residual(r, c)' = Residual(r, c)
  BY <1>2 DEF Residual, Prediction
<1>10. \A r \in RowSet, c \in ColSet :
         data'[r][c] = IF Earlier(r, c, row, col) \/ (r = row /\ c = col)
                       THEN pixels[r][c] ELSE Residual(r, c)
  BY <1>1, <1>2, <1>6, <1>8 DEF PredictInv, DecodeInv
<1>11. CASE col < Width - 1
  <2>1. row' = row /\ col' = col + 1 /\ pass' = "decode"
    BY <1>11, <1>2 DEF Decode
  <2>2. \A r \in RowSet, c \in ColSet :
          Earlier(r, c, row', col') <=> Earlier(r, c, row, col) \/ (r = row /\ c = col)
    BY <1>1, <1>11, <2>1 DEF Earlier, RowSet, ColSet
  <2>3. DecodeInv'
    BY <1>2, <1>9, <1>10, <2>2 DEF DecodeInv
  <2>4. PredictTypeOK'
    BY <1>1, <1>2, <1>8, <1>11, <2>1, PredictAssumption DEF PredictInv, PredictTypeOK, RowSet, ColSet
  <2> QED BY <2>1, <2>3, <2>4 DEF PredictInv, EncodeInv, DoneInv
<1>12. CASE ~ (col < Width - 1) /\ row < Rows - 1
  <2>1. row' = row + 1 /\ col' = 0 /\ pass' = "decode" /\ col = Width - 1
    BY <1>1, <1>12, <1>2, PredictAssumption DEF Decode, ColSet
  <2>2. \A r \in RowSet, c \in ColSet :
          Earlier(r, c, row', col') <=> Earlier(r, c, row, col) \/ (r = row /\ c = col)
    BY <1>1, <1>12, <2>1, PredictAssumption DEF Earlier, RowSet, ColSet
  <2>3. DecodeInv'
    BY <1>2, <1>9, <1>10, <2>2 DEF DecodeInv
  <2>4. PredictTypeOK'
    BY <1>1, <1>2, <1>8, <1>12, <2>1, PredictAssumption DEF PredictInv, PredictTypeOK, RowSet, ColSet
  <2> QED BY <2>1, <2>3, <2>4 DEF PredictInv, EncodeInv, DoneInv
<1>13. CASE ~ (col < Width - 1) /\ ~ (row < Rows - 1)
  <2>1. pass' = "done" /\ row' = row /\ col' = col /\ col = Width - 1 /\ row = Rows - 1
    BY <1>1, <1>13, <1>2, PredictAssumption DEF Decode, ColSet, RowSet
  <2>2. \A r \in RowSet, c \in ColSet : Earlier(r, c, row, col) \/ (r = row /\ c = col)
    BY <1>1, <2>1, PredictAssumption DEF Earlier, RowSet, ColSet
  <2>3. DoneInv'
    BY <1>2, <1>10, <2>2 DEF DoneInv
  <2>4. PredictTypeOK'
    BY <1>1, <1>2, <1>8, <2>1, PredictAssumption DEF PredictInv, PredictTypeOK, RowSet, ColSet
  <2> QED BY <2>1, <2>3, <2>4 DEF PredictInv, EncodeInv, DecodeInv
<1> QED BY <1>1, <1>11, <1>12, <1>13

LEMMA PredictStep == PredictInv /\ [PredictNext]_predictVars => PredictInv'
<1>1. PredictInv /\ UNCHANGED predictVars => PredictInv'
  BY DEF predictVars, PredictInv, PredictTypeOK, EncodeInv, DecodeInv, DoneInv, Residual, Prediction, Earlier
<1> QED BY <1>1, EncodeStep, DecodeStep DEF PredictNext

(* In the encoder visited samples are residuals of the original pixels, in   *)
(* the decoder visited ones are pixels and the rest those residuals.         *)
LEMMA PredictInvCorrect == PredictSpec => []PredictInv
  BY PredictInitInv, PredictStep, PTL DEF PredictSpec

(* Every sample stays in its range, and the two passes stay in the slice. *)
THEOREM PredictTypeCorrect == PredictSpec => []PredictTypeOK
<1>1. PredictInv => PredictTypeOK
  BY DEF PredictInv
<1> QED BY <1>1, PredictInvCorrect, PTL

(* The passes are lossless. *)
THEOREM Lossless == PredictSpec => []Restored
<1>1. PredictInv => Restored
  <2> SUFFICES ASSUME PredictInv PROVE Restored
    OBVIOUS
  <2>1. pass = "decode" =>
          \A r \in 0 .. Rows - 1, c \in 0 .. Width - 1 : Passed(r, c) => data[r][c] = pixels[r][c]
    BY DEF PredictInv, DecodeInv, Passed, Earlier, RowSet, ColSet
  <2>2. ASSUME pass = "done" PROVE data = pixels
    <3>1. \A r \in RowSet, c \in ColSet : data[r][c] = pixels[r][c]
      BY <2>2 DEF PredictInv, DoneInv
    <3>2. data \in Buffers /\ pixels \in Buffers
      BY DEF PredictInv, PredictTypeOK
    <3>3. ASSUME NEW r \in RowSet PROVE data[r] = pixels[r]
      <4>1. data[r] \in [ColSet -> Samples] /\ pixels[r] \in [ColSet -> Samples]
        BY <3>2, <3>3 DEF Buffers, RowSet, ColSet
      <4>2. \A c \in ColSet : data[r][c] = pixels[r][c]
        BY <3>1, <3>3
      <4> HIDE DEF ColSet
      <4> QED BY <4>1, <4>2
    <3>4. data \in [RowSet -> [ColSet -> Samples]] /\ pixels \in [RowSet -> [ColSet -> Samples]]
      BY <3>2 DEF Buffers, RowSet, ColSet
    <3> HIDE DEF RowSet
    <3> QED BY <3>3, <3>4
  <2> QED BY <2>1, <2>2 DEF Restored
<1> QED BY <1>1, PredictInvCorrect, PTL
==============================================================================
