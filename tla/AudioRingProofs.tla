--------------------------- MODULE AudioRingProofs ---------------------------
(***************************************************************************)
(* AudioRing for rings, frames, watchdogs and splices of any length.  Two     *)
(* safety properties of the writer's side, which do not need to know where a  *)
(* byte lies in the ring; and, from an invariant that says where every byte   *)
(* lies (Framing), that the reader reads its frame and that the ring with its *)
(* dispatcher implements AudioQueue.                                         *)
(***************************************************************************)
EXTENDS AudioRing, TLAPS

WriterTypes ==
  /\ fill \in Int /\ curLen \in Nat /\ dropCnt \in 0 .. SpliceLen /\ flight \in 0 .. InFlight
  /\ src = << src[1], src[2] >> /\ src[1] \in Nat /\ src[2] \in Nat
  /\ wd \in 0 .. BpWd /\ quiet \in 0 .. BpWd
  /\ open => cur = src[1] /\ src[1] > 0

LEMMA Sizes ==
  /\ ByteDepth \in Nat \ {0} /\ ByteRoom \in 0 .. ByteDepth
  /\ SpliceLen \in Nat \ {0} /\ InFlight \in Nat /\ BpWd \in Nat \ {0}
  BY RingAssumption

LEMMA InitWriter == Init => WriterTypes
<1> SUFFICES ASSUME Init PROVE WriterTypes
  OBVIOUS
<1>1. src = << 0, 0 >> /\ src[1] = 0 /\ src[2] = 0
  BY DEF Init, NoByte
<1>2. fill = 0 /\ curLen = 0 /\ dropCnt = 0 /\ open = FALSE /\ flight = 0 /\ wd = 0 /\ quiet = BpWd
  BY DEF Init, RingEmpty
<1> QED BY <1>1, <1>2, RingAssumption DEF WriterTypes

(* What the source does to its history.                                      *)
LEMMA SourceStep ==
  ASSUME WriterTypes, NEW in \in Inputs, Source(in)
  PROVE  /\ in.byte = "none" => src'[1] = src[1] /\ src'[2] = src[2]
         /\ Starts(in) => src'[1] = src[1] + 1 /\ src'[2] = 1 /\ src[2] # 1
         /\ in.byte = "next" => src'[1] = src[1] /\ src'[2] = src[2] + 1
         /\ src' = << src'[1], src'[2] >> /\ src'[1] \in Nat /\ src'[2] \in Nat
<1>1. in.byte \in {"none", "start", "next"}
  BY DEF Inputs
<1>2. CASE in.byte = "none"
  <2>1. src' = src
    BY <1>2 DEF Source
  <2> QED BY <1>2, <2>1 DEF WriterTypes, Starts
<1>3. CASE in.byte = "start"
  <2>1. src' = << src[1] + 1, 1 >> /\ src[2] # 1
    BY <1>3 DEF Source
  <2>2. src'[1] = src[1] + 1 /\ src'[2] = 1
    BY <2>1
  <2> QED BY <1>3, <2>1, <2>2 DEF WriterTypes
<1>4. CASE in.byte = "next"
  <2>1. src' = << src[1], src[2] + 1 >>
    BY <1>4 DEF Source
  <2>2. src'[1] = src[1] /\ src'[2] = src[2] + 1
    BY <2>1
  <2> QED BY <1>4, <2>1, <2>2 DEF WriterTypes, Starts
<1> QED BY <1>1, <1>2, <1>3, <1>4

(* The ring gains at most the byte that comes, and a byte that comes has been *)
(* on its way.                                                               *)
LEMMA FillStep ==
  ASSUME WriterTypes, NEW in \in Inputs, Source(in), Bytes(in)
  PROVE  /\ fill' \in Int /\ FillT(in) \in Int /\ FillT(in) <= fill
         /\ in.byte = "none" => fill' <= fill /\ flight' = flight + B(in.sends)
         /\ in.byte # "none" => fill' <= fill + 1 /\ flight' = flight + B(in.sends) - 1
         /\ B(in.sends) \in {0, 1}
<1>1. FillT(in) \in Int /\ FillT(in) <= fill
  <2>1. B(Consume(in)) \in {0, 1}
    BY DEF B
  <2>2. (IF Drop(in) THEN curLen ELSE 0) \in Nat
    BY DEF WriterTypes
  <2> QED BY <2>1, <2>2 DEF FillT, WriterTypes
<1>2. fill' = FillT(in) + B(Stores(in)) /\ B(Stores(in)) \in {0, 1}
  BY DEF Bytes, B
<1>3. in.byte = "none" => B(Stores(in)) = 0
  BY DEF Stores, Starts, B
<1>4. flight' = flight + B(in.sends) - B(in.byte # "none")
  BY DEF Source
<1>5. B(in.sends) \in {0, 1}
  BY DEF B
<1>6. CASE in.byte = "none"
  <2>1. B(in.byte # "none") = 0
    BY <1>6 DEF B
  <2> QED BY <1>1, <1>2, <1>3, <1>4, <1>5, <1>6, <2>1 DEF WriterTypes
<1>7. CASE in.byte # "none"
  <2>1. B(in.byte # "none") = 1
    BY <1>7 DEF B
  <2> QED BY <1>1, <1>2, <1>4, <1>5, <1>7, <2>1 DEF WriterTypes
<1> QED BY <1>6, <1>7

LEMMA WriterStep ==
  ASSUME WriterTypes, NEW in \in Inputs, Clock(in)
  PROVE  WriterTypes'
<1> USE DEF Clock
<1>1. fill' \in Int
  BY FillStep
<1>2. curLen' \in Nat
  <2>1. B(Stores(in)) \in {0, 1}
    BY DEF B
  <2>2. curLen' = B(Stores(in)) \/ curLen' = curLen + B(Stores(in))
    BY DEF FrameInWork
  <2> QED BY <2>1, <2>2 DEF WriterTypes
<1>3. dropCnt' \in 0 .. SpliceLen
  <2>1. SpliceLen \in Nat
    BY RingAssumption
  <2>2. dropCnt' \in {SpliceLen, dropCnt} \/ (dropCnt # 0 /\ dropCnt' = dropCnt - 1)
    BY DEF FrameInWork
  <2> QED BY <2>1, <2>2 DEF WriterTypes
<1>4. flight' \in 0 .. InFlight
  BY DEF Source
<1>5. src' = << src'[1], src'[2] >> /\ src'[1] \in Nat /\ src'[2] \in Nat
  BY SourceStep
<1>6. wd' \in 0 .. BpWd
  BY RingAssumption DEF Watchdog, Armed, WriterTypes
<1>7. quiet' \in 0 .. BpWd
  BY RingAssumption DEF History, WriterTypes
<1>8. open' => cur' = src'[1] /\ src'[1] > 0
  <2>1. CASE Starts(in)
    BY <2>1, SourceStep DEF FrameInWork, WriterTypes
  <2>2. CASE ~Starts(in)
    <3>1. src'[1] = src[1]
      BY <2>2, SourceStep DEF Inputs, Starts
    <3> QED BY <2>2, <3>1 DEF FrameInWork, WriterTypes
  <2> QED BY <2>1, <2>2
<1> QED BY <1>1, <1>2, <1>3, <1>4, <1>5, <1>6, <1>7, <1>8 DEF WriterTypes

LEMMA WriterReset == WriterTypes /\ AudioReset => WriterTypes'
  BY RingAssumption DEF WriterTypes, AudioReset, emu

(***************************************************************************)
(* Loss.  While somebody reads, the watchdog has not run out and the demux    *)
(* is stopped at the headroom; what is on its way by then fits into it.       *)
(***************************************************************************)
Covered == wd + quiet >= BpWd
DropUnattended == open /\ dropping /\ cur \notin garbage => unattended
RoomLeft == ~unattended => fill + flight <= ByteDepth - ByteRoom + InFlight
(* The byte that comes next may finish a frame, and then every second one.    *)
MayEnd == B(open /\ src[2] # 1)
DescsLeft == ~unattended => 2 * Total + flight + MayEnd <= 2 * (FrameDepth - FrameRoom) + InFlight
SplicedAhead == dropCnt > 0 => \A f \in src[1] .. src[1] + dropCnt : f # 0 => f \in garbage

LossInv == WriterTypes /\ qCnt \in Nat /\ Covered /\ RoomLeft /\ DescsLeft /\ SplicedAhead /\ DropUnattended

LEMMA LossInit == Init => LossInv
<1> SUFFICES ASSUME Init PROVE LossInv
  OBVIOUS
<1>1. Covered
  BY RingAssumption DEF Init, Covered
<1>2. RoomLeft /\ DescsLeft /\ SplicedAhead /\ DropUnattended /\ qCnt \in Nat
  BY DEF Init, RingEmpty, RoomLeft, DescsLeft, SplicedAhead, DropUnattended
<1> QED BY <1>1, <1>2, InitWriter DEF LossInv

(* The demux sends into a ring above its headroom only when nobody reads.     *)
LEMMA SendsBelow ==
  ASSUME WriterTypes, Covered, NEW in \in Inputs, Source(in), History(in),
         ~(Starts(in) /\ ~AlmostFull), ~unattended'
  PROVE  ~unattended /\ (in.sends => ~AlmostFull)
<1>1. ~unattended /\ quiet # BpWd /\ ~session
  BY DEF History
<1>2. Armed
  BY <1>1, RingAssumption DEF Armed, Covered, WriterTypes
<1> QED BY <1>1, <1>2 DEF Source, PsAudReady

LEMMA Below ==
  ASSUME fill \in Int, ~AlmostFull
  PROVE  fill <= ByteDepth - ByteRoom - 1
  BY RingAssumption DEF AlmostFull

(* Arithmetic on constants, for the prover does none on primed sums.          *)
LEMMA Transitive ==
  ASSUME NEW x \in Int, NEW y \in Int, NEW z \in Int, x <= y, y <= z
  PROVE  x <= z
  OBVIOUS

LEMMA Sum ==
  ASSUME NEW x \in Int, NEW y \in Int, NEW d \in Int, NEW i \in Int, x <= d, y <= i
  PROVE  x + y <= d + i
  OBVIOUS

LEMMA Shift ==
  ASSUME NEW x \in Int, NEW y \in Int, NEW x1 \in Int, NEW y1 \in Int,
         (x1 <= x /\ y1 = y) \/ (x1 <= x + 1 /\ y1 = y - 1)
  PROVE  x1 + y1 <= x + y
  OBVIOUS

LEMMA RoomStep ==
  ASSUME LossInv, NEW in \in Inputs, Clock(in)
  PROVE  RoomLeft'
<1> SUFFICES ASSUME ~unattended'
             PROVE  fill' + flight' <= ByteDepth - ByteRoom + InFlight
  BY DEF RoomLeft
<1>1. /\ fill \in Int /\ fill' \in Int /\ fill' <= fill + 1
      /\ flight \in Int /\ flight' \in Int /\ flight' <= InFlight
      /\ ByteDepth \in Int /\ ByteRoom \in Int /\ InFlight \in Int
      /\ ByteDepth - ByteRoom + InFlight \in Int
  <2>1. fill' \in Int /\ fill' <= fill + 1
    <3>1. fill' \in Int /\ (fill' <= fill \/ fill' <= fill + 1)
      BY FillStep DEF LossInv, Clock
    <3> QED BY <3>1 DEF LossInv, WriterTypes
  <2>2. flight' \in 0 .. InFlight /\ flight \in 0 .. InFlight
    BY DEF LossInv, WriterTypes, Clock, Source
  <2> QED BY <2>1, <2>2, Sizes DEF LossInv, WriterTypes
<1>2. CASE ~AlmostFull /\ (Starts(in) \/ in.sends)
  <2>1. fill <= ByteDepth - ByteRoom - 1
    BY <1>1, <1>2, Below
  <2>2. fill' <= ByteDepth - ByteRoom /\ ByteDepth - ByteRoom \in Int
    BY <1>1, <2>1
  <2> QED BY <1>1, <2>2, Sum, Zenon
<1>3. CASE ~(~AlmostFull /\ (Starts(in) \/ in.sends))
  <2>1. ~unattended /\ ~in.sends
    BY <1>3, SendsBelow DEF LossInv, Clock
  <2>2. B(in.sends) = 0
    BY <2>1 DEF B
  <2>3. fill + flight <= ByteDepth - ByteRoom + InFlight
    BY <2>1 DEF LossInv, RoomLeft
  <2>4. \/ fill' <= fill /\ flight' = flight
        \/ fill' <= fill + 1 /\ flight' = flight - 1
    <3>1. \/ fill' <= fill /\ flight' = flight + B(in.sends)
          \/ fill' <= fill + 1 /\ flight' = flight + B(in.sends) - 1
      BY FillStep DEF Clock, LossInv
    <3> QED BY <1>1, <2>2, <3>1
  <2>5. fill' + flight' <= fill + flight
    BY <1>1, <2>4, Shift, Zenon
  <2>6. fill + flight \in Int /\ fill' + flight' \in Int
    BY <1>1
  <2> QED BY <1>1, <2>3, <2>5, <2>6, Transitive, Zenon
<1> QED BY <1>2, <1>3

(* A byte finds no room for two reasons.                                      *)
LEMMA NoRoom ==
  ASSUME LossInv, NEW in \in Inputs, Clock(in), in.byte # "none", ~HasSpace(in), ~unattended',
         ~(Starts(in) /\ ~AlmostFull /\ dropCnt = 0)
  PROVE  dropCnt > 0
<1> SUFFICES ASSUME dropCnt = 0 PROVE FALSE
  BY DEF LossInv, WriterTypes
<1>1. fill >= ByteDepth /\ fill \in Int
  BY FillStep, RingAssumption DEF HasSpace, Clock, LossInv, WriterTypes
<1>2. AlmostFull
  BY <1>1, RingAssumption DEF AlmostFull
<1>3. ~unattended /\ ~in.sends
  BY <1>2, SendsBelow DEF LossInv, Clock
<1>4. flight' = flight - 1 /\ flight' >= 0
  <2>1. B(in.sends) = 0
    BY <1>3 DEF B
  <2>2. flight' = flight + B(in.sends) - 1
    BY FillStep DEF Clock, LossInv
  <2> QED BY <2>1, <2>2, Sizes DEF Clock, LossInv, Source, WriterTypes
<1>5. fill + flight <= ByteDepth - ByteRoom + InFlight
  BY <1>3 DEF LossInv, RoomLeft
<1> QED BY <1>1, <1>4, <1>5, RingAssumption, HeadroomAssumption DEF LossInv, WriterTypes

LEMMA SplicedStep ==
  ASSUME LossInv, NEW in \in Inputs, Clock(in)
  PROVE  SplicedAhead'
<1> SUFFICES ASSUME dropCnt' > 0, NEW f \in src'[1] .. src'[1] + dropCnt', f # 0
             PROVE  f \in garbage'
  BY DEF SplicedAhead
<1>1. CASE in.splice
  BY <1>1 DEF Clock, History, FrameInWork
<1>2. CASE ~in.splice
  <2>1. garbage' = garbage
    BY <1>2 DEF Clock, History
  <2>2. CASE Starts(in)
    BY <1>2, <2>1, <2>2, SourceStep DEF Clock, FrameInWork, LossInv, SplicedAhead, WriterTypes
  <2>3. CASE ~Starts(in)
    <3>1. src'[1] = src[1]
      BY <2>3, SourceStep DEF Inputs, Starts, Clock, LossInv
    <3>2. dropCnt' = dropCnt
      BY <1>2, <2>3 DEF Clock, FrameInWork
    <3> QED BY <2>1, <3>1, <3>2 DEF LossInv, SplicedAhead
  <2> QED BY <2>2, <2>3
<1> QED BY <1>1, <1>2

(* The descriptors waiting, the head register with them: a commit adds one.   *)
LEMMA QueueStep ==
  ASSUME qCnt \in Nat, NEW in \in Inputs, Clock(in)
  PROVE  /\ qCnt' \in Nat /\ Total \in Nat /\ Total' \in Nat /\ qCnt <= Total
         /\ Total' <= Total + B(Commit(in)) /\ B(Commit(in)) \in {0, 1}
<1>1. B(Commit(in)) \in {0, 1} /\ B(HeadV) \in {0, 1} /\ B(HeadV') \in {0, 1}
  BY DEF B
<1>2. qCnt' = qCnt + B(Commit(in)) - B(Issue)
  BY DEF Clock, Descriptors
<1>3. Total = qCnt + B(HeadV) /\ Total' = qCnt' + B(HeadV')
  BY DEF Total, B
<1>4. CASE Issue
  <2>1. B(Issue) = 1 /\ qCnt # 0
    BY <1>4 DEF B, Issue
  <2> QED BY <1>1, <1>2, <1>3, <2>1
<1>5. CASE ~Issue
  <2>1. B(Issue) = 0
    BY <1>5 DEF B
  <2>2. head' = NoDesc \/ head' = head
    BY <1>5 DEF Clock, Descriptors
  <2>3. B(HeadV') <= B(HeadV)
    BY <2>2 DEF B, HeadV
  <2> QED BY <1>1, <1>2, <1>3, <2>1, <2>3
<1> QED BY <1>4, <1>5

LEMMA DescsLeftStep ==
  ASSUME LossInv, NEW in \in Inputs, Clock(in)
  PROVE  DescsLeft'
<1> USE DEF Clock
<1> DEFINE most == 2 * (FrameDepth - FrameRoom) + InFlight
<1> SUFFICES ASSUME ~unattended'
             PROVE  2 * Total' + flight' + MayEnd' <= most
  BY DEF DescsLeft, Total, MayEnd
<1>1. /\ Total \in Nat /\ Total' \in Nat /\ Total' <= Total + B(Commit(in))
      /\ B(Commit(in)) \in {0, 1} /\ (~Starts(in) => B(Commit(in)) = 0)
  <2>1. ~Starts(in) => B(Commit(in)) = 0
    BY DEF Commit, Fin, B
  <2> QED BY <2>1, QueueStep DEF LossInv
<1>2. /\ flight \in Nat /\ flight' \in Nat /\ flight' <= InFlight
      /\ MayEnd \in {0, 1} /\ MayEnd' \in {0, 1}
      /\ FrameDepth - FrameRoom \in Int /\ InFlight \in Int /\ most \in Int
  <2>1. flight' \in 0 .. InFlight /\ flight \in 0 .. InFlight
    BY DEF LossInv, WriterTypes, Source
  <2>2. MayEnd \in {0, 1} /\ MayEnd' \in {0, 1}
    BY DEF MayEnd, B
  <2> QED BY <2>1, <2>2, RingAssumption
<1>3. Starts(in) => MayEnd' = 0
  BY SourceStep DEF LossInv, MayEnd, B
<1>4. CASE ~AlmostFull /\ (Starts(in) \/ in.sends)
  <2>1. Total <= FrameDepth - FrameRoom - 1
    BY <1>1, <1>4, RingAssumption DEF AlmostFull
  <2>2. \/ Total' <= FrameDepth - FrameRoom /\ MayEnd' = 0
        \/ Total' <= FrameDepth - FrameRoom - 1 /\ MayEnd' <= 1
    BY <1>1, <1>2, <1>3, <2>1
  <2> QED BY <1>1, <1>2, <2>2
<1>5. CASE ~(~AlmostFull /\ (Starts(in) \/ in.sends))
  <2>1. ~unattended /\ ~in.sends
    BY <1>5, SendsBelow DEF LossInv
  <2>2. B(in.sends) = 0
    BY <2>1 DEF B
  <2>3. 2 * Total + flight + MayEnd <= most
    BY <2>1 DEF LossInv, DescsLeft
  <2>4. \/ Total' <= Total /\ flight' = flight /\ MayEnd' = MayEnd
        \/ Total' <= Total /\ flight' = flight - 1 /\ MayEnd' <= MayEnd + 1
        \/ Total' <= Total + 1 /\ flight' = flight - 1 /\ MayEnd = 1 /\ MayEnd' = 0
    <3>1. CASE in.byte = "none"
      <4>0. ~Starts(in)
        BY <3>1 DEF Starts
      <4>1. src' = src /\ (open' <=> open)
        BY <3>1, <4>0 DEF Source, FrameInWork
      <4>2. flight' = flight
        BY <2>2, <3>1, FillStep DEF LossInv, WriterTypes
      <4>3. MayEnd' = MayEnd
        BY <4>1 DEF MayEnd, B
      <4> QED BY <1>1, <4>0, <4>2, <4>3
    <3>2. CASE in.byte = "next"
      <4>1. ~Starts(in)
        BY <3>2 DEF Starts
      <4>2. flight' = flight - 1
        BY <2>2, <3>2, FillStep DEF LossInv, WriterTypes
      <4> QED BY <1>1, <1>2, <4>1, <4>2
    <3>3. CASE Starts(in)
      <4>1. flight' = flight - 1
        <5>1. in.byte # "none"
          BY <3>3 DEF Starts
        <5> QED BY <2>2, <5>1, FillStep DEF LossInv, WriterTypes
      <4>2. CASE Commit(in)
        <5>1. open /\ src[2] # 1
          BY <3>3, <4>2, SourceStep DEF LossInv, Commit, Fin
        <5>2. MayEnd = 1
          BY <5>1 DEF MayEnd, B
        <5> QED BY <1>1, <1>3, <3>3, <4>1, <5>2
      <4>3. CASE ~Commit(in)
        <5>1. B(Commit(in)) = 0
          BY <4>3 DEF B
        <5> QED BY <1>1, <1>2, <4>1, <5>1
      <4> QED BY <4>2, <4>3
    <3>4. in.byte \in {"none", "start", "next"}
      BY DEF Inputs
    <3> QED BY <3>1, <3>2, <3>3, <3>4 DEF Starts
  <2> QED BY <1>1, <1>2, <2>3, <2>4
<1> QED BY <1>4, <1>5

LEMMA LossStep ==
  ASSUME LossInv, NEW in \in Inputs, Clock(in)
  PROVE  DropUnattended'
<1> SUFFICES ASSUME open', dropping', cur' \notin garbage', ~unattended'
             PROVE  FALSE
  BY DEF DropUnattended
<1> USE DEF Clock
<1>1. cur' = src'[1] /\ src'[1] > 0 /\ src'[1] \in Nat
  BY WriterStep DEF LossInv, WriterTypes
<1>2. ~in.splice
  <2>1. in.splice => src'[1] \in garbage'
    BY <1>1, RingAssumption DEF History
  <2> QED BY <1>1, <2>1
<1>3. garbage' = garbage
  BY <1>2 DEF History
<1>4. CASE Starts(in)
  <2>1. ~HasSpace(in)
    BY <1>2, <1>4 DEF FrameInWork, Stores
  <2>2. dropCnt = 0 => AlmostFull
    <3>1. dropCnt = 0 => fill >= ByteDepth /\ fill \in Int
      BY <2>1, FillStep, RingAssumption DEF HasSpace, LossInv, WriterTypes
    <3> QED BY <3>1, RingAssumption DEF AlmostFull
  <2>3. dropCnt > 0
    BY <1>4, <2>1, <2>2, NoRoom DEF Starts
  <2>4. src[1] + 1 \in garbage
    BY <2>3 DEF LossInv, SplicedAhead, WriterTypes
  <2> QED BY <1>1, <1>3, <1>4, <2>4, SourceStep DEF LossInv
<1>5. CASE ~Starts(in)
  <2>1. src'[1] = src[1] /\ open
    BY <1>5, SourceStep DEF Inputs, Starts, LossInv, FrameInWork
  <2>2. cur = src[1] /\ src[1] > 0 /\ src[1] \notin garbage
    BY <1>1, <1>3, <2>1 DEF LossInv, WriterTypes
  <2>3. ~unattended
    BY <1>5 DEF History
  <2>4. ~dropping
    BY <2>1, <2>2, <2>3 DEF LossInv, DropUnattended
  <2>5. in.byte = "next" /\ ~HasSpace(in)
    BY <1>2, <1>5, <2>1, <2>4 DEF FrameInWork, Stores
  <2>6. dropCnt > 0
    BY <1>5, <2>5, NoRoom
  <2> QED BY <2>2, <2>6 DEF LossInv, SplicedAhead, WriterTypes
<1> QED BY <1>4, <1>5

LEMMA LossInductive == LossInv /\ [Next]_vars => LossInv'
<1> SUFFICES ASSUME LossInv, [Next]_vars PROVE LossInv'
  OBVIOUS
<1>1. ASSUME NEW in \in Inputs, Clock(in) PROVE LossInv'
  <2>1. Covered'
    BY <1>1, RingAssumption DEF Clock, Watchdog, History, Armed, Covered, LossInv, WriterTypes
  <2>2. qCnt' \in Nat
    BY <1>1, QueueStep DEF LossInv
  <2> QED BY <1>1, <2>1, <2>2, WriterStep, RoomStep, DescsLeftStep, SplicedStep, LossStep DEF LossInv
<1>2. CASE AudioReset
  <2>1. /\ Covered' /\ qCnt' \in Nat
        /\ SplicedAhead' /\ DropUnattended'
    BY <1>2 DEF AudioReset, RingEmpty, emu, LossInv, Covered, SplicedAhead, DropUnattended
  <2>3. DescsLeft'
    <3>1. Total' = 0 /\ MayEnd' = 0 /\ flight' = flight
      BY <1>2 DEF AudioReset, Total, HeadV, MayEnd, B
    <3>2. flight \in 0 .. InFlight /\ FrameDepth - FrameRoom >= 0 /\ FrameDepth - FrameRoom \in Int
      BY RingAssumption DEF LossInv, WriterTypes
    <3>3. 2 * Total' + flight' + MayEnd' = flight
      BY <3>1, <3>2
    <3> QED BY <3>2, <3>3, Sizes DEF DescsLeft
  <2>2. RoomLeft'
    <3>1. fill' = 0 /\ flight' = flight
      BY <1>2 DEF AudioReset
    <3> QED BY <3>1, Sizes DEF RoomLeft, LossInv, WriterTypes
  <2> QED BY <1>2, <2>1, <2>2, <2>3, WriterReset DEF LossInv
<1>3. CASE UNCHANGED vars
  BY <1>3 DEF vars, bytes, frame, descs, emu, past, LossInv, WriterTypes, Covered, RoomLeft,
              DescsLeft, Total, HeadV, MayEnd, SplicedAhead, DropUnattended
<1> QED BY <1>1, <1>2, <1>3 DEF Next

(* A frame that ends without a descriptor left, and was not cut before.       *)
LEMMA NoDescriptor ==
  ASSUME LossInv, NEW in \in Inputs, Clock(in), Starts(in), open, ~dropping, qCnt = FrameDepth,
         ~unattended, ~unattended'
  PROVE  FALSE
<1> USE DEF Clock
<1>1. Total \in Nat /\ Total >= FrameDepth /\ FrameDepth \in Nat /\ FrameRoom \in Nat /\ InFlight \in Nat
  BY QueueStep, RingAssumption DEF LossInv
<1>2. AlmostFull
  BY <1>1, RingAssumption DEF AlmostFull
<1>3. ~in.sends
  BY <1>2, SendsBelow DEF LossInv
<1>4. flight' = flight - 1 /\ flight' >= 0 /\ flight \in Nat
  <2>1. B(in.sends) = 0
    BY <1>3 DEF B
  <2>2. flight' = flight + B(in.sends) - 1
    BY FillStep DEF LossInv, Starts
  <2> QED BY <2>1, <2>2, Sizes DEF LossInv, Source, WriterTypes
<1>5. MayEnd = 1
  <2>1. src[2] # 1
    BY SourceStep DEF LossInv
  <2> QED BY <2>1 DEF MayEnd, B
<1>6. 2 * Total + flight + 1 <= 2 * (FrameDepth - FrameRoom) + InFlight
  BY <1>5 DEF LossInv, DescsLeft
<1> QED BY <1>1, <1>4, <1>6, HeadroomAssumption

(* What a start does that drops a frame, whatever else falls into its cycle.  *)
LEMMA DropStep ==
  ASSUME LossInv, Next, src'[1] # src[1], Drop(AStart), cur \notin garbage
  PROVE  unattended \/ unattended'
<1>1. PICK in \in Inputs : Clock(in)
  BY DEF Next, AudioReset
<1>2. Starts(in)
  BY <1>1, SourceStep DEF LossInv, Clock, Inputs, Starts
<1>3. open /\ ~Commit(AStart) /\ (dropping \/ curLen # 0) /\ Fin(AStart)
  BY DEF Drop, Fin
<1>4. CASE dropping
  BY <1>3, <1>4 DEF LossInv, DropUnattended
<1>5. CASE ~dropping
  <2>1. qCnt = FrameDepth
    BY <1>3, <1>5 DEF Commit
  <2> QED BY <1>1, <1>2, <1>3, <1>5, <2>1, NoDescriptor
<1> QED BY <1>4, <1>5

(* A frame that no splice asked for is dropped, in the middle of it or at its *)
(* end, only when nobody had been reading for a whole watchdog period, or in  *)
(* a frame-step session.                                                     *)
THEOREM LossWhenUnattended == Spec => LossOnlyUnattended
<1>1. LossInv /\ [Next]_vars
      => [src'[1] # src[1] /\ Drop(AStart) /\ cur \notin garbage
          => unattended \/ unattended']_vars
  BY DropStep
<1> QED BY <1>1, LossInit, LossInductive, PTL DEF Spec, LossOnlyUnattended

(***************************************************************************)
(* Splices.  A descriptor names a frame from before the source's present one, *)
(* a splice only the present one and those that follow, and none of these is *)
(* committed: the present one is dropped, or has one byte and is dropped at  *)
(* its second, and those that follow are counted off.                        *)
(***************************************************************************)
Clean(f) == f \notin garbage /\ f \in Nat /\ (f = 0 \/ f < src[1])

Descs ==
  /\ dmem \in [0 .. FrameDepth - 1 -> [frame : Nat, len : Nat]]
  /\ dWr \in 0 .. FrameDepth - 1 /\ dRd \in 0 .. FrameDepth - 1
CleanDescs ==
  /\ Clean(head.frame) /\ Clean(got.frame)
  /\ \A a \in 0 .. FrameDepth - 1 : Clean(dmem[a].frame)
Counted == \A f \in garbage : f \in Nat \ {0} /\ f <= src[1] + dropCnt
CutOff == open /\ cur \in garbage => dropping \/ (src[2] = 1 /\ dropCnt > 0)

SpliceInv == WriterTypes /\ Descs /\ CleanDescs /\ Counted /\ CutOff

LEMMA SpliceInit == Init => SpliceInv
<1> SUFFICES ASSUME Init PROVE SpliceInv
  OBVIOUS
<1> USE DEF Init, RingEmpty
<1>1. Descs
  BY RingAssumption DEF Descs, NoDesc
<1>2. CleanDescs
  BY DEF CleanDescs, Clean, NoDesc
<1>3. Counted /\ CutOff
  BY DEF Counted, CutOff
<1> QED BY <1>1, <1>2, <1>3, InitWriter DEF SpliceInv

(* Clean, once the clock has ticked.                                          *)
StillClean(f) == f \notin garbage' /\ f \in Nat /\ (f = 0 \/ f < src'[1])

LEMMA Remainder ==
  ASSUME NEW n \in Nat \ {0}, NEW k \in Int
  PROVE  k % n \in 0 .. n - 1
  OBVIOUS

(* What was garbage stays garbage, and a splice makes none of the past.       *)
LEMMA CleanStays ==
  ASSUME SpliceInv, NEW in \in Inputs, Clock(in), NEW f, Clean(f)
  PROVE  StillClean(f)
<1>1. src'[1] >= src[1] /\ src'[1] \in Nat /\ src[1] \in Nat
  BY SourceStep DEF Clock, SpliceInv, WriterTypes, Inputs, Starts
<1>2. f \notin garbage'
  BY <1>1 DEF Clock, History, Clean
<1> QED BY <1>1, <1>2 DEF Clean, StillClean

(* A frame that is committed is no splice's.                                  *)
LEMMA CommitClean ==
  ASSUME SpliceInv, NEW in \in Inputs, Clock(in), Commit(in)
  PROVE  StillClean(cur)
<1>1. Starts(in) /\ open /\ ~dropping
  BY DEF Commit, Fin
<1>2. src[2] # 1 /\ src'[1] = src[1] + 1 /\ cur = src[1] /\ src[1] \in Nat
  BY <1>1, SourceStep DEF Clock, SpliceInv, WriterTypes
<1>3. cur \notin garbage
  BY <1>1, <1>2 DEF SpliceInv, CutOff
<1>4. cur \notin garbage'
  BY <1>2, <1>3 DEF Clock, History
<1> QED BY <1>2, <1>4 DEF StillClean

LEMMA DescsStep ==
  ASSUME SpliceInv, NEW in \in Inputs, Clock(in)
  PROVE  Descs' /\ CleanDescs'
<1> USE DEF Clock
<1>1. dWr' \in 0 .. FrameDepth - 1 /\ dRd' \in 0 .. FrameDepth - 1
  <2>1. B(Commit(in)) \in {0, 1} /\ B(Issue) \in {0, 1} /\ FrameDepth \in Nat \ {0}
    BY RingAssumption DEF B
  <2>2. dWr + B(Commit(in)) \in Int /\ dRd + B(Issue) \in Int
    BY <2>1 DEF SpliceInv, Descs
  <2> QED BY <2>1, <2>2, Remainder DEF Descriptors
<1>2. /\ dmem' \in [0 .. FrameDepth - 1 -> [frame : Nat, len : Nat]]
      /\ \A a \in 0 .. FrameDepth - 1 : StillClean(dmem'[a].frame)
  <2>1. CASE Commit(in)
    <3>1. dmem' = [dmem EXCEPT ![dWr] = [frame |-> cur, len |-> curLen]]
      BY <2>1 DEF Descriptors
    <3>2. cur \in Nat /\ curLen \in Nat /\ StillClean(cur)
      BY <2>1, CommitClean DEF Commit, Fin, SpliceInv, WriterTypes
    <3>3. dmem' \in [0 .. FrameDepth - 1 -> [frame : Nat, len : Nat]]
      BY <3>1, <3>2 DEF SpliceInv, Descs
    <3>4. ASSUME NEW a \in 0 .. FrameDepth - 1 PROVE StillClean(dmem'[a].frame)
      <4>1. CASE a = dWr
        <5>1. dmem'[a] = [frame |-> cur, len |-> curLen]
          BY <3>1, <4>1 DEF SpliceInv, Descs
        <5>2. dmem'[a].frame = cur
          BY <5>1
        <5> QED BY <3>2, <5>2
      <4>2. CASE a # dWr
        <5>1. dmem'[a].frame = dmem[a].frame
          BY <3>1, <4>2 DEF SpliceInv, Descs
        <5>2. Clean(dmem[a].frame)
          BY DEF SpliceInv, CleanDescs
        <5>3. StillClean(dmem[a].frame)
          BY <5>2, CleanStays
        <5> QED BY <5>1, <5>3
      <4> QED BY <4>1, <4>2
    <3> QED BY <3>3, <3>4
  <2>2. CASE ~Commit(in)
    <3>1. dmem' = dmem
      BY <2>2 DEF Descriptors
    <3> QED BY <3>1, CleanStays DEF SpliceInv, Descs, CleanDescs
  <2> QED BY <2>1, <2>2
<1>3. StillClean(head'.frame)
  <2>1. CASE head' = dmem[dRd]
    BY <2>1, CleanStays DEF SpliceInv, Descs, CleanDescs
  <2>2. CASE head' = NoDesc
    <3>1. head'.frame = 0 /\ Clean(0)
      BY <2>2 DEF NoDesc, Clean, SpliceInv, Counted
    <3> QED BY <3>1, CleanStays
  <2>3. CASE head' = head
    BY <2>3, CleanStays DEF SpliceInv, CleanDescs
  <2> QED BY <2>1, <2>2, <2>3 DEF Descriptors
<1>4. StillClean(got'.frame)
  <2>1. got' = head \/ got' = got
    BY DEF Dispatcher, Parked, Latch, Pop, Route, Waits, reader
  <2> QED BY <2>1, CleanStays DEF SpliceInv, CleanDescs
<1>5. Descs'
  BY <1>1, <1>2 DEF Descs
<1> QED BY <1>2, <1>3, <1>4, <1>5 DEF CleanDescs, Clean, StillClean

LEMMA CountedStep ==
  ASSUME SpliceInv, NEW in \in Inputs, Clock(in)
  PROVE  Counted'
<1> SUFFICES ASSUME NEW f \in garbage' PROVE f \in Nat \ {0} /\ f <= src'[1] + dropCnt'
  BY DEF Counted
<1> USE DEF Clock
<1>1. src[1] \in Nat /\ src'[1] \in Nat /\ dropCnt \in Nat /\ SpliceLen \in Nat /\ dropCnt <= SpliceLen
  BY SourceStep, Sizes DEF SpliceInv, WriterTypes
<1>2. src'[1] = src[1] \/ src'[1] = src[1] + 1
  BY SourceStep DEF SpliceInv, Inputs, Starts
<1>3. CASE f \in garbage
  <2>1. f \in Nat \ {0} /\ f <= src[1] + dropCnt
    BY <1>3 DEF SpliceInv, Counted
  <2>2. dropCnt' \in Nat /\ src[1] + dropCnt <= src'[1] + dropCnt'
    <3>1. CASE in.splice
      <4>1. dropCnt' = SpliceLen
        BY <3>1 DEF FrameInWork
      <4> QED BY <1>1, <1>2, <4>1
    <3>2. CASE ~in.splice /\ Starts(in)
      <4>1. src'[1] = src[1] + 1
        BY <3>2, SourceStep DEF SpliceInv
      <4>2. dropCnt' = IF dropCnt # 0 THEN dropCnt - 1 ELSE dropCnt
        BY <3>2 DEF FrameInWork
      <4> QED BY <1>1, <4>1, <4>2
    <3>3. CASE ~in.splice /\ ~Starts(in)
      <4>1. dropCnt' = dropCnt
        BY <3>3 DEF FrameInWork
      <4> QED BY <1>1, <1>2, <4>1
    <3> QED BY <3>1, <3>2, <3>3
  <2>3. f \in Int /\ src[1] + dropCnt \in Int /\ src'[1] + dropCnt' \in Int
    BY <1>1, <2>1, <2>2
  <2> QED BY <2>1, <2>2, <2>3, Transitive, Zenon
<1>4. CASE f \notin garbage
  <2>1. in.splice
    BY <1>4 DEF History
  <2>2. f \in src'[1] .. src'[1] + SpliceLen /\ f # 0
    BY <1>4, <2>1 DEF History
  <2>3. dropCnt' = SpliceLen
    BY <2>1 DEF FrameInWork
  <2> QED BY <1>1, <2>2, <2>3
<1> QED BY <1>3, <1>4

LEMMA CutOffStep ==
  ASSUME SpliceInv, NEW in \in Inputs, Clock(in)
  PROVE  CutOff'
<1> SUFFICES ASSUME open', cur' \in garbage', ~dropping'
             PROVE  src'[2] = 1 /\ dropCnt' > 0
  BY DEF CutOff
<1> USE DEF Clock
<1>1. src[1] \in Nat /\ dropCnt \in Nat /\ dropCnt <= SpliceLen
  BY Sizes DEF SpliceInv, WriterTypes
<1>2. CASE Starts(in)
  <2>1. src'[2] = 1 /\ cur' = src'[1] /\ src'[1] = src[1] + 1
    BY <1>2, SourceStep DEF SpliceInv, FrameInWork
  <2>2. in.splice
    <3> SUFFICES ASSUME ~in.splice PROVE FALSE
      OBVIOUS
    <3>1. src[1] + 1 \in garbage
      BY <2>1 DEF History
    <3>2. dropCnt # 0
      BY <1>1, <3>1 DEF SpliceInv, Counted
    <3>3. ~Stores(in)
      BY <1>2, <3>2 DEF Stores, HasSpace, Starts
    <3> QED BY <1>2, <3>3 DEF FrameInWork
  <2> QED BY <2>1, <2>2, Sizes DEF FrameInWork
<1>3. CASE ~Starts(in)
  <2>1. open /\ cur' = cur /\ ~in.splice /\ ~dropping
    BY <1>3 DEF FrameInWork
  <2>2. cur \in garbage
    BY <2>1 DEF History
  <2>3. src[2] = 1 /\ dropCnt > 0 /\ dropCnt' = dropCnt
    BY <1>3, <2>1, <2>2 DEF SpliceInv, CutOff, FrameInWork
  <2>4. in.byte # "next"
    <3> SUFFICES ASSUME in.byte = "next" PROVE FALSE
      OBVIOUS
    <3>1. ~Stores(in)
      BY <1>1, <1>3, <2>3 DEF Stores, HasSpace
    <3> QED BY <1>3, <2>1, <3>1 DEF FrameInWork
  <2>5. src'[2] = src[2]
    BY <1>3, <2>4, SourceStep DEF SpliceInv, Inputs, Starts
  <2> QED BY <2>3, <2>5
<1> QED BY <1>2, <1>3

LEMMA SpliceInductive == SpliceInv /\ [Next]_vars => SpliceInv'
<1> SUFFICES ASSUME SpliceInv, [Next]_vars PROVE SpliceInv'
  OBVIOUS
<1>1. ASSUME NEW in \in Inputs, Clock(in) PROVE SpliceInv'
  BY <1>1, WriterStep, DescsStep, CountedStep, CutOffStep DEF SpliceInv
<1>2. CASE AudioReset
  <2>1. Descs'
    BY <1>2, RingAssumption DEF AudioReset, Descs, NoDesc
  <2>2. CleanDescs' /\ Counted' /\ CutOff'
    BY <1>2 DEF AudioReset, CleanDescs, Clean, NoDesc, Counted, CutOff
  <2> QED BY <1>2, <2>1, <2>2, WriterReset DEF SpliceInv
<1>3. CASE UNCHANGED vars
  BY <1>3 DEF vars, bytes, frame, descs, reader, emu, past, SpliceInv, WriterTypes, Descs,
              CleanDescs, Clean, Counted, CutOff
<1> QED BY <1>1, <1>2, <1>3 DEF Next

(* No frame of a splice is given to the decoder: not the one it cuts, at      *)
(* whatever byte, nor those in which the demux finds its footing.            *)
THEOREM SpliceStaysUnheard == Spec => []SpliceUnheard
<1>1. SpliceInv => SpliceUnheard
  BY DEF SpliceInv, CleanDescs, Clean, SpliceUnheard
<1> QED BY <1>1, SpliceInit, SpliceInductive, PTL DEF Spec

(***************************************************************************)
(* Framing.  Where a frame lies is not written down anywhere: a descriptor    *)
(* has a length, and the reader counts.  That each frame begins where the one *)
(* before it ends is said with the starting places as a function that exists, *)
(* so that no sum of lengths is needed.                                      *)
(***************************************************************************)
Descriptor == [frame : 1 .. MaxFrames, len : 1 .. MaxLen]

(* The place of the p-th byte from the one the reader reads next.             *)
Pos(p) == (rd + p) % ByteDepth
(* From there lie n bytes of frame f, beginning with its k-th.                *)
Lies(p, f, k, n) == \A i \in 0 .. n - 1 : mem[Pos(p + i)] = << f, k + i >>
Desc(i) == dmem[(dRd + i) % FrameDepth]

Held  == HeadV /\ ~Pops
Ahead == left + (IF Held THEN head.len ELSE 0)

ByteRing ==
  /\ mem \in [0 .. ByteDepth - 1 -> Nat \X Nat]
  /\ rd \in 0 .. ByteDepth - 1 /\ avail \in Nat /\ curLen \in Nat
  /\ fill = avail + curLen /\ fill <= ByteDepth
  /\ wr = Pos(fill) /\ fsw = Pos(avail)

InWork ==
  /\ src[1] <= MaxFrames /\ src[2] <= MaxLen
  /\ ~open => curLen = 0
  /\ open /\ ~dropping => curLen = src[2] /\ Lies(avail, cur, 1, curLen)

DescRing ==
  /\ qCnt \in 0 .. FrameDepth /\ dWr = (dRd + qCnt) % FrameDepth
  /\ \A i \in 0 .. qCnt - 1 : Desc(i) \in Descriptor
  /\ head \in Descriptor \cup {NoDesc}

Taken ==
  /\ ds \in {"IDLE", "POP", "ROUTE"} /\ enable \in BOOLEAN
  /\ got \in Descriptor \cup {NoDesc} /\ left \in 0 .. got.len
  /\ ds = "IDLE" => left = 0
  /\ ds = "POP" => HeadV /\ got = head /\ left = head.len
  /\ ds = "ROUTE" => left > 0
  /\ ~enable => ds = "IDLE"

Begins(st) ==
  /\ st[0] = Ahead /\ st[qCnt] = avail
  /\ \A i, j \in 0 .. qCnt : i <= j => st[i] <= st[j]
  /\ \A i \in 0 .. qCnt - 1 :
       st[i + 1] = st[i] + Desc(i).len /\ Lies(st[i], Desc(i).frame, 1, Desc(i).len)
Laid ==
  /\ Lies(0, got.frame, got.len - left + 1, left)
  /\ Held => Lies(left, head.frame, 1, head.len)
  /\ \E st \in [0 .. qCnt -> 0 .. avail] : Begins(st)

Framing == ByteRing /\ InWork /\ DescRing /\ Taken /\ Laid

(* Counting round a ring: one step at a time, and never onto itself.          *)
LEMMA Around ==
  ASSUME NEW d \in Nat \ {0}, NEW x \in 0 .. d - 1
  PROVE  x % d = x
  OBVIOUS

LEMMA Lap ==
  ASSUME NEW d \in Nat \ {0}, NEW x \in 0 .. d
  PROVE  (x + d) % d = x % d
<1>1. CASE x = d
  BY <1>1
<1>2. CASE x < d
  BY <1>2
<1> QED BY <1>1, <1>2

LEMMA Turn ==
  ASSUME NEW d \in Nat \ {0}, NEW r \in 0 .. d, NEW q \in 0 .. d
  PROVE  ((r % d) + q) % d = (r + q) % d
<1>1. CASE r < d
  <2>1. r % d = r
    BY <1>1, Around
  <2> QED BY <2>1
<1>2. CASE r = d
  <2>1. r % d = 0
    BY <1>2
  <2>2. (q + d) % d = q % d
    BY Lap
  <2> QED BY <1>2, <2>1, <2>2
<1> QED BY <1>1, <1>2

LEMMA Step ==
  ASSUME NEW d \in Nat \ {0}, NEW r \in 0 .. d - 1, NEW q \in 0 .. d
  PROVE  (((r + q) % d) + 1) % d = (r + (q + 1)) % d
<1>1. CASE r + q < d
  <2>1. r + q \in 0 .. d - 1
    BY <1>1
  <2>2. (r + q) % d = r + q
    BY <2>1, Around, Zenon
  <2>3. r + q + 1 = r + (q + 1)
    OBVIOUS
  <2> QED BY <2>2, <2>3
<1>2. CASE r + q >= d
  <2> DEFINE x == r + q - d
  <2>1. x \in 0 .. d - 1 /\ x + 1 \in 0 .. d /\ r + q = x + d /\ r + (q + 1) = x + 1 + d
    BY <1>2
  <2> HIDE DEF x
  <2>2. x \in 0 .. d /\ x % d = x
    BY <2>1, Around
  <2>3. (x + d) % d = x
    BY <2>2, Lap
  <2>4. (x + 1 + d) % d = (x + 1) % d
    BY <2>1, Lap
  <2> QED BY <2>1, <2>3, <2>4
<1> QED BY <1>1, <1>2

LEMMA Apart ==
  ASSUME NEW d \in Nat \ {0}, NEW r \in 0 .. d - 1, NEW p \in Nat, NEW q \in 0 .. d, p < q, q - p < d
  PROVE  (r + p) % d # (r + q) % d
<1> DEFINE x == r + p
           y == r + q
<1>1. x \in Nat /\ y \in Nat /\ x < d + d /\ y < d + d /\ x < y /\ y - x < d
  OBVIOUS
<1> HIDE DEF x, y
<1>2. x % d # y % d
  BY <1>1
<1> QED BY <1>2 DEF x, y

LEMMA FramingInit == Init => Framing
<1> SUFFICES ASSUME Init PROVE Framing
  OBVIOUS
<1> USE DEF Init, RingEmpty
<1>1. ByteRing
  <2>1. (0 + 0) % ByteDepth = 0 /\ 0 \in 0 .. ByteDepth - 1
    BY Sizes
  <2>2. mem \in [0 .. ByteDepth - 1 -> Nat \X Nat]
    BY DEF NoByte
  <2> QED BY <2>1, <2>2, Sizes DEF ByteRing, Pos
<1>2. InWork
  BY RingAssumption DEF InWork, NoByte
<1>3. DescRing
  <2>1. (0 + 0) % FrameDepth = 0
    BY RingAssumption
  <2> QED BY <2>1, RingAssumption DEF DescRing
<1>4. Taken
  BY DEF Taken, NoDesc
<1>5. Laid
  <2>1. ~Held /\ Ahead = 0
    BY DEF Held, HeadV, Ahead
  <2>2. Begins([i \in 0 .. qCnt |-> 0])
    BY <2>1 DEF Begins
  <2>3. [i \in 0 .. qCnt |-> 0] \in [0 .. qCnt -> 0 .. avail]
    OBVIOUS
  <2>4. Lies(0, got.frame, got.len - left + 1, left)
    BY DEF Lies
  <2> QED BY <2>1, <2>2, <2>3, <2>4 DEF Laid
<1> QED BY <1>1, <1>2, <1>3, <1>4, <1>5 DEF Framing

(* A byte that is taken, and what is left once it is and a cut frame is given *)
(* back: what may be read, and behind it what is kept of the frame in work.   *)
Eaten(in) == B(Consume(in))

LEMMA Eating ==
  ASSUME Framing, NEW in \in Inputs, Clock(in)
  PROVE  /\ Eaten(in) \in {0, 1} /\ (Eaten(in) = 1 => Consume(in) /\ avail > 0 /\ left > 0)
         /\ (Eaten(in) = 0 => ~Consume(in))
<1>1. Consume(in) => avail > 0 /\ left > 0
  BY DEF Consume, Framing, ByteRing, Taken
<1> QED BY <1>1 DEF Eaten, B

(* What a cycle does not write stays.                                        *)
LEMMA Kept ==
  ASSUME Framing, NEW in \in Inputs, Clock(in)
  PROVE  /\ FillT(in) \in Nat /\ AvailT(in) \in Nat
         /\ FillT(in) + Eaten(in) <= ByteDepth
         /\ AvailT(in) = avail - Eaten(in) + (IF Commit(in) THEN curLen ELSE 0)
         /\ ~Commit(in) => AvailT(in) = avail - Eaten(in)
         /\ FillT(in) = AvailT(in) + (IF Starts(in) THEN 0 ELSE curLen)
         /\ FillT(in) + Eaten(in) = IF Drop(in) THEN avail ELSE fill
<1> DEFINE c == Eaten(in)
<1>1. c \in {0, 1} /\ c <= avail /\ avail \in Nat /\ curLen \in Nat /\ fill = avail + curLen
      /\ fill <= ByteDepth /\ ByteDepth \in Nat
  <2>1. c \in {0, 1} /\ (c = 1 => avail > 0)
    BY Eating
  <2> QED BY <2>1, Sizes DEF Framing, ByteRing
<1>2. FillT(in) = fill - c - (IF Drop(in) THEN curLen ELSE 0)
  BY DEF FillT, Eaten
<1>3. AvailT(in) = avail - c + (IF Commit(in) THEN curLen ELSE 0)
  BY DEF AvailT, Eaten
<1>4. ~(Commit(in) /\ Drop(in)) /\ (Commit(in) => Starts(in)) /\ (Drop(in) => Starts(in))
  BY DEF Drop, Commit, Fin
<1>5. Starts(in) /\ ~Commit(in) /\ ~Drop(in) => curLen = 0
  BY DEF Drop, Commit, Fin, Framing, InWork
<1> HIDE DEF c
<1> QED BY <1>1, <1>2, <1>3, <1>4, <1>5 DEF c

(* What a cycle writes, and where.                                           *)
LEMMA Written ==
  ASSUME Framing, NEW in \in Inputs, Clock(in)
  PROVE  WrAddr(in) = (rd + (FillT(in) + Eaten(in))) % ByteDepth
  BY Kept DEF WrAddr, Framing, ByteRing, Pos

(* The reader's place moves with the bytes it takes.                         *)
LEMMA ReaderPlace ==
  ASSUME Framing, NEW in \in Inputs, Clock(in)
  PROVE  /\ rd' = (rd + Eaten(in)) % ByteDepth /\ rd' \in 0 .. ByteDepth - 1
         /\ \A q \in 0 .. ByteDepth : (rd' + q) % ByteDepth = (rd + (q + Eaten(in))) % ByteDepth
<1>1. rd \in 0 .. ByteDepth - 1 /\ ByteDepth \in Nat \ {0} /\ Eaten(in) \in {0, 1}
  BY Eating, Sizes DEF Framing, ByteRing
<1>2. rd' = (rd + Eaten(in)) % ByteDepth
  <2>1. CASE Consume(in)
    BY <2>1 DEF Clock, Bytes, Eaten, B
  <2>2. CASE ~Consume(in)
    <3>1. rd' = rd /\ Eaten(in) = 0
      BY <2>2 DEF Clock, Bytes, Eaten, B
    <3> QED BY <1>1, <3>1
  <2> QED BY <2>1, <2>2
<1>3. rd + Eaten(in) \in Int
  BY <1>1
<1>4. ASSUME NEW q \in 0 .. ByteDepth
      PROVE  (rd' + q) % ByteDepth = (rd + (q + Eaten(in))) % ByteDepth
  <2>1. rd + Eaten(in) \in 0 .. ByteDepth /\ rd + Eaten(in) + q = rd + (q + Eaten(in))
    BY <1>1
  <2>2. (((rd + Eaten(in)) % ByteDepth) + q) % ByteDepth = (rd + Eaten(in) + q) % ByteDepth
    BY <1>1, <2>1, Turn
  <2> QED BY <1>2, <2>1, <2>2
<1> QED BY <1>1, <1>2, <1>3, <1>4, Remainder

(* The bytes there move up by the one taken, and the one that comes is put    *)
(* behind them: none is written over.                                        *)
LEMMA BytesMove ==
  ASSUME Framing, NEW in \in Inputs, Clock(in)
  PROVE  /\ \A q \in 0 .. FillT(in) - 1 :
              mem'[(rd' + q) % ByteDepth] = mem[(rd + (q + Eaten(in))) % ByteDepth]
         /\ Stores(in) => /\ mem'[(rd' + FillT(in)) % ByteDepth] = src'
                          /\ FillT(in) < ByteDepth
<1> DEFINE w == FillT(in) + Eaten(in)
<1>1. /\ FillT(in) \in Nat /\ Eaten(in) \in {0, 1} /\ w <= ByteDepth /\ w \in 0 .. ByteDepth
      /\ rd \in 0 .. ByteDepth - 1 /\ ByteDepth \in Nat \ {0}
  BY Kept, Eating, Sizes DEF Framing, ByteRing
<1>0. mem \in [0 .. ByteDepth - 1 -> Nat \X Nat]
  BY DEF Framing, ByteRing
<1>2. WrAddr(in) = (rd + w) % ByteDepth /\ WrAddr(in) \in 0 .. ByteDepth - 1
  <2>1. rd + w \in Int
    BY <1>1
  <2> QED BY <1>1, <2>1, Written, Remainder
<1>3. Stores(in) => FillT(in) < ByteDepth
  BY DEF Stores, HasSpace
<1>4. mem' = IF Stores(in) THEN [mem EXCEPT ![WrAddr(in)] = src'] ELSE mem
  BY DEF Clock, Bytes
<1>5. ASSUME NEW q \in 0 .. FillT(in) - 1
      PROVE  mem'[(rd' + q) % ByteDepth] = mem[(rd + (q + Eaten(in))) % ByteDepth]
  <2> DEFINE p == q + Eaten(in)
  <2>1. q \in 0 .. ByteDepth /\ p \in Nat /\ p < w /\ rd + p \in Int
    BY <1>1
  <2>2. (rd' + q) % ByteDepth = (rd + p) % ByteDepth
    BY <2>1, ReaderPlace
  <2>3. (rd + p) % ByteDepth \in 0 .. ByteDepth - 1
    BY <1>1, <2>1, Remainder
  <2>4. CASE Stores(in)
    <3>1. w - p < ByteDepth
      BY <1>1, <1>3, <2>4
    <3>2. (rd + p) % ByteDepth # (rd + w) % ByteDepth
      BY <1>1, <2>1, <3>1, Apart
    <3> QED BY <1>0, <1>2, <1>4, <2>2, <2>3, <2>4, <3>2
  <2>5. CASE ~Stores(in)
    BY <1>4, <2>2, <2>5
  <2> QED BY <2>4, <2>5
<1>6. ASSUME Stores(in) PROVE mem'[(rd' + FillT(in)) % ByteDepth] = src'
  <2>1. FillT(in) \in 0 .. ByteDepth
    BY <1>1
  <2>2. (rd' + FillT(in)) % ByteDepth = WrAddr(in)
    BY <1>2, <2>1, ReaderPlace
  <2> QED BY <1>0, <1>2, <1>4, <1>6, <2>2
<1> QED BY <1>3, <1>5, <1>6

LiesNext(p, f, k, n) == \A i \in 0 .. n - 1 : mem'[(rd' + (p + i)) % ByteDepth] = << f, k + i >>

(* A frame that lies keeps lying, seen from where the reader is next.        *)
LEMMA LiesMove ==
  ASSUME Framing, NEW in \in Inputs, Clock(in),
         NEW p \in Int, NEW q \in Nat, NEW n \in Int, NEW f, NEW k \in Int,
         p = q + Eaten(in), q + n <= FillT(in), Lies(p, f, k, n)
  PROVE  LiesNext(q, f, k, n)
<1> SUFFICES ASSUME NEW i \in 0 .. n - 1
             PROVE  mem'[(rd' + (q + i)) % ByteDepth] = << f, k + i >>
  BY DEF LiesNext
<1>1. FillT(in) \in Nat /\ Eaten(in) \in {0, 1}
  BY Kept, Eating
<1>2. q + i \in 0 .. FillT(in) - 1 /\ q + i + Eaten(in) = p + i
  BY <1>1
<1>3. mem'[(rd' + (q + i)) % ByteDepth] = mem[(rd + (p + i)) % ByteDepth]
  BY <1>2, BytesMove
<1> QED BY <1>3 DEF Lies, Pos

(* Where the writer writes next, counted from the reader's next place.       *)
LEMMA WriterPlace ==
  ASSUME Framing, NEW in \in Inputs, Clock(in)
  PROVE  /\ avail' = AvailT(in) /\ fill' = FillT(in) + B(Stores(in)) /\ B(Stores(in)) \in {0, 1}
         /\ curLen' = (IF Starts(in) THEN 0 ELSE curLen) + B(Stores(in))
         /\ fill' = avail' + curLen' /\ fill' <= ByteDepth
<1>1. avail' = AvailT(in) /\ fill' = FillT(in) + B(Stores(in)) /\ B(Stores(in)) \in {0, 1}
  BY DEF Clock, Bytes, B
<1>2. curLen' = (IF Starts(in) THEN 0 ELSE curLen) + B(Stores(in))
  BY <1>1 DEF Clock, FrameInWork
<1>3. /\ FillT(in) = AvailT(in) + (IF Starts(in) THEN 0 ELSE curLen)
      /\ FillT(in) \in Nat /\ AvailT(in) \in Nat /\ FillT(in) <= ByteDepth
  <2>1. FillT(in) \in Nat /\ FillT(in) + Eaten(in) <= ByteDepth /\ Eaten(in) \in {0, 1}
    BY Kept, Eating
  <2> QED BY <2>1, Kept, Sizes
<1>4. curLen \in Nat /\ ByteDepth \in Nat
  BY Sizes DEF Framing, ByteRing
<1>5. Stores(in) => FillT(in) < ByteDepth
  BY BytesMove
<1>6. ~Stores(in) => B(Stores(in)) = 0
  BY DEF B
<1>7. fill' <= ByteDepth
  BY <1>1, <1>3, <1>4, <1>5, <1>6
<1> QED BY <1>1, <1>2, <1>3, <1>4, <1>7

LEMMA ByteRingStep ==
  ASSUME SpliceInv, Framing, NEW in \in Inputs, Clock(in)
  PROVE  ByteRing'
<1>1. mem' \in [0 .. ByteDepth - 1 -> Nat \X Nat]
  <2>1. src' \in Nat \X Nat
    BY WriterStep DEF SpliceInv, WriterTypes
  <2> QED BY <2>1 DEF Clock, Bytes, Framing, ByteRing
<1>2. /\ rd' \in 0 .. ByteDepth - 1 /\ ByteDepth \in Nat \ {0} /\ rd \in 0 .. ByteDepth - 1
      /\ Eaten(in) \in {0, 1} /\ FillT(in) \in Nat /\ FillT(in) + Eaten(in) <= ByteDepth
  BY ReaderPlace, Sizes, Kept, Eating DEF Framing, ByteRing
<1>3. avail' \in Nat /\ curLen' \in Nat /\ fill' = avail' + curLen' /\ fill' <= ByteDepth
  BY WriterPlace, WriterStep, Kept DEF SpliceInv, WriterTypes
<1>4. wr' = (rd' + fill') % ByteDepth
  <2>1. WrAddr(in) = (rd' + FillT(in)) % ByteDepth
    BY <1>2, ReaderPlace, Written
  <2>2. CASE Stores(in)
    <3>1. wr' = (WrAddr(in) + 1) % ByteDepth /\ fill' = FillT(in) + 1 /\ FillT(in) < ByteDepth
      BY <2>2, WriterPlace, BytesMove DEF Clock, Bytes, B
    <3>2. FillT(in) \in 0 .. ByteDepth
      BY <1>2
    <3>3. (((rd' + FillT(in)) % ByteDepth) + 1) % ByteDepth = (rd' + (FillT(in) + 1)) % ByteDepth
      BY <1>2, <3>2, Step
    <3> QED BY <2>1, <3>1, <3>3
  <2>3. CASE ~Stores(in)
    BY <1>2, <2>1, <2>3, WriterPlace DEF Clock, Bytes, B
  <2> QED BY <2>2, <2>3
<1>5. fsw' = (rd' + avail') % ByteDepth
  <2>1. CASE Starts(in)
    <3>1. fsw' = WrAddr(in) /\ avail' = FillT(in)
      BY <2>1, WriterPlace, Kept DEF Clock, FrameInWork
    <3> QED BY <1>2, <3>1, ReaderPlace, Written
  <2>2. CASE ~Starts(in)
    <3>1. fsw' = (rd + avail) % ByteDepth
      BY <2>2 DEF Clock, FrameInWork, Framing, ByteRing, Pos
    <3>2. avail' + Eaten(in) = avail /\ avail' \in 0 .. ByteDepth
      <4>1. avail' = avail - Eaten(in)
        BY <2>2, WriterPlace, Kept DEF Commit, Fin
      <4>2. avail \in Nat /\ avail <= ByteDepth
        BY Sizes DEF Framing, ByteRing
      <4> QED BY <1>2, <1>3, <4>1, <4>2
    <3> QED BY <3>1, <3>2, ReaderPlace
  <2> QED BY <2>1, <2>2
<1> QED BY <1>1, <1>2, <1>3, <1>4, <1>5 DEF ByteRing, Pos

(* The frame in work lies behind what may be read, each byte as it came.      *)
LEMMA InWorkStep ==
  ASSUME SpliceInv, Framing, NEW in \in Inputs, Clock(in)
  PROVE  InWork'
<1>1. src'[1] <= MaxFrames /\ src'[2] <= MaxLen
  <2>1. in.byte \in {"none", "start", "next"} /\ src[1] <= MaxFrames /\ src[2] <= MaxLen
        /\ src[1] \in Nat /\ src[2] \in Nat /\ MaxLen \in Nat \ {0} /\ MaxFrames \in Nat
    BY RingAssumption DEF Inputs, Framing, InWork, SpliceInv, WriterTypes
  <2>2. CASE in.byte = "none"
    BY <2>1, <2>2 DEF Clock, Source
  <2>3. CASE in.byte = "start"
    <3>1. src[2] # 1 /\ src[1] < MaxFrames /\ src' = << src[1] + 1, 1 >>
      BY <2>3 DEF Clock, Source
    <3> QED BY <2>1, <3>1
  <2>4. CASE in.byte = "next"
    <3>1. src[2] < MaxLen /\ src' = << src[1], src[2] + 1 >>
      BY <2>4 DEF Clock, Source
    <3> QED BY <2>1, <3>1
  <2> QED BY <2>1, <2>2, <2>3, <2>4
<1>2. ~open' => curLen' = 0
  <2>1. ~open' => ~open /\ ~Starts(in) /\ ~Stores(in)
    BY DEF Clock, FrameInWork, Stores
  <2> QED BY <2>1, WriterPlace DEF Framing, InWork, B
<1> SUFFICES ASSUME open', ~dropping'
             PROVE  curLen' = src'[2] /\ LiesNext(avail', cur', 1, curLen')
  BY <1>1, <1>2 DEF InWork, Lies, LiesNext, Pos
<1>3. CASE Starts(in)
  <2>1. Stores(in)
    BY <1>3 DEF Clock, FrameInWork
  <2>2. curLen' = 1 /\ avail' = FillT(in) /\ avail' \in Nat
    BY <1>3, <2>1, WriterPlace, Kept DEF B
  <2>3. src' = << cur', 1 >> /\ src'[2] = 1
    <3>1. src'[2] = 1 /\ src' = << src'[1], src'[2] >> /\ cur' = src'[1]
      BY <1>3, SourceStep DEF SpliceInv, Clock, FrameInWork
    <3> QED BY <3>1
  <2>4. mem'[(rd' + avail') % ByteDepth] = src'
    BY <2>1, <2>2, BytesMove
  <2> QED BY <2>2, <2>3, <2>4 DEF LiesNext
<1>4. CASE ~Starts(in)
  <2>1. open /\ ~dropping /\ cur' = cur /\ cur = src[1] /\ (in.byte = "next" => Stores(in))
    BY <1>4 DEF Clock, FrameInWork, SpliceInv, WriterTypes
  <2>2. curLen = src[2] /\ Lies(avail, cur, 1, curLen) /\ avail \in Nat /\ curLen \in Nat
    BY <2>1 DEF Framing, InWork, ByteRing
  <2>3. avail = avail' + Eaten(in) /\ avail' \in Nat /\ FillT(in) = avail' + curLen
    <3>1. avail' = avail - Eaten(in) /\ avail' \in Nat /\ Eaten(in) \in {0, 1}
      BY <1>4, WriterPlace, Kept, Eating DEF Commit, Fin
    <3> QED BY <1>4, <2>2, <3>1, WriterPlace, Kept
  <2>4. LiesNext(avail', cur, 1, curLen)
    <3>1. FillT(in) \in Nat
      BY Kept
    <3> QED BY <2>2, <2>3, <3>1, LiesMove
  <2>5. CASE in.byte = "next"
    <3>1. curLen' = curLen + 1 /\ src'[2] = src[2] + 1 /\ src' = << cur, 1 + curLen >>
      <4>1. src'[1] = src[1] /\ src'[2] = src[2] + 1 /\ src' = << src'[1], src'[2] >>
        BY <2>5, SourceStep DEF SpliceInv, Clock
      <4>2. curLen' = curLen + 1
        BY <1>4, <2>1, <2>5, WriterPlace DEF B
      <4> QED BY <2>1, <2>2, <4>1, <4>2
    <3>2. mem'[(rd' + (avail' + curLen)) % ByteDepth] = << cur, 1 + curLen >>
      BY <2>1, <2>3, <2>5, <3>1, BytesMove
    <3>3. ASSUME NEW i \in 0 .. curLen' - 1
          PROVE  mem'[(rd' + (avail' + i)) % ByteDepth] = << cur, 1 + i >>
      <4>1. i \in 0 .. curLen - 1 \/ i = curLen
        BY <2>2, <3>1
      <4> QED BY <2>4, <3>2, <4>1 DEF LiesNext
    <3> QED BY <2>1, <2>2, <3>1, <3>3 DEF LiesNext
  <2>6. CASE in.byte = "none"
    <3>1. ~Stores(in) /\ src' = src
      BY <1>4, <2>6 DEF Stores, Clock, Source
    <3>2. curLen' = curLen
      BY <1>4, <2>2, <3>1, WriterPlace DEF B
    <3> QED BY <2>1, <2>2, <2>4, <3>1, <3>2
  <2> QED BY <1>4, <2>5, <2>6 DEF Inputs, Starts
<1> QED BY <1>3, <1>4

(* What a tick does to the dispatcher: it takes the descriptor that is held,  *)
(* or goes on with the frame it is in.                                       *)
Takes(in) ==
  /\ Latch(in) /\ enable /\ Held /\ ~Held' /\ ~Issue /\ head' = head /\ left = 0 /\ Eaten(in) = 0
  /\ ~Pops
GoesOn(in) ==
  /\ got' = got /\ left' = left - Eaten(in) /\ Eaten(in) <= left
  /\ Held => ~Issue /\ Held' /\ head' = head
  /\ ~Held => (Held' <=> Issue)
  /\ Issue => head' = dmem[dRd]

LEMMA DescAtZero == dRd \in 0 .. FrameDepth - 1 => dmem[dRd] = Desc(0)
<1> SUFFICES ASSUME dRd \in 0 .. FrameDepth - 1 PROVE (dRd + 0) % FrameDepth = dRd
  BY DEF Desc
<1>1. dRd + 0 = dRd /\ FrameDepth \in Nat \ {0}
  BY RingAssumption
<1> QED BY <1>1, Around

(* The head register is loaded with the first descriptor of the ring.        *)
LEMMA HeadNext ==
  ASSUME SpliceInv, Framing, NEW in \in Inputs, Clock(in)
  PROVE  /\ Issue => /\ head' = dmem[dRd] /\ dmem[dRd] = Desc(0) /\ Desc(0) \in Descriptor
                     /\ qCnt > 0 /\ HeadV'
         /\ ~Issue /\ Pops => ~HeadV'
         /\ ~Issue /\ ~Pops => head' = head
         /\ HeadV /\ ~Pops => ~Issue
<1>1. head' = IF Issue THEN dmem[dRd] ELSE IF Pops THEN NoDesc ELSE head
  BY DEF Clock, Descriptors
<1>2. ASSUME Issue PROVE dmem[dRd] = Desc(0) /\ Desc(0) \in Descriptor /\ qCnt > 0
  <2>1. qCnt \in Nat /\ qCnt > 0 /\ 0 \in 0 .. qCnt - 1
    BY <1>2, RingAssumption DEF Issue, Framing, DescRing
  <2>2. Desc(0) \in Descriptor
    BY <2>1 DEF Framing, DescRing
  <2> QED BY <2>1, <2>2, DescAtZero DEF SpliceInv, Descs
<1>3. \A d \in Descriptor : d # NoDesc
  BY DEF Descriptor, NoDesc
<1> QED BY <1>1, <1>2, <1>3 DEF Issue, HeadV

(* A tick either takes the held frame, or goes on with the one being read.   *)
LEMMA ReaderStep ==
  ASSUME SpliceInv, Framing, NEW in \in Inputs, Clock(in)
  PROVE  Takes(in) \/ GoesOn(in)
<1>1. ds \in {"IDLE", "POP", "ROUTE"} /\ left \in Nat /\ (ds = "IDLE" => left = 0) /\ (~enable => ds = "IDLE")
  <2>1. got.len \in Nat
    BY RingAssumption DEF Framing, Taken, Descriptor, NoDesc
  <2> QED BY <2>1 DEF Framing, Taken
<1>2. Eaten(in) \in {0, 1} /\ (Eaten(in) = 1 => Consume(in) /\ left > 0) /\ (~Consume(in) => Eaten(in) = 0)
  BY Eating DEF Eaten, B
<1>3. CASE enable /\ Latch(in)
  <2>1. ds = "IDLE" /\ HeadV /\ ds' = "POP"
    BY <1>3 DEF Latch
  <2>2. ~Pops /\ ~Consume(in) /\ Held /\ ~Held'
    BY <2>1 DEF Pops, Consume, Held
  <2> QED BY <1>1, <1>2, <1>3, <2>1, <2>2, HeadNext DEF Takes
<1>4. CASE ~(enable /\ Latch(in))
  <2>1. got' = got /\ left' = left - Eaten(in) /\ ds' # "POP"
    <3>1. CASE ~enable
      <4>1. ~Consume(in) /\ Parked
        BY <1>1, <3>1 DEF Consume, Clock, Dispatcher
      <4> QED BY <1>1, <1>2, <4>1 DEF Parked
    <3>2. CASE enable /\ Pop
      <4>1. ~Consume(in) /\ ds' # "POP" /\ got' = got /\ left' = left
        BY <3>2 DEF Pop, Pops, Consume
      <4> QED BY <1>1, <1>2, <4>1
    <3>3. CASE enable /\ Route(in)
      <4>1. Consume(in) /\ ds' # "POP" /\ got' = got /\ left' = left - 1
        BY <3>3 DEF Route
      <4> QED BY <1>1, <1>2, <4>1 DEF Eaten, B
    <3>4. CASE enable /\ Waits(in)
      <4>1. ~Consume(in) /\ ~Pops /\ ds' = ds /\ got' = got /\ left' = left
        BY <3>4 DEF Waits, reader
      <4> QED BY <1>1, <1>2, <4>1 DEF Pops
    <3> QED BY <1>4, <3>1, <3>2, <3>3, <3>4 DEF Clock, Dispatcher
  <2>2. Held' <=> HeadV'
    BY <2>1 DEF Held, Pops
  <2>3. Held => ~Issue /\ Held' /\ head' = head
    BY <2>2, HeadNext DEF Held, HeadV
  <2>4. ~Held => (Held' <=> Issue)
    BY <2>2, HeadNext DEF Held, HeadV
  <2> QED BY <1>1, <1>2, <2>1, <2>3, <2>4, HeadNext DEF GoesOn
<1> QED BY <1>3, <1>4

(* What is left of the frame taken is a part of it.                          *)
LEMMA TakenStep ==
  ASSUME Mutes = FALSE, SpliceInv, Framing, NEW in \in Inputs, Clock(in)
  PROVE  Taken'
<1>1. /\ ds \in {"IDLE", "POP", "ROUTE"} /\ enable \in BOOLEAN /\ (~enable => ds = "IDLE")
      /\ got \in Descriptor \cup {NoDesc} /\ left \in 0 .. got.len /\ got.len \in Nat
      /\ (ds = "IDLE" => left = 0) /\ (ds = "POP" => left = head.len /\ HeadV) /\ (ds = "ROUTE" => left > 0)
      /\ head \in Descriptor \cup {NoDesc}
  <2>1. got.len \in Nat
    BY RingAssumption DEF Framing, Taken, Descriptor, NoDesc
  <2> QED BY <2>1 DEF Framing, Taken, DescRing
<1>2. \A d \in Descriptor : d.len \in Nat /\ d.len > 0
  BY DEF Descriptor
<1>3. enable' \in BOOLEAN /\ (~enable' => ds' = "IDLE")
  <2>1. enable' = (enable # in.audio) /\ (in.audio => ds' = "IDLE") /\ in.audio \in BOOLEAN
    BY DEF Clock, Levels, Inputs
  <2>2. ~enable => ds' = "IDLE"
    BY DEF Clock, Dispatcher, Parked
  <2> QED BY <1>1, <2>1, <2>2
<1>4. CASE ~enable /\ Parked
  BY <1>1, <1>3, <1>4 DEF Parked, Taken
<1>5. CASE enable /\ Latch(in)
  <2>1. ds' = "POP" /\ got' = head /\ left' = head.len /\ HeadV /\ head' = head
    BY <1>5, HeadNext DEF Latch, Pops
  <2>2. HeadV' /\ head \in Descriptor
    BY <1>1, <2>1 DEF HeadV
  <2>3. head.len \in Nat
    BY <1>2, <2>2
  <2>4. got'.len = head.len /\ left' \in 0 .. got'.len
    BY <2>1, <2>3
  <2> QED BY <1>3, <2>1, <2>2, <2>4 DEF Taken
<1>6. CASE enable /\ Pop
  <2>1. left = head.len /\ HeadV /\ head \in Descriptor
    BY <1>1, <1>6 DEF Pop, Pops, HeadV
  <2>2. left > 0
    BY <1>2, <2>1
  <2> QED BY <1>1, <1>3, <1>6, <2>2 DEF Pop, Taken
<1>7. CASE enable /\ Route(in)
  <2>1. left > 0 /\ left' = left - 1 /\ got' = got /\ ds' = (IF left = 1 THEN "IDLE" ELSE "ROUTE")
    BY <1>1, <1>7 DEF Route, Consume
  <2> QED BY <1>1, <1>3, <2>1 DEF Taken
<1>8. CASE enable /\ Waits(in)
  <2>1. ds' = ds /\ left' = left /\ got' = got /\ ds # "POP"
    BY <1>8 DEF Waits, reader, Pops
  <2> QED BY <1>1, <1>3, <2>1 DEF Taken
<1> QED BY <1>4, <1>5, <1>6, <1>7, <1>8 DEF Clock, Dispatcher

(* The descriptors, in the same manner as the bytes.                          *)
Issued == B(Issue)
DescNext(i) == dmem'[(dRd' + i) % FrameDepth]

(* A committed frame is a descriptor with as many bytes as have arrived.     *)
LEMMA Committed ==
  ASSUME SpliceInv, Framing, NEW in \in Inputs, Clock(in), Commit(in)
  PROVE  /\ [frame |-> cur, len |-> curLen] \in Descriptor
         /\ Lies(avail, cur, 1, curLen) /\ qCnt < FrameDepth
<1>1. open /\ ~dropping /\ curLen # 0 /\ qCnt # FrameDepth
  BY DEF Commit, Fin
<1>2. curLen = src[2] /\ Lies(avail, cur, 1, curLen) /\ cur = src[1] /\ src[1] > 0
      /\ src[1] <= MaxFrames /\ src[2] <= MaxLen /\ src[1] \in Nat /\ src[2] \in Nat
  BY <1>1 DEF Framing, InWork, SpliceInv, WriterTypes
<1>3. cur \in 1 .. MaxFrames /\ curLen \in 1 .. MaxLen
  BY <1>1, <1>2, RingAssumption
<1> QED BY <1>1, <1>2, <1>3, RingAssumption DEF Descriptor, Framing, DescRing

(* What a tick does to the descriptor ring, counted from its next head.      *)
LEMMA DescsMove ==
  ASSUME SpliceInv, Framing, NEW in \in Inputs, Clock(in)
  PROVE  /\ Issued \in {0, 1} /\ (Issued = 1 => Issue) /\ (Issued = 0 => ~Issue) /\ Issued <= qCnt
         /\ qCnt' = qCnt - Issued + (IF Commit(in) THEN 1 ELSE 0) /\ qCnt' \in 0 .. FrameDepth
         /\ \A i \in 0 .. qCnt - Issued - 1 : DescNext(i) = Desc(i + Issued)
         /\ Commit(in) => DescNext(qCnt - Issued) = [frame |-> cur, len |-> curLen]
         /\ dWr' = (dRd' + qCnt') % FrameDepth
<1>1. /\ FrameDepth \in Nat \ {0} /\ qCnt \in 0 .. FrameDepth /\ dRd \in 0 .. FrameDepth - 1
      /\ dWr = (dRd + qCnt) % FrameDepth
  BY RingAssumption DEF Framing, DescRing, SpliceInv, Descs
<1>2. Issued \in {0, 1} /\ (Issued = 1 => Issue) /\ (Issued = 0 => ~Issue) /\ Issued <= qCnt
  BY <1>1 DEF Issued, B, Issue
<1>3. qCnt' = qCnt - Issued + (IF Commit(in) THEN 1 ELSE 0) /\ (Commit(in) => qCnt < FrameDepth)
  <2>1. qCnt' = qCnt + B(Commit(in)) - Issued
    BY DEF Clock, Descriptors, Issued
  <2> QED BY <1>1, <1>2, <2>1, Committed DEF B
<1>4. qCnt' \in 0 .. FrameDepth
  BY <1>1, <1>2, <1>3
<1>5. ASSUME NEW i \in 0 .. FrameDepth
      PROVE  (dRd' + i) % FrameDepth = (dRd + (i + Issued)) % FrameDepth
  <2>1. dRd' = (dRd + Issued) % FrameDepth /\ dRd + Issued \in 0 .. FrameDepth
    BY <1>1, <1>2 DEF Clock, Descriptors, Issued
  <2>2. (((dRd + Issued) % FrameDepth) + i) % FrameDepth = (dRd + Issued + i) % FrameDepth
    BY <1>1, <2>1, Turn
  <2>3. dRd + Issued + i = dRd + (i + Issued)
    BY <1>1, <1>2
  <2> QED BY <2>1, <2>2, <2>3
<1>6. dmem \in [0 .. FrameDepth - 1 -> [frame : Nat, len : Nat]] /\ dWr \in 0 .. FrameDepth - 1
  BY DEF SpliceInv, Descs
<1>7. dmem' = IF Commit(in) THEN [dmem EXCEPT ![dWr] = [frame |-> cur, len |-> curLen]] ELSE dmem
  BY DEF Clock, Descriptors
<1>8. ASSUME NEW i \in 0 .. qCnt - Issued - 1
      PROVE  DescNext(i) = Desc(i + Issued)
  <2> DEFINE p == i + Issued
  <2>1. i \in 0 .. FrameDepth /\ p \in Nat /\ p < qCnt /\ dRd + p \in Int /\ qCnt \in 0 .. FrameDepth
    BY <1>1, <1>2
  <2>2. (dRd' + i) % FrameDepth = (dRd + p) % FrameDepth
    BY <1>5, <2>1
  <2>3. (dRd + p) % FrameDepth \in 0 .. FrameDepth - 1
    BY <1>1, <2>1, Remainder
  <2>4. Commit(in) => (dRd + p) % FrameDepth # dWr
    <3> SUFFICES ASSUME Commit(in) PROVE (dRd + p) % FrameDepth # (dRd + qCnt) % FrameDepth
      BY <1>1
    <3>1. qCnt - p < FrameDepth
      BY <1>1, <1>3, <2>1
    <3> QED BY <1>1, <2>1, <3>1, Apart
  <2> QED BY <1>6, <1>7, <2>2, <2>3, <2>4 DEF DescNext, Desc
<1>9. ASSUME Commit(in) PROVE DescNext(qCnt - Issued) = [frame |-> cur, len |-> curLen]
  <2>1. qCnt - Issued \in 0 .. FrameDepth /\ qCnt - Issued + Issued = qCnt
    BY <1>1, <1>2
  <2>2. (dRd' + (qCnt - Issued)) % FrameDepth = dWr
    BY <1>1, <1>5, <2>1
  <2> QED BY <1>6, <1>7, <1>9, <2>2 DEF DescNext
<1>10. dWr' = (dRd' + qCnt') % FrameDepth
  <2>1. (dRd' + qCnt') % FrameDepth = (dRd + (qCnt' + Issued)) % FrameDepth
    BY <1>4, <1>5
  <2>2. CASE Commit(in)
    <3>1. dWr' = (dWr + 1) % FrameDepth /\ qCnt' + Issued = qCnt + 1
      BY <1>1, <1>2, <1>3, <2>2 DEF Clock, Descriptors, B
    <3>2. (((dRd + qCnt) % FrameDepth) + 1) % FrameDepth = (dRd + (qCnt + 1)) % FrameDepth
      BY <1>1, Step
    <3> QED BY <1>1, <2>1, <3>1, <3>2
  <2>3. CASE ~Commit(in)
    <3>1. dWr' = (dWr + 0) % FrameDepth /\ qCnt' + Issued = qCnt
      BY <1>1, <1>2, <1>3, <2>3 DEF Clock, Descriptors, B
    <3>2. dWr + 0 = dWr
      BY <1>6
    <3>3. dWr % FrameDepth = dWr
      BY <1>1, <1>6, Around
    <3> QED BY <1>1, <2>1, <3>1, <3>2, <3>3
  <2> QED BY <2>2, <2>3
<1> QED BY <1>2, <1>3, <1>4, <1>8, <1>9, <1>10

LEMMA DescRingStep ==
  ASSUME SpliceInv, Framing, NEW in \in Inputs, Clock(in)
  PROVE  DescRing'
<1>1. ASSUME NEW i \in 0 .. qCnt' - 1 PROVE DescNext(i) \in Descriptor
  <2>1. qCnt \in Nat /\ \A j \in 0 .. qCnt - 1 : Desc(j) \in Descriptor
    BY RingAssumption DEF Framing, DescRing
  <2>2. i \in 0 .. qCnt - Issued - 1 \/ (Commit(in) /\ i = qCnt - Issued)
    BY <2>1, DescsMove
  <2>3. i \in 0 .. qCnt - Issued - 1 => i + Issued \in 0 .. qCnt - 1
    BY <2>1, DescsMove
  <2> QED BY <2>1, <2>2, <2>3, DescsMove, Committed
<1>2. head' \in Descriptor \cup {NoDesc}
  BY HeadNext DEF Clock, Descriptors, Framing, DescRing
<1> QED BY <1>1, <1>2, DescsMove DEF DescRing, DescNext, Desc

(* The frames that wait, one behind the other.                                *)
Size(in) == avail - Eaten(in)
NextBegins(in, st) ==
  [i \in 0 .. qCnt' |-> IF i + Issued <= qCnt THEN st[i + Issued] - Eaten(in) ELSE AvailT(in)]

(* A queued frame ends no later than the readable bytes.                     *)
LEMMA BeginsBounds ==
  ASSUME Framing, NEW st \in [0 .. qCnt -> 0 .. avail], Begins(st)
  PROVE  /\ qCnt \in Nat /\ avail \in Nat /\ left \in Nat /\ Ahead \in Nat /\ left <= Ahead
         /\ \A i \in 0 .. qCnt : st[i] \in Nat /\ Ahead <= st[i] /\ st[i] <= avail
         /\ \A i \in 0 .. qCnt - 1 : Desc(i).len \in Nat /\ Desc(i).len > 0
         /\ (Held => head.len \in Nat)
<1>1. qCnt \in Nat /\ avail \in Nat /\ MaxLen \in Nat
  BY RingAssumption DEF Framing, DescRing, ByteRing
<1>2. got.len \in Nat /\ left \in Nat
  <2>1. got.len \in Nat
    BY <1>1 DEF Framing, Taken, Descriptor, NoDesc
  <2> QED BY <2>1 DEF Framing, Taken
<1>3. Held => head.len \in Nat
  BY <1>1 DEF Framing, DescRing, Descriptor, NoDesc
<1>4. Ahead \in Nat /\ left <= Ahead
  BY <1>2, <1>3 DEF Ahead
<1>5. ASSUME NEW i \in 0 .. qCnt PROVE st[i] \in Nat /\ Ahead <= st[i] /\ st[i] <= avail
  <2>1. 0 \in 0 .. qCnt /\ 0 <= i /\ st[i] \in 0 .. avail
    BY <1>1
  <2> QED BY <1>1, <2>1 DEF Begins
<1>6. ASSUME NEW i \in 0 .. qCnt - 1 PROVE Desc(i).len \in Nat /\ Desc(i).len > 0
  <2>1. Desc(i) \in Descriptor
    BY DEF Framing, DescRing
  <2> QED BY <2>1 DEF Descriptor
<1> QED BY <1>1, <1>2, <1>3, <1>4, <1>5, <1>6

(* The starting places after a tick: each nearer by the byte eaten, the first *)
(* gone if it was issued, one more at the end if a frame was committed.      *)
LEMMA NextPlaces ==
  ASSUME SpliceInv, Framing, NEW in \in Inputs, Clock(in),
         NEW st \in [0 .. qCnt -> 0 .. avail], Begins(st)
  PROVE  /\ Eaten(in) \in {0, 1} /\ Eaten(in) <= left /\ avail' = AvailT(in) /\ avail' \in Nat
         /\ Size(in) \in Nat /\ Size(in) <= avail' /\ avail' <= FillT(in)
         /\ (Commit(in) => avail' = Size(in) + curLen) /\ (~Commit(in) => avail' = Size(in))
         /\ curLen \in Nat
<1>1. Eaten(in) \in {0, 1} /\ (Eaten(in) = 1 => left > 0)
  BY Eating
<1>2. avail \in Nat /\ left \in Nat /\ left <= avail /\ curLen \in Nat
  <2>1. left <= Ahead /\ Ahead <= st[0] /\ st[0] <= avail /\ 0 \in 0 .. qCnt /\ st[0] \in Nat /\ Ahead \in Nat
        /\ left \in Nat /\ avail \in Nat
    BY BeginsBounds
  <2> QED BY <2>1 DEF Framing, ByteRing
<1>3. avail' = AvailT(in) /\ AvailT(in) \in Nat /\ FillT(in) \in Nat
      /\ AvailT(in) = Size(in) + (IF Commit(in) THEN curLen ELSE 0)
      /\ FillT(in) = AvailT(in) + (IF Starts(in) THEN 0 ELSE curLen)
  BY WriterPlace, Kept DEF Size
<1>4. Size(in) = avail - Eaten(in)
  BY DEF Size
<1> QED BY <1>1, <1>2, <1>3, <1>4

LEMMA PlacesNext ==
  ASSUME SpliceInv, Framing, NEW in \in Inputs, Clock(in),
         NEW st \in [0 .. qCnt -> 0 .. avail], Begins(st), NEW i \in 0 .. qCnt'
  PROVE  /\ NextBegins(in, st)[i] \in 0 .. avail'
         /\ i + Issued <= qCnt => /\ i + Issued \in 0 .. qCnt
                                  /\ NextBegins(in, st)[i] = st[i + Issued] - Eaten(in)
                                  /\ NextBegins(in, st)[i] <= Size(in)
         /\ ~(i + Issued <= qCnt) => /\ Commit(in) /\ i = qCnt' /\ i + Issued = qCnt + 1
                                     /\ NextBegins(in, st)[i] = avail'
<1>1. /\ Issued \in {0, 1} /\ Issued <= qCnt /\ qCnt \in Nat /\ qCnt' \in Nat
      /\ qCnt' = qCnt - Issued + (IF Commit(in) THEN 1 ELSE 0)
  <2>1. qCnt' \in Nat /\ qCnt \in Nat
    BY DescsMove, RingAssumption DEF Framing, DescRing
  <2> QED BY <2>1, DescsMove
<1>2. /\ Eaten(in) \in {0, 1} /\ Eaten(in) <= left /\ avail' = AvailT(in) /\ avail' \in Nat
      /\ Size(in) \in Nat /\ Size(in) <= avail'
  BY NextPlaces
<1>3. CASE i + Issued <= qCnt
  <2>1. i + Issued \in 0 .. qCnt
    BY <1>1, <1>3
  <2>2. NextBegins(in, st)[i] = st[i + Issued] - Eaten(in)
    BY <1>3 DEF NextBegins
  <2>3. st[i + Issued] \in Nat /\ left <= st[i + Issued] /\ st[i + Issued] <= avail /\ left \in Nat /\ avail \in Nat
    BY <2>1, BeginsBounds
  <2> QED BY <1>2, <1>3, <2>1, <2>2, <2>3 DEF Size
<1>4. CASE ~(i + Issued <= qCnt)
  <2>1. NextBegins(in, st)[i] = avail'
    BY <1>2, <1>4 DEF NextBegins
  <2> QED BY <1>1, <1>2, <1>4, <2>1
<1> QED BY <1>3, <1>4

(* Every queued frame, a new one too, lies at its next starting place.       *)
LEMMA QueueLaid ==
  ASSUME SpliceInv, Framing, NEW in \in Inputs, Clock(in),
         NEW st \in [0 .. qCnt -> 0 .. avail], Begins(st), NEW i \in 0 .. qCnt' - 1
  PROVE  /\ NextBegins(in, st)[i + 1] = NextBegins(in, st)[i] + DescNext(i).len
         /\ LiesNext(NextBegins(in, st)[i], DescNext(i).frame, 1, DescNext(i).len)
<1> DEFINE nb == NextBegins(in, st)
<1>1. /\ Issued \in {0, 1} /\ Issued <= qCnt /\ qCnt \in Nat /\ qCnt' \in Nat
      /\ qCnt' = qCnt - Issued + (IF Commit(in) THEN 1 ELSE 0)
  <2>1. qCnt' \in Nat /\ qCnt \in Nat
    BY DescsMove, RingAssumption DEF Framing, DescRing
  <2> QED BY <2>1, DescsMove
<1>2. /\ Eaten(in) \in {0, 1} /\ avail' \in Nat /\ Size(in) \in Nat /\ avail' <= FillT(in) /\ FillT(in) \in Nat
      /\ Size(in) <= avail' /\ Size(in) = avail - Eaten(in) /\ avail \in Nat
  BY NextPlaces, Kept, BeginsBounds DEF Size
<1>3. i \in 0 .. qCnt' /\ i + 1 \in 0 .. qCnt'
  BY <1>1
<1>4. CASE i + 1 + Issued <= qCnt
  <2> DEFINE j == i + Issued
  <2>1. j \in 0 .. qCnt - 1 /\ i \in 0 .. qCnt - Issued - 1 /\ j + 1 = i + 1 + Issued /\ i + Issued <= qCnt
        /\ j + 1 \in 0 .. qCnt /\ j \in 0 .. qCnt
    BY <1>1, <1>4
  <2>2. DescNext(i) = Desc(j)
    BY <2>1, DescsMove
  <2>3. nb[i] = st[j] - Eaten(in) /\ nb[i] \in Nat
    <3>1. nb[i] = st[j] - Eaten(in) /\ nb[i] \in 0 .. avail'
      BY <1>3, <2>1, PlacesNext
    <3> HIDE DEF nb, j
    <3> QED BY <1>2, <3>1
  <2>4. nb[i + 1] = st[j + 1] - Eaten(in) /\ nb[i + 1] <= Size(in)
    BY <1>3, <1>4, <2>1, PlacesNext
  <2>5. st[j + 1] = st[j] + Desc(j).len /\ Lies(st[j], Desc(j).frame, 1, Desc(j).len)
    BY <2>1 DEF Begins
  <2>6. st[j] \in Nat /\ st[j + 1] \in Nat /\ Desc(j).len \in Nat
    BY <2>1, BeginsBounds
  <2>7. nb[i + 1] = nb[i] + Desc(j).len /\ st[j] = nb[i] + Eaten(in)
    <3> DEFINE s == st[j]
               t == st[j + 1]
               n == Desc(j).len
               e == Eaten(in)
               a == nb[i]
               b == nb[i + 1]
    <3>1. s \in Nat /\ n \in Nat /\ e \in Int /\ a = s - e /\ b = t - e /\ t = s + n
      BY <1>2, <2>3, <2>4, <2>5, <2>6
    <3> HIDE DEF s, t, n, e, a, b
    <3>2. b = a + n /\ s = a + e
      BY <3>1
    <3> QED BY <3>2 DEF s, t, n, e, a, b
  <2>8. nb[i] + Desc(j).len <= FillT(in)
    BY <1>2, <2>3, <2>4, <2>6, <2>7
  <2>9. LiesNext(nb[i], Desc(j).frame, 1, Desc(j).len)
    <3> HIDE DEF nb, j
    <3> QED BY <2>3, <2>5, <2>6, <2>7, <2>8, LiesMove
  <2> QED BY <2>2, <2>7, <2>9
<1>5. CASE ~(i + 1 + Issued <= qCnt)
  <2>1. Commit(in) /\ i + Issued = qCnt /\ i = qCnt - Issued /\ nb[i + 1] = avail' /\ i + Issued <= qCnt
    <3>1. Commit(in) /\ i + 1 + Issued = qCnt + 1 /\ nb[i + 1] = avail'
      BY <1>3, <1>5, PlacesNext
    <3> QED BY <1>1, <3>1
  <2>2. DescNext(i) = [frame |-> cur, len |-> curLen]
    BY <2>1, DescsMove
  <2>3. nb[i] = st[qCnt] - Eaten(in) /\ st[qCnt] = avail
    BY <1>3, <2>1, PlacesNext DEF Begins
  <2>4. avail' = Size(in) + curLen /\ curLen \in Nat /\ nb[i] = Size(in)
    BY <1>2, <2>1, <2>3, NextPlaces
  <2>5. LiesNext(Size(in), cur, 1, curLen)
    <3>1. Lies(avail, cur, 1, curLen)
      BY <2>1, Committed
    <3>2. avail = Size(in) + Eaten(in) /\ Size(in) + curLen <= FillT(in)
      BY <1>2, <2>4
    <3> QED BY <1>2, <2>4, <3>1, <3>2, LiesMove
  <2> QED BY <2>1, <2>2, <2>4, <2>5
<1> QED BY <1>4, <1>5

(* The next starting places follow one another.                              *)
LEMMA QueueBegins ==
  ASSUME SpliceInv, Framing, NEW in \in Inputs, Clock(in),
         NEW st \in [0 .. qCnt -> 0 .. avail], Begins(st)
  PROVE  /\ NextBegins(in, st) \in [0 .. qCnt' -> 0 .. avail']
         /\ NextBegins(in, st)[qCnt'] = avail'
         /\ \A i, j \in 0 .. qCnt' : i <= j => NextBegins(in, st)[i] <= NextBegins(in, st)[j]
         /\ NextBegins(in, st)[0] = st[Issued] - Eaten(in) /\ Issued \in 0 .. qCnt
<1> DEFINE nb == NextBegins(in, st)
<1>1. /\ Issued \in {0, 1} /\ Issued <= qCnt /\ qCnt \in Nat /\ qCnt' \in Nat
      /\ qCnt' = qCnt - Issued + (IF Commit(in) THEN 1 ELSE 0)
  <2>1. qCnt' \in Nat /\ qCnt \in Nat
    BY DescsMove, RingAssumption DEF Framing, DescRing
  <2> QED BY <2>1, DescsMove
<1>2. nb \in [0 .. qCnt' -> 0 .. avail']
  <2>1. \A i \in 0 .. qCnt' : nb[i] \in 0 .. avail'
    BY PlacesNext
  <2>2. nb = [i \in 0 .. qCnt' |-> nb[i]]
    BY DEF NextBegins
  <2> HIDE DEF nb
  <2> QED BY <2>1, <2>2
<1>3. nb[qCnt'] = avail'
  <2>1. qCnt' \in 0 .. qCnt'
    BY <1>1
  <2>2. CASE Commit(in)
    <3>1. ~(qCnt' + Issued <= qCnt)
      BY <1>1, <2>2
    <3> QED BY <2>1, <3>1, PlacesNext
  <2>3. CASE ~Commit(in)
    <3>1. qCnt' + Issued = qCnt /\ qCnt' + Issued <= qCnt
      BY <1>1, <2>3
    <3>2. nb[qCnt'] = st[qCnt] - Eaten(in) /\ st[qCnt] = avail
      BY <2>1, <3>1, PlacesNext DEF Begins
    <3> QED BY <2>3, <3>2, NextPlaces DEF Size
  <2> QED BY <2>2, <2>3
<1>4. ASSUME NEW i \in 0 .. qCnt', NEW j \in 0 .. qCnt', i <= j PROVE nb[i] <= nb[j]
  <2>1. Eaten(in) \in {0, 1} /\ avail' \in Nat /\ Size(in) \in Nat /\ Size(in) <= avail'
    BY NextPlaces
  <2>2. CASE j + Issued <= qCnt
    <3>1. i + Issued <= qCnt /\ i + Issued <= j + Issued
      <4>1. i \in Nat /\ j \in Nat /\ i <= j /\ Issued \in Nat /\ qCnt \in Nat
        BY <1>1, <1>4
      <4> QED BY <2>2, <4>1
    <3>2. /\ nb[i] = st[i + Issued] - Eaten(in) /\ nb[j] = st[j + Issued] - Eaten(in)
          /\ i + Issued \in 0 .. qCnt /\ j + Issued \in 0 .. qCnt
      BY <2>2, <3>1, PlacesNext
    <3>3. st[i + Issued] <= st[j + Issued] /\ st[i + Issued] \in Nat /\ st[j + Issued] \in Nat
      BY <3>1, <3>2, BeginsBounds DEF Begins
    <3> QED BY <2>1, <3>2, <3>3
  <2>3. CASE ~(j + Issued <= qCnt)
    <3>1. nb[j] = avail' /\ nb[i] \in 0 .. avail'
      BY <2>3, PlacesNext
    <3> QED BY <2>1, <3>1
  <2> QED BY <2>2, <2>3
<1>5. nb[0] = st[Issued] - Eaten(in) /\ Issued \in 0 .. qCnt
  <2>1. 0 \in 0 .. qCnt' /\ 0 + Issued = Issued /\ 0 + Issued <= qCnt
    BY <1>1
  <2>2. nb[0] = st[0 + Issued] - Eaten(in)
    BY <2>1, PlacesNext
  <2> QED BY <1>1, <2>1, <2>2
<1> QED BY <1>2, <1>3, <1>4, <1>5

(* The frame that is read, and the one that is held.                          *)
LEMMA ReaderLaid ==
  ASSUME SpliceInv, Framing, NEW in \in Inputs, Clock(in),
         NEW st \in [0 .. qCnt -> 0 .. avail], Begins(st)
  PROVE  /\ LiesNext(0, got'.frame, got'.len - left' + 1, left')
         /\ Held' => LiesNext(left', head'.frame, 1, head'.len)
         /\ st[Issued] - Eaten(in) = Ahead'
<1>1. /\ qCnt \in Nat /\ avail \in Nat /\ left \in Nat /\ Ahead \in Nat /\ left <= Ahead
      /\ Ahead = st[0] /\ Ahead <= avail /\ (Held => head.len \in Nat)
  <2>1. 0 \in 0 .. qCnt
    BY BeginsBounds
  <2> QED BY <2>1, BeginsBounds DEF Begins
<1>2. /\ Eaten(in) \in {0, 1} /\ Size(in) = avail - Eaten(in) /\ Size(in) <= avail'
      /\ avail' \in Nat /\ avail' <= FillT(in) /\ FillT(in) \in Nat
  BY NextPlaces, Kept DEF Size
<1>3. avail - Eaten(in) <= FillT(in)
  BY <1>1, <1>2
<1>4. Issued \in {0, 1} /\ (Issued = 1 <=> Issue)
  BY DescsMove
<1>5. CASE Takes(in)
  <2>1. /\ Held /\ ~Held' /\ Issued = 0 /\ left = 0 /\ Eaten(in) = 0
        /\ got' = head /\ left' = head.len
    BY <1>4, <1>5 DEF Takes, Latch
  <2>2. Lies(0, head.frame, 1, head.len)
    BY <2>1 DEF Framing, Laid
  <2>3. Ahead = head.len /\ head.len \in Nat
    BY <1>1, <2>1 DEF Ahead
  <2>4. LiesNext(0, head.frame, 1, head.len)
    <3>1. 0 = 0 + Eaten(in) /\ 0 + head.len <= FillT(in)
      BY <1>1, <1>2, <1>3, <2>1, <2>3
    <3> QED BY <2>2, <2>3, <3>1, LiesMove
  <2>5. got'.len - left' + 1 = 1
    BY <2>1, <2>3
  <2>6. Ahead' = left'
    <3>1. Ahead' = left' + (IF Held' THEN head'.len ELSE 0)
      BY DEF Ahead
    <3> QED BY <2>1, <2>3, <3>1
  <2> QED BY <1>1, <2>1, <2>3, <2>4, <2>5, <2>6
<1>6. CASE GoesOn(in)
  <2>0. PICK l \in Nat : left' = l /\ left = l + Eaten(in)
    <3>1. left - Eaten(in) \in Nat /\ left = left - Eaten(in) + Eaten(in) /\ left' = left - Eaten(in)
      BY <1>1, <1>2, <1>6 DEF GoesOn
    <3> QED BY <3>1
  <2>1. got' = got /\ Eaten(in) \in {0, 1} /\ left = l + Eaten(in) /\ l + Eaten(in) <= avail
        /\ avail - Eaten(in) <= FillT(in) /\ FillT(in) \in Nat
    <3>1. got' = got
      BY <1>6 DEF GoesOn
    <3>2. l + Eaten(in) <= avail
      BY <1>1, <2>0
    <3> QED BY <1>2, <1>3, <2>0, <3>1, <3>2
  <2>2. got.len \in Nat
    BY RingAssumption DEF Framing, Taken, Descriptor, NoDesc
  <2>3. LiesNext(0, got'.frame, got'.len - left' + 1, left')
    <3> DEFINE k == got.len - l + 1
    <3>1. Lies(Eaten(in), got.frame, k, l)
      <4> SUFFICES ASSUME NEW i \in 0 .. l - 1
                   PROVE  mem[Pos(Eaten(in) + i)] = << got.frame, k + i >>
        BY DEF Lies
      <4> DEFINE j == Eaten(in) + i
      <4>1. j \in 0 .. left - 1 /\ 0 + j = j /\ got.len - left + 1 + j = k + i
        <5> DEFINE g == got.len
                   n == left
                   e == Eaten(in)
        <5>1. g \in Nat /\ n \in Nat /\ e \in {0, 1} /\ n = l + e
          BY <1>1, <2>1, <2>2
        <5> HIDE DEF g, n, e
        <5>2. e + i \in 0 .. n - 1 /\ 0 + (e + i) = e + i /\ g - n + 1 + (e + i) = g - l + 1 + i
          BY <5>1
        <5> QED BY <5>2 DEF g, n, e
      <4>2. mem[Pos(0 + j)] = << got.frame, got.len - left + 1 + j >>
        BY <4>1 DEF Framing, Laid, Lies
      <4> QED BY <4>1, <4>2
    <3>2. Eaten(in) \in Int /\ 0 + l <= FillT(in) /\ k \in Int /\ Eaten(in) = 0 + Eaten(in)
      <4>1. l <= FillT(in)
        BY <1>1, <2>1
      <4> QED BY <2>1, <2>2, <4>1
    <3> HIDE DEF k
    <3>3. LiesNext(0, got.frame, k, l)
      BY <3>1, <3>2, LiesMove
    <3> QED BY <2>0, <2>1, <3>3 DEF k
  <2>4. CASE Held
    <3>1. ~Issue /\ Issued = 0 /\ Held' /\ head' = head /\ head.len \in Nat
      BY <1>1, <1>4, <1>6, <2>4 DEF GoesOn
    <3>2. Ahead = left + head.len
      BY <2>4 DEF Ahead
    <3>3. Ahead' = l + head.len
      <4>1. Ahead' = left' + (IF Held' THEN head'.len ELSE 0)
        BY DEF Ahead
      <4> QED BY <2>0, <3>1, <4>1
    <3>4. LiesNext(l, head.frame, 1, head.len)
      <4>1. Lies(left, head.frame, 1, head.len)
        BY <2>4 DEF Framing, Laid
      <4>2. l + head.len <= FillT(in)
        BY <1>1, <1>2, <1>3, <2>0, <3>1, <3>2
      <4> QED BY <1>1, <2>0, <3>1, <4>1, <4>2, LiesMove
    <3>5. st[Issued] - Eaten(in) = Ahead'
      <4>1. st[Issued] = l + Eaten(in) + head.len
        BY <1>1, <2>1, <3>1, <3>2
      <4> QED BY <2>1, <3>1, <3>3, <4>1
    <3> QED BY <2>0, <2>3, <3>1, <3>4, <3>5
  <2>5. CASE ~Held /\ ~Issue
    <3>1. ~Held' /\ Issued = 0
      BY <1>4, <1>6, <2>5 DEF GoesOn
    <3>2. Ahead = left /\ Ahead' = l
      <4>1. Ahead' = left' + (IF Held' THEN head'.len ELSE 0)
        BY DEF Ahead
      <4>2. Ahead = left
        BY <1>1, <2>5 DEF Ahead
      <4> QED BY <2>0, <3>1, <4>1, <4>2
    <3> QED BY <1>1, <1>2, <2>0, <2>3, <3>1, <3>2
  <2>6. CASE ~Held /\ Issue
    <3>1. Held' /\ Issued = 1 /\ head' = Desc(0) /\ qCnt > 0
      BY <1>4, <1>6, <2>6, HeadNext DEF GoesOn
    <3>2. Ahead = left /\ 0 \in 0 .. qCnt - 1 /\ 0 + 1 = 1
      BY <1>1, <2>6, <3>1 DEF Ahead
    <3>3. st[1] = left + Desc(0).len /\ Lies(left, Desc(0).frame, 1, Desc(0).len)
      BY <1>1, <3>2 DEF Begins
    <3>4. Desc(0).len \in Nat /\ st[1] \in Nat /\ st[1] <= avail
      <4>1. 1 \in 0 .. qCnt
        BY <1>1, <3>1
      <4> QED BY <3>2, <4>1, BeginsBounds
    <3>5. Ahead' = l + Desc(0).len
      <4>1. Ahead' = left' + (IF Held' THEN head'.len ELSE 0)
        BY DEF Ahead
      <4> QED BY <2>0, <3>1, <4>1
    <3>6. LiesNext(l, Desc(0).frame, 1, Desc(0).len)
      <4>1. l + Desc(0).len <= FillT(in)
        BY <1>1, <1>2, <1>3, <2>0, <3>3, <3>4
      <4> QED BY <1>1, <2>0, <3>3, <3>4, <4>1, LiesMove
    <3>7. st[Issued] - Eaten(in) = Ahead'
      <4>1. st[Issued] = l + Eaten(in) + Desc(0).len
        BY <2>1, <3>1, <3>3
      <4> QED BY <2>1, <3>4, <3>5, <4>1
    <3> QED BY <2>0, <2>3, <3>1, <3>6, <3>7
  <2> QED BY <2>4, <2>5, <2>6
<1> QED BY <1>5, <1>6, ReaderStep

(* A tick keeps every frame where the reader will look for it.               *)
LEMMA LaidStep ==
  ASSUME SpliceInv, Framing, NEW in \in Inputs, Clock(in)
  PROVE  Laid'
<1>1. PICK st \in [0 .. qCnt -> 0 .. avail] : Begins(st)
  BY DEF Framing, Laid
<1> DEFINE nb == NextBegins(in, st)
<1>2. /\ LiesNext(0, got'.frame, got'.len - left' + 1, left')
      /\ Held' => LiesNext(left', head'.frame, 1, head'.len)
      /\ nb[0] = Ahead'
  BY <1>1, ReaderLaid, QueueBegins
<1>3. /\ nb \in [0 .. qCnt' -> 0 .. avail'] /\ nb[qCnt'] = avail'
      /\ \A i, j \in 0 .. qCnt' : i <= j => nb[i] <= nb[j]
  BY <1>1, QueueBegins
<1>4. \A i \in 0 .. qCnt' - 1 :
        nb[i + 1] = nb[i] + DescNext(i).len /\ LiesNext(nb[i], DescNext(i).frame, 1, DescNext(i).len)
  BY <1>1, QueueLaid
<1> HIDE DEF nb
<1>5. \E s \in [0 .. qCnt' -> 0 .. avail'] :
        /\ s[0] = Ahead' /\ s[qCnt'] = avail'
        /\ \A i, j \in 0 .. qCnt' : i <= j => s[i] <= s[j]
        /\ \A i \in 0 .. qCnt' - 1 :
             s[i + 1] = s[i] + DescNext(i).len /\ LiesNext(s[i], DescNext(i).frame, 1, DescNext(i).len)
  BY <1>2, <1>3, <1>4
<1> QED BY <1>2, <1>5 DEF Laid, Begins, Lies, LiesNext, Pos, Desc, DescNext

LEMMA FramingReset == SpliceInv /\ Framing /\ AudioReset => Framing'
<1> SUFFICES ASSUME SpliceInv, Framing, AudioReset PROVE Framing'
  OBVIOUS
<1>0. /\ rd' = 0 /\ wr' = 0 /\ fill' = 0 /\ avail' = 0 /\ fsw' = 0 /\ curLen' = 0 /\ open' = FALSE
      /\ dWr' = 0 /\ dRd' = 0 /\ qCnt' = 0 /\ head' = NoDesc /\ ds' = "IDLE" /\ left' = 0 /\ got' = NoDesc
      /\ src' = src /\ enable' = enable /\ mem' = [a \in 0 .. ByteDepth - 1 |-> NoByte]
  BY DEF AudioReset, emu
<1>1. ByteRing'
  <2>1. (0 + 0) % ByteDepth = 0 /\ 0 \in 0 .. ByteDepth - 1
    BY Sizes
  <2>2. mem' \in [0 .. ByteDepth - 1 -> Nat \X Nat]
    BY <1>0 DEF NoByte
  <2> QED BY <1>0, <2>1, <2>2, Sizes DEF ByteRing, Pos
<1>2. InWork'
  BY <1>0 DEF InWork, Framing
<1>3. DescRing'
  <2>1. (0 + 0) % FrameDepth = 0
    BY RingAssumption
  <2> QED BY <1>0, <2>1, RingAssumption DEF DescRing
<1>4. Taken'
  BY <1>0 DEF Taken, NoDesc, Framing
<1>5. Laid'
  <2>1. ~Held' /\ Ahead' = 0
    BY <1>0 DEF Held, HeadV, Ahead
  <2> DEFINE s == [i \in 0 .. 0 |-> 0]
  <2>2. s \in [0 .. 0 -> 0 .. 0] /\ s[0] = 0 /\ (\A i, j \in 0 .. 0 : i <= j => s[i] <= s[j])
        /\ 0 .. 0 - 1 = {}
    OBVIOUS
  <2> HIDE DEF s
  <2>3. \E st \in [0 .. qCnt' -> 0 .. avail'] :
          /\ st[0] = Ahead' /\ st[qCnt'] = avail'
          /\ \A i, j \in 0 .. qCnt' : i <= j => st[i] <= st[j]
          /\ 0 .. qCnt' - 1 = {}
    BY <1>0, <2>1, <2>2
  <2> QED BY <1>0, <2>1, <2>3 DEF Laid, Begins, Lies, NoDesc
<1> QED BY <1>1, <1>2, <1>3, <1>4, <1>5 DEF Framing

(* The framing holds after every step, if Audio is switched between frames.  *)
LEMMA FramingInductive == Mutes = FALSE /\ SpliceInv /\ Framing /\ [Next]_vars => Framing'
<1> SUFFICES ASSUME Mutes = FALSE, SpliceInv, Framing, [Next]_vars PROVE Framing'
  OBVIOUS
<1>1. ASSUME NEW in \in Inputs, Clock(in) PROVE Framing'
  BY <1>1, ByteRingStep, InWorkStep, DescRingStep, TakenStep, LaidStep DEF Framing
<1>2. CASE AudioReset
  BY <1>2, FramingReset
<1>3. CASE UNCHANGED vars
  <2>1. /\ UNCHANGED << mem, wr, rd, fill, avail >> /\ UNCHANGED << fsw, curLen, cur, dropping, open, dropCnt >>
        /\ UNCHANGED << dmem, dWr, dRd, qCnt, head >> /\ UNCHANGED << ds, left, got >>
        /\ UNCHANGED << src, enable >>
    BY <1>3 DEF vars, bytes, frame, descs, reader, emu, past
  <2>2. ByteRing' /\ InWork' /\ DescRing' /\ Taken'
    BY <2>1 DEF Framing, ByteRing, InWork, DescRing, Taken, Pos, Lies, Desc, HeadV
  <2>3. Laid'
    BY <2>1 DEF Framing, Laid, Begins, Lies, Pos, Desc, Ahead, Held, HeadV, Pops
  <2> QED BY <2>2, <2>3 DEF Framing
<1> QED BY <1>1, <1>2, <1>3 DEF Next

LEMMA FramingReads == Framing => ReadsItsFrame
<1> SUFFICES ASSUME Framing, ds = "ROUTE" PROVE avail >= left /\ mem[rd] = << got.frame, got.len - left + 1 >>
  BY DEF ReadsItsFrame
<1>1. PICK st \in [0 .. qCnt -> 0 .. avail] : Begins(st)
  BY DEF Framing, Laid
<1>2. left <= avail /\ left \in Nat /\ left > 0 /\ got.len \in Nat
  <2>1. left <= Ahead /\ Ahead <= st[0] /\ st[0] <= avail /\ left \in Nat /\ Ahead \in Nat /\ st[0] \in Nat /\ avail \in Nat
    <3>1. 0 \in 0 .. qCnt
      BY <1>1, BeginsBounds
    <3> QED BY <1>1, <3>1, BeginsBounds
  <2>2. got.len \in Nat
    BY RingAssumption DEF Framing, Taken, Descriptor, NoDesc
  <2> QED BY <2>1, <2>2 DEF Framing, Taken
<1>3. mem[Pos(0 + 0)] = << got.frame, got.len - left + 1 + 0 >>
  <2>1. 0 \in 0 .. left - 1
    BY <1>2
  <2> QED BY <2>1 DEF Framing, Laid, Lies
<1>4. Pos(0 + 0) = rd
  <2>1. rd \in 0 .. ByteDepth - 1 /\ ByteDepth \in Nat \ {0} /\ rd + (0 + 0) = rd
    BY Sizes DEF Framing, ByteRing
  <2> QED BY <2>1, Around DEF Pos
<1>5. got.len - left + 1 + 0 = got.len - left + 1
  BY <1>2
<1> QED BY <1>2, <1>3, <1>4, <1>5

LEMMA FramingAlways == ASSUME Mutes = FALSE PROVE Spec => [](SpliceInv /\ Framing)
<1>1. Init => SpliceInv /\ Framing
  BY SpliceInit, FramingInit
<1>2. SpliceInv /\ Framing /\ [Next]_vars => (SpliceInv /\ Framing)'
  BY SpliceInductive, FramingInductive
<1> QED BY <1>1, <1>2, PTL DEF Spec

(* While Audio is switched between frames only, the byte offered to the       *)
(* decoder is the next one of the frame whose descriptor it took, and the     *)
(* rest of that frame is there.                                              *)
THEOREM FramesAreRead == ASSUME Mutes = FALSE PROVE Spec => []ReadsItsFrame
  BY FramingAlways, FramingReads, PTL

(***************************************************************************)
(* The ring with its dispatcher is a queue of whole frames.                  *)
(***************************************************************************)
LEMMA FirstOfSeq ==
  ASSUME NEW S, NEW h \in S, NEW s \in Seq(S)
  PROVE  /\ << h >> \o s \in Seq(S) /\ << h >> \o s # << >>
         /\ Head(<< h >> \o s) = h /\ Tail(<< h >> \o s) = s
  OBVIOUS

LEMMA LastOfSeq ==
  ASSUME NEW S, NEW h \in S, NEW s \in Seq(S), NEW f \in S
  PROVE  << h >> \o Append(s, f) = Append(<< h >> \o s, f)
  OBVIOUS

LEMMA HeadAndTail ==
  ASSUME NEW S, NEW s \in Seq(S), s # << >>
  PROVE  << s[1] >> \o Tail(s) = s /\ Tail(s) \in Seq(S)
  OBVIOUS

LEMMA SameSeq ==
  ASSUME NEW S, NEW s \in Seq(S), NEW t \in Seq(S), Len(s) = Len(t),
         \A i \in 1 .. Len(s) : s[i] = t[i]
  PROVE  s = t
  OBVIOUS

New == [frame |-> cur, len |-> curLen]

Listed ==
  /\ Resident \in Seq(Descriptor) /\ Len(Resident) = qCnt /\ qCnt \in Nat
  /\ \A i \in 1 .. qCnt : Resident[i] = Desc(i - 1)
LEMMA ResidentIs == SpliceInv /\ Framing => Listed
<1> SUFFICES ASSUME SpliceInv, Framing PROVE Listed
  OBVIOUS
<1>1. qCnt \in Nat /\ \A i \in 0 .. qCnt - 1 : Desc(i) \in Descriptor
  BY RingAssumption DEF Framing, DescRing
<1>2. ASSUME NEW i \in 1 .. qCnt PROVE Resident[i] = Desc(i - 1)
  <2>1. dRd + i - 1 = dRd + (i - 1)
    BY <1>1 DEF SpliceInv, Descs
  <2> QED BY <2>1 DEF Resident, Desc
<1>3. \A i \in 1 .. qCnt : Resident[i] \in Descriptor
  <2>1. \A i \in 1 .. qCnt : i - 1 \in 0 .. qCnt - 1
    BY <1>1
  <2> QED BY <1>1, <1>2, <2>1
<1>4. Resident = [i \in 1 .. qCnt |-> Resident[i]]
  BY DEF Resident
<1> HIDE DEF Resident
<1> QED BY <1>1, <1>2, <1>3, <1>4 DEF Listed

(* What a tick does to the descriptors in the ring.                           *)
LEMMA ResidentStep ==
  ASSUME SpliceInv, Framing, Listed', NEW in \in Inputs, Clock(in)
  PROVE  /\ Resident \in Seq(Descriptor) /\ (Issue => Resident # << >> /\ Resident[1] = Desc(0))
         /\ ~Issue /\ ~Commit(in) => Resident' = Resident
         /\ ~Issue /\ Commit(in) => Resident' = Append(Resident, New)
         /\ Issue /\ ~Commit(in) => Resident' = Tail(Resident)
         /\ Issue /\ Commit(in) => Resident' = Append(Tail(Resident), New)
<1>1. /\ Resident \in Seq(Descriptor) /\ Len(Resident) = qCnt /\ qCnt \in Nat
      /\ \A i \in 1 .. qCnt : Resident[i] = Desc(i - 1)
  BY ResidentIs DEF Listed
<1>2. /\ Resident' \in Seq(Descriptor) /\ Len(Resident') = qCnt' /\ qCnt' \in Nat
      /\ \A i \in 1 .. qCnt' : Resident'[i] = DescNext(i - 1)
  BY DEF Listed, Desc, DescNext
<1>3. /\ Issued \in {0, 1} /\ (Issued = 1 <=> Issue) /\ Issued <= qCnt
      /\ qCnt' = qCnt - Issued + (IF Commit(in) THEN 1 ELSE 0)
      /\ \A i \in 0 .. qCnt - Issued - 1 : DescNext(i) = Desc(i + Issued)
      /\ Commit(in) => DescNext(qCnt - Issued) = New /\ New \in Descriptor
  BY DescsMove, Committed DEF New
<1>4. ASSUME NEW i \in 1 .. qCnt', i <= qCnt - Issued PROVE Resident'[i] = Resident[i + Issued]
  <2>1. i - 1 \in 0 .. qCnt - Issued - 1 /\ i - 1 + Issued = i + Issued - 1 /\ i + Issued \in 1 .. qCnt
    BY <1>1, <1>2, <1>3, <1>4
  <2> QED BY <1>1, <1>2, <1>3, <2>1
<1>5. Commit(in) => Resident'[qCnt'] = New /\ qCnt' = qCnt - Issued + 1
  <2> SUFFICES ASSUME Commit(in) PROVE Resident'[qCnt'] = New /\ qCnt' = qCnt - Issued + 1
    OBVIOUS
  <2>1. qCnt' = qCnt - Issued + 1 /\ qCnt' - 1 = qCnt - Issued /\ qCnt' \in 1 .. qCnt'
    BY <1>1, <1>2, <1>3
  <2> QED BY <1>2, <1>3, <2>1
<1> DEFINE r == Resident
           s == Resident'
           q == qCnt
           m == qCnt'
           is == Issued
<1>6. /\ r \in Seq(Descriptor) /\ Len(r) = q /\ q \in Nat /\ s \in Seq(Descriptor) /\ Len(s) = m /\ m \in Nat
      /\ is \in {0, 1} /\ (is = 1 <=> Issue) /\ is <= q /\ (Commit(in) => New \in Descriptor)
      /\ m = q - is + (IF Commit(in) THEN 1 ELSE 0)
      /\ \A i \in 1 .. m : i <= q - is => s[i] = r[i + is]
      /\ Commit(in) => s[m] = New
  BY <1>1, <1>2, <1>3, <1>4, <1>5
<1>7. Issue => r # << >> /\ r[1] = Desc(0)
  <2> SUFFICES ASSUME Issue PROVE r # << >> /\ r[1] = Desc(0)
    OBVIOUS
  <2>1. q > 0 /\ 1 \in 1 .. q /\ 1 - 1 = 0
    BY <1>6
  <2> QED BY <1>1, <1>6, <2>1
<1> HIDE DEF r, s, q, m, is, New
<1>8. CASE ~Issue /\ ~Commit(in)
  <2>1. Len(s) = Len(r) /\ \A i \in 1 .. Len(s) : s[i] = r[i]
    BY <1>6, <1>8
  <2>2. s = r
    BY <1>6, <2>1, SameSeq
  <2> QED BY <1>6, <1>8, <2>2 DEF r, s
<1>9. CASE ~Issue /\ Commit(in)
  <2>1. Append(r, New) \in Seq(Descriptor) /\ Len(s) = Len(Append(r, New))
    BY <1>6, <1>9
  <2>2. \A i \in 1 .. Len(s) : s[i] = Append(r, New)[i]
    BY <1>6, <1>9
  <2>3. s = Append(r, New)
    BY <1>6, <2>1, <2>2, SameSeq
  <2> QED BY <1>6, <1>9, <2>3 DEF r, s
<1>10. CASE Issue /\ ~Commit(in)
  <2>1. Tail(r) \in Seq(Descriptor) /\ Len(s) = Len(Tail(r))
    BY <1>6, <1>7, <1>10
  <2>2. \A i \in 1 .. Len(s) : s[i] = Tail(r)[i]
    BY <1>6, <1>7, <1>10
  <2>3. s = Tail(r)
    BY <1>6, <2>1, <2>2, SameSeq
  <2> QED BY <1>6, <1>7, <1>10, <2>3 DEF r, s
<1>11. CASE Issue /\ Commit(in)
  <2>1. /\ Append(Tail(r), New) \in Seq(Descriptor) /\ Len(s) = Len(Append(Tail(r), New))
    BY <1>6, <1>7, <1>11
  <2>2. \A i \in 1 .. Len(s) : s[i] = Append(Tail(r), New)[i]
    BY <1>6, <1>7, <1>11
  <2>3. s = Append(Tail(r), New)
    BY <1>6, <2>1, <2>2, SameSeq
  <2> QED BY <1>6, <1>7, <1>11, <2>3 DEF r, s
<1> QED BY <1>8, <1>9, <1>10, <1>11

(* A frame that is committed came after all those that wait or are read.      *)
LEMMA CommitNewer ==
  ASSUME SpliceInv, Framing, NEW in \in Inputs, Clock(in), Commit(in)
  PROVE  /\ New \in Descriptor /\ New.frame > got.frame
         /\ Waiting \in Seq(Descriptor) /\ \A i \in DOMAIN Waiting : New.frame > Waiting[i].frame
<1>1. New \in Descriptor
  BY Committed DEF New
<1>2. New.frame = src[1] /\ src[1] \in Nat /\ src[1] > 0
  BY DEF New, Commit, Fin, SpliceInv, WriterTypes
<1>3. ASSUME NEW f, Clean(f) PROVE src[1] > f
  BY <1>2, <1>3 DEF Clean
<1>4. src[1] > got.frame /\ src[1] > head.frame
  BY <1>3 DEF SpliceInv, CleanDescs
<1>5. \A a \in 0 .. FrameDepth - 1 : src[1] > dmem[a].frame
  BY <1>3 DEF SpliceInv, CleanDescs
<1>6. /\ Resident \in Seq(Descriptor) /\ Len(Resident) = qCnt /\ qCnt \in Nat
      /\ \A i \in 1 .. qCnt : Resident[i] = Desc(i - 1)
  BY ResidentIs DEF Listed
<1>7. ASSUME NEW i \in 1 .. qCnt PROVE src[1] > Resident[i].frame
  <2>1. (dRd + (i - 1)) % FrameDepth \in 0 .. FrameDepth - 1
    <3>1. dRd + (i - 1) \in Int /\ FrameDepth \in Nat \ {0}
      BY <1>6, RingAssumption DEF SpliceInv, Descs
    <3> QED BY <3>1, Remainder
  <2> QED BY <1>5, <1>6, <2>1 DEF Desc
<1>8. CASE Held
  <2>1. Waiting = << head >> \o Resident /\ head \in Descriptor
    BY <1>8 DEF Waiting, Held, HeadV, Framing, DescRing
  <2> DEFINE r == Resident
             q == qCnt
             n == src[1]
  <2>2. r \in Seq(Descriptor) /\ Len(r) = q /\ q \in Nat /\ \A i \in 1 .. q : n > r[i].frame
    BY <1>6, <1>7
  <2>3. n > head.frame
    BY <1>4
  <2> HIDE DEF r, q, n
  <2>4. << head >> \o r \in Seq(Descriptor) /\ \A i \in DOMAIN (<< head >> \o r) : n > (<< head >> \o r)[i].frame
    BY <2>1, <2>2, <2>3
  <2> QED BY <1>1, <1>2, <1>4, <2>1, <2>4 DEF r, n
<1>9. CASE ~Held
  <2>1. Waiting = Resident
    BY <1>6, <1>9 DEF Waiting, Held
  <2> QED BY <1>1, <1>2, <1>4, <1>6, <1>7, <2>1
<1> QED BY <1>8, <1>9

(* The line of those that wait: the first is taken or none, and one that is    *)
(* committed comes last.                                                     *)
LEMMA LineStep ==
  ASSUME SpliceInv, Framing, Framing', Listed', NEW in \in Inputs, Clock(in)
  PROVE  /\ Takes(in) => /\ Waiting # << >> /\ Head(Waiting) = head
                         /\ ~Commit(in) => Waiting' = Tail(Waiting)
                         /\ Commit(in) => Waiting' = Append(Tail(Waiting), New)
         /\ GoesOn(in) => /\ ~Commit(in) => Waiting' = Waiting
                          /\ Commit(in) => Waiting' = Append(Waiting, New)
<1>1. /\ Resident \in Seq(Descriptor) /\ (Issue => Resident # << >> /\ Resident[1] = Desc(0))
      /\ ~Issue /\ ~Commit(in) => Resident' = Resident
      /\ ~Issue /\ Commit(in) => Resident' = Append(Resident, New)
      /\ Issue /\ ~Commit(in) => Resident' = Tail(Resident)
      /\ Issue /\ Commit(in) => Resident' = Append(Tail(Resident), New)
  BY ResidentStep
<1>2. Commit(in) => New \in Descriptor
  BY CommitNewer
<1>3. Held => Waiting = << head >> \o Resident /\ head \in Descriptor
  BY DEF Waiting, Held, HeadV, Framing, DescRing
<1>4. ~Held => Waiting = Resident
  BY <1>1 DEF Waiting, Held
<1>5. Resident' \in Seq(Descriptor)
  BY DEF Listed
<1>6. Held' => Waiting' = << head' >> \o Resident'
  BY DEF Waiting, Held
<1>7. ~Held' => Waiting' = Resident'
  BY <1>5 DEF Waiting, Held
<1> DEFINE r == Resident
           s == Resident'
           w == Waiting
           z == Waiting'
<1>8. ASSUME Takes(in)
      PROVE  /\ w # << >> /\ Head(w) = head
             /\ ~Commit(in) => z = Tail(w)
             /\ Commit(in) => z = Append(Tail(w), New)
  <2>1. Held /\ ~Held' /\ ~Issue
    BY <1>8 DEF Takes
  <2>2. w = << head >> \o r /\ head \in Descriptor /\ r \in Seq(Descriptor) /\ z = s
    BY <1>1, <1>3, <1>7, <2>1
  <2>3. w # << >> /\ Head(w) = head /\ Tail(w) = r
    <3> HIDE DEF w, r
    <3> QED BY <2>2, FirstOfSeq
  <2> QED BY <1>1, <2>1, <2>2, <2>3
<1>9. ASSUME GoesOn(in)
      PROVE  (~Commit(in) => z = w) /\ (Commit(in) => z = Append(w, New))
  <2>1. CASE Held
    <3>1. ~Issue /\ Held' /\ head' = head
      BY <1>9, <2>1 DEF GoesOn
    <3>2. w = << head >> \o r /\ head \in Descriptor /\ z = << head >> \o s /\ r \in Seq(Descriptor)
      BY <1>1, <1>3, <1>6, <2>1, <3>1
    <3>3. (~Commit(in) => s = r) /\ (Commit(in) => s = Append(r, New))
      BY <1>1, <3>1
    <3> HIDE DEF w, z, r, s, New
    <3>4. Commit(in) => << head >> \o Append(r, New) = Append(<< head >> \o r, New)
      BY <1>2, <1>3, <2>1, <3>2, LastOfSeq
    <3> QED BY <3>2, <3>3, <3>4
  <2>2. CASE ~Held /\ ~Issue
    <3>1. ~Held'
      BY <1>9, <2>2 DEF GoesOn
    <3> QED BY <1>1, <1>4, <1>7, <2>2, <3>1
  <2>3. CASE ~Held /\ Issue
    <3>1. Held' /\ head' = Desc(0)
      BY <1>9, <2>3, HeadNext DEF GoesOn
    <3>2. w = r /\ z = << r[1] >> \o s /\ r \in Seq(Descriptor) /\ r # << >>
      BY <1>1, <1>4, <1>6, <2>3, <3>1
    <3>3. (~Commit(in) => s = Tail(r)) /\ (Commit(in) => s = Append(Tail(r), New))
      BY <1>1, <2>3
    <3>4. r[1] \in Descriptor
      <4> HIDE DEF r
      <4> QED BY <3>2
    <3> HIDE DEF w, z, r, s, New
    <3>5. << r[1] >> \o Tail(r) = r /\ Tail(r) \in Seq(Descriptor)
      BY <3>2, HeadAndTail
    <3>6. Commit(in) => << r[1] >> \o Append(Tail(r), New) = Append(r, New)
      BY <1>2, <3>4, <3>5, LastOfSeq
    <3> QED BY <3>2, <3>3, <3>5, <3>6
  <2> QED BY <2>1, <2>2, <2>3
<1> QED BY <1>8, <1>9

(* A clock edge of the ring and its dispatcher is one of the queue.          *)
LEMMA TickIsTick ==
  ASSUME SpliceInv, Framing, Framing', Listed', NEW in \in Inputs, Clock(in)
  PROVE  Frames!Tick
<1>1. Commit(in) => New \in Descriptor /\ Frames!Newer(New)
  BY CommitNewer DEF Frames!Newer
<1>2. CASE Takes(in)
  <2>1. left = 0 /\ got' = head /\ left' = head.len
    BY <1>2 DEF Takes, Latch
  <2>2. /\ Waiting # << >> /\ Head(Waiting) = head
        /\ ~Commit(in) => Waiting' = Tail(Waiting)
        /\ Commit(in) => Waiting' = Append(Tail(Waiting), New)
    BY <1>2, LineStep
  <2>3. Frames!Writes(Tail(Waiting))
    BY <1>1, <2>2 DEF Frames!Writes, Descriptor
  <2> QED BY <2>1, <2>2, <2>3 DEF Frames!Tick
<1>3. CASE GoesOn(in)
  <2>1. got' = got /\ (left' = left \/ (left > 0 /\ left' = left - 1))
    <3>1. got' = got /\ left' = left - Eaten(in)
      BY <1>3 DEF GoesOn
    <3>2. Eaten(in) \in {0, 1} /\ (Eaten(in) = 1 => left > 0) /\ left \in Int
      BY Eating DEF Framing, Taken
    <3> QED BY <3>1, <3>2
  <2>2. /\ ~Commit(in) => Waiting' = Waiting
        /\ Commit(in) => Waiting' = Append(Waiting, New)
    BY <1>3, LineStep
  <2>3. Frames!Writes(Waiting)
    BY <1>1, <2>2 DEF Frames!Writes, Descriptor
  <2> QED BY <2>1, <2>3 DEF Frames!Tick
<1> QED BY <1>2, <1>3, ReaderStep

LEMMA FramesInit == Init => Frames!Init
<1> SUFFICES ASSUME Init PROVE Frames!Init
  OBVIOUS
<1>1. head = NoDesc /\ qCnt = 0 /\ got = NoDesc /\ left = 0
  BY DEF Init, RingEmpty
<1>2. Resident = << >>
  BY <1>1 DEF Resident
<1> QED BY <1>1, <1>2 DEF Frames!Init, Frames!None, Waiting, HeadV, NoDesc

(* A reset is the queue's flush.                                             *)
LEMMA FramesReset == AudioReset => Frames!Flush
<1> SUFFICES ASSUME AudioReset PROVE Frames!Flush
  OBVIOUS
<1>1. head' = NoDesc /\ qCnt' = 0 /\ got' = NoDesc /\ left' = 0
  BY DEF AudioReset
<1>2. Resident' = << >>
  BY <1>1 DEF Resident
<1> QED BY <1>1, <1>2 DEF Frames!Flush, Frames!None, Waiting, HeadV, NoDesc

LEMMA FramesStep ==
  ASSUME SpliceInv, Framing, Framing', Listed', [Next]_vars
  PROVE  [Frames!Next]_<< Waiting, got, left >>
<1>1. ASSUME NEW in \in Inputs, Clock(in) PROVE Frames!Next
  BY <1>1, TickIsTick DEF Frames!Next
<1>2. CASE AudioReset
  BY <1>2, FramesReset DEF Frames!Next
<1>3. CASE UNCHANGED vars
  BY <1>3 DEF vars, descs, reader, Waiting, Resident, HeadV, Pops
<1> QED BY <1>1, <1>2, <1>3 DEF Next

(* The reader is given whole frames in the order in which they came, and each *)
(* of their bytes once: however bytes come and go, frames are cut, dropped or *)
(* flushed, every step is one of AudioQueue or none.                         *)
THEOREM ImplementsAudioQueue == ASSUME Mutes = FALSE PROVE Spec => AsQueue
<1>1. SpliceInv /\ Framing => Listed
  BY ResidentIs
<1>2. SpliceInv /\ Framing /\ Framing' /\ Listed' /\ [Next]_vars => [Frames!Next]_<< Waiting, got, left >>
  BY FramesStep
<1> QED BY <1>1, <1>2, FramingAlways, FramesInit, PTL DEF Spec, AsQueue, Frames!Spec

====
