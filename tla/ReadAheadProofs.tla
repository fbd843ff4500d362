--------------------------- MODULE ReadAheadProofs ---------------------------
(***************************************************************************)
(* Proofs about ReadAhead, for every size of the ring, the bursts, the      *)
(* window and the source that satisfies the assumptions of ReadAhead.       *)
(***************************************************************************)
EXTENDS ReadAhead, TLAPS

(***************************************************************************)
(* The inductive invariant.  Beside the properties of ReadAhead it says     *)
(* what each thread knows between its steps.                                *)
(***************************************************************************)

(* The window the worker is about to append is right. *)
TmpRight ==
  wpc = "store" /\ ~Moved => \A i \in 0 .. wN - 1 : tmp[i] \in Allowed(wHead + i)

(* The read in flight lies within the source; single retries read one sector. *)
ReadInSource ==
  /\ InFlight => wHead + wN <= Total
  /\ wpc \in {"retry", "pause", "reread"} => wN = 1
  /\ wpc \in {"pause", "reread"} => wTries < Retries

(* moves counts the retargets the worker has not seen, gen modulo GenMod.   *)
(* The ring is empty while there are any.  Each but the last was ended by a *)
(* reset of the core; the last is for the request the core still holds.     *)
SeeksCounted ==
  /\ InFlight => gen = IF wGen + moves < GenMod THEN wGen + moves
                                                ELSE wGen + moves - GenMod
  /\ moves > 0 => fill = 0
  /\ moves <= resets + 1
  /\ moves = resets + 1 /\ ~stopReq =>
       /\ ppc = "idle" /\ request = base /\ request < Total /\ ~WindowHit(request)

(* A read already late is not repeated. *)
LateReads ==
  /\ InFlight /\ ~Moved => late = 0
  /\ wpc \in {"claim", "burst", "pause", "reread"} => late = 0

(* The life cycle of the threads. *)
LifeCycle ==
  /\ ~running => wpc = "exit" /\ ppc = "idle"
  /\ running => (stopReq <=> ppc = "join")
  /\ running /\ wpc = "exit" => stopReq
  /\ ~running \/ ppc = "join" => request = None

(* What the poll thread knows inside a pass.  The window it may prefetch    *)
(* next starts inside the ring's run or just past it: never a seek.         *)
PassState ==
  /\ ppc = "read" => request \in Nat
  /\ ppc = "prefetch" /\ winLba # None /\ winLba + Window < Total =>
       base <= winLba + Window /\ winLba + Window <= base + fill

(* Control is inductive on its own; Data needs Control. *)
Control ==
  /\ TypeOK /\ InFlightContiguous /\ ReadANeverMisses /\ AtMostOneLateRead
  /\ ReadInSource /\ SeeksCounted /\ LateReads /\ LifeCycle /\ PassState
Data == RingCoherent /\ WindowRight /\ TmpRight
IInv == Control /\ Data

(***************************************************************************)
(* The slots of a run no longer than the ring are distinct.                 *)
(***************************************************************************)
LEMMA SlotType == \A l \in Nat : Slot(l) \in 0 .. Cap - 1
  BY SizesAssumption DEF Slot

LEMMA Euclid == \A l \in Nat : \E q \in Nat : l = Cap * q + Slot(l)
  <1> TAKE l \in Nat
  <1>1. l \div Cap \in Nat BY SizesAssumption
  <1>2. l = Cap * (l \div Cap) + (l % Cap) BY SizesAssumption
  <1> QED BY <1>1, <1>2 DEF Slot

LEMMA Distribute == \A c, p, q \in Int : c * p - c * q = c * (p - q)
  OBVIOUS

LEMMA SmallMultiple ==
  ASSUME NEW c \in Nat \ {0}, NEW k \in Int, 0 <= c * k, c * k < c
  PROVE  k = 0
  OBVIOUS

LEMMA SlotsDistinct ==
  ASSUME NEW a \in Nat, NEW b \in Nat, a <= b, b - a < Cap, Slot(a) = Slot(b)
  PROVE  a = b
  <1>1. PICK p \in Nat : a = Cap * p + Slot(a) BY Euclid
  <1>2. PICK q \in Nat : b = Cap * q + Slot(b) BY Euclid
  <1>3. Cap * q \in Int /\ Cap * p \in Int /\ Slot(a) \in Int
        BY SlotType, SizesAssumption
  <1>4. b - a = Cap * q - Cap * p BY <1>1, <1>2, <1>3
  <1>5. b - a = Cap * (q - p) BY <1>4, Distribute, SizesAssumption
  <1>6. q - p = 0 BY <1>5, SmallMultiple, SizesAssumption
  <1>7. Cap * (q - p) = 0 BY <1>6, SizesAssumption
  <1> QED BY <1>5, <1>7

(* After copy_in the new sectors are in their slots and the rest of a run   *)
(* that fits in the ring is untouched.                                      *)
LEMMA CopyInEffect ==
  ASSUME NEW b \in Nat, NEW f \in Nat, NEW n \in Nat, f + n <= Cap, CopyIn(b + f, n)
  PROVE  /\ \A i \in 0 .. n - 1 : ring'[Slot(b + f + i)] = tmp[i]
         /\ \A l \in b .. b + f - 1 : ring'[Slot(l)] = ring[Slot(l)]
  <1> DEFINE h == b + f
             src(s) == CHOOSE i \in 0 .. n - 1 : Slot(h + i) = s
  <1>1. ASSUME NEW i \in 0 .. n - 1 PROVE ring'[Slot(h + i)] = tmp[i]
    <2> DEFINE s == Slot(h + i)
               j == src(s)
    <2>1. s \in 0 .. Cap - 1 BY SlotType
    <2>2. \E k \in 0 .. n - 1 : Slot(h + k) = s OBVIOUS
    <2>3. ring'[s] = tmp[j] BY <2>1, <2>2 DEF CopyIn
    <2>4. j \in 0 .. n - 1 /\ Slot(h + j) = s BY <2>2
    <2> HIDE DEF j
    <2>5. h + j = h + i
      <3>1. CASE j <= i BY <3>1, <2>4, SlotsDistinct, SizesAssumption
      <3>2. CASE i <= j BY <3>2, <2>4, SlotsDistinct, SizesAssumption
      <3> QED BY <3>1, <3>2, <2>4
    <2>6. j = i BY <2>5, <2>4
    <2> QED BY <2>3, <2>6
  <1>2. ASSUME NEW l \in b .. b + f - 1 PROVE ring'[Slot(l)] = ring[Slot(l)]
    <2>1. Slot(l) \in 0 .. Cap - 1 BY SlotType
    <2>2. ASSUME NEW i \in 0 .. n - 1, Slot(h + i) = Slot(l) PROVE FALSE
      <3>1. l \in Nat /\ h + i \in Nat /\ l <= h + i /\ h + i - l < Cap
            BY SizesAssumption
      <3>2. l = h + i BY <3>1, <2>2, SlotsDistinct
      <3> QED BY <3>2
    <2> QED BY <2>1, <2>2 DEF CopyIn
  <1> QED BY <1>1, <1>2

(***************************************************************************)
(* The control part.                                                        *)
(***************************************************************************)
LEMMA ControlInit == Init => Control
  <1> SUFFICES ASSUME Init PROVE Control OBVIOUS
  <1> USE DEF Init, InFlight
  <1>1. TypeOK
    <2>1. Junk \in Contents /\ Zero \in Contents BY DEF Contents
    <2>2. ring \in [0 .. Cap - 1 -> Contents] BY <2>1
    <2>3. tmp \in [0 .. Burst - 1 -> Contents] BY <2>1
    <2>4. win \in [0 .. Window - 1 -> Contents] BY <2>1
    <2>5. answer \in [lba : Nat \union {None}, data : Contents] BY <2>1
    <2>6. fill \in 0 .. Cap /\ base + fill <= Total /\ gen \in 0 .. GenMod - 1
          BY SizesAssumption
    <2>7. wN \in 1 .. Burst /\ wGen \in 0 .. GenMod - 1 /\ wTries \in 0 .. Retries
          BY SizesAssumption
    <2>8. moves \in 0 .. GenMod - 1 /\ resets \in 0 .. Resets BY SizesAssumption
    <2> QED BY <2>2, <2>3, <2>4, <2>5, <2>6, <2>7, <2>8 DEF TypeOK
  <1>2. InFlightContiguous /\ ReadInSource /\ SeeksCounted
        BY DEF InFlightContiguous, ReadInSource, SeeksCounted
  <1>3. AtMostOneLateRead /\ LateReads BY DEF AtMostOneLateRead, LateReads
  <1>4. ReadANeverMisses /\ LifeCycle /\ PassState
        BY DEF ReadANeverMisses, LifeCycle, PassState
  <1> QED BY <1>1, <1>2, <1>3, <1>4 DEF Control

(* A successful read types tmp and gives up only on sectors of the source. *)
LEMMA ReadIntoType ==
  ASSUME TypeOK, NEW n \in 1 .. Burst, wHead + n <= Total, ReadInto(n)
  PROVE  /\ tmp' \in [0 .. Burst - 1 -> Contents]
         /\ holes' \subseteq Sectors /\ holes \subseteq holes'
  <1>1. wHead \in Sectors BY SizesAssumption DEF TypeOK, Sectors
  <1>2. PICK r \in Reads(wHead, n) :
          /\ tmp' = [i \in 0 .. Burst - 1 |-> IF i < n THEN r[i] ELSE tmp[i]]
          /\ holes' = holes \union {l \in Sectors : /\ l - wHead \in 0 .. n - 1
                                                    /\ r[l - wHead] = Zero}
        BY DEF ReadInto
  <1>3. r \in [0 .. n - 1 -> Contents] BY <1>1, SourceAssumption
  <1> QED BY <1>2, <1>3, SizesAssumption DEF TypeOK

LEMMA WDecideControl == Control /\ WDecide => Control'
  <1> SUFFICES ASSUME Control, WDecide PROVE Control' OBVIOUS
  <1> USE SizesAssumption DEF WDecide, InFlight, ringVars, pollVars
  <1>1. TypeOK' /\ ReadInSource'
        BY DEF Control, TypeOK, ReadInSource, NextRead, Lesser
  <1>2. InFlightContiguous'
        BY DEF Control, TypeOK, InFlightContiguous, NextRead, Lesser
  <1>3. SeeksCounted' BY DEF Control, TypeOK, SeeksCounted
  <1>4. AtMostOneLateRead' /\ LateReads'
        BY DEF Control, AtMostOneLateRead, LateReads
  <1>5. ReadANeverMisses' /\ LifeCycle' /\ PassState'
        BY DEF Control, ReadANeverMisses, LifeCycle, PassState, InRing, End, Lesser
  <1> QED BY <1>1, <1>2, <1>3, <1>4, <1>5 DEF Control

LEMMA WClaimControl == Control /\ WClaim => Control'
  <1> SUFFICES ASSUME Control, WClaim PROVE Control' OBVIOUS
  <1> USE DEF WClaim, InFlight, ringVars, pollVars, history, Moved
  <1>1. TypeOK' /\ ReadInSource' BY DEF Control, TypeOK, ReadInSource
  <1>2. InFlightContiguous' /\ SeeksCounted'
        BY DEF Control, InFlightContiguous, SeeksCounted, WindowHit
  <1>3. AtMostOneLateRead' /\ LateReads'
        BY DEF Control, AtMostOneLateRead, LateReads
  <1>4. ReadANeverMisses' /\ LifeCycle' /\ PassState'
        BY DEF Control, ReadANeverMisses, LifeCycle, PassState, InRing, End, Lesser
  <1> QED BY <1>1, <1>2, <1>3, <1>4 DEF Control

LEMMA WBurstControl == Control /\ WBurst => Control'
  <1> SUFFICES ASSUME Control, WBurst PROVE Control' OBVIOUS
  <1> USE DEF WBurst, InFlight, ringVars, pollVars, Moved
  <1>1. TypeOK'
    <2>1. wN \in 1 .. Burst /\ wHead + wN <= Total BY DEF Control, TypeOK, ReadInSource
    <2>2. tmp' \in [0 .. Burst - 1 -> Contents] /\ holes' \subseteq Sectors
      <3>1. CASE ReadInto(wN) BY <2>1, <3>1, ReadIntoType DEF Control
      <3>2. CASE UNCHANGED << tmp, holes >> BY <3>2 DEF Control, TypeOK
      <3> QED BY <3>1, <3>2
    <2>3. wN' \in 1 .. Burst /\ wTries' \in 0 .. Retries
          BY SizesAssumption DEF Control, TypeOK
    <2>4. late' \in Nat BY DEF Control, TypeOK, LateRead
    <2>5. srcBusy' \in BOOLEAN /\ wpc' \in {"store", "retry"} BY DEF Control, TypeOK
    <2> QED BY <2>2, <2>3, <2>4, <2>5 DEF Control, TypeOK
  <1>2. ReadInSource' /\ InFlightContiguous' /\ SeeksCounted'
    <2>1. \/ UNCHANGED wN /\ wpc' = "store"
          \/ wN' = 1 /\ wpc' = "retry"
          OBVIOUS
    <2>2. UNCHANGED << base, fill, gen, stopReq, wHead, wGen >> OBVIOUS
    <2>3. ReadInSource'
          BY <2>1, <2>2, SizesAssumption DEF Control, TypeOK, ReadInSource
    <2>4. InFlightContiguous'
          BY <2>1, <2>2, SizesAssumption DEF Control, TypeOK, InFlightContiguous
    <2>5. SeeksCounted' BY DEF Control, SeeksCounted, WindowHit
    <2> QED BY <2>3, <2>4, <2>5
  <1>3. AtMostOneLateRead' /\ LateReads'
        BY DEF Control, AtMostOneLateRead, LateReads, LateRead
  <1>4. ReadANeverMisses' /\ LifeCycle' /\ PassState'
        BY DEF Control, ReadANeverMisses, LifeCycle, PassState, InRing, End, Lesser
  <1> QED BY <1>1, <1>2, <1>3, <1>4 DEF Control

LEMMA WRetryControl == Control /\ WRetry => Control'
  <1> SUFFICES ASSUME Control, WRetry PROVE Control' OBVIOUS
  <1> USE DEF WRetry, InFlight, ringVars, pollVars, Moved, KeepTrying
  <1>1. TypeOK'
    <2>1. Zero \in Contents BY DEF Contents
    <2>2. tmp' \in [0 .. Burst - 1 -> Contents] BY <2>1 DEF Control, TypeOK
    <2>3. wHead \in Sectors BY SizesAssumption DEF Control, TypeOK, ReadInSource, Sectors
    <2> QED BY <2>2, <2>3 DEF Control, TypeOK
  <1>2. ReadInSource' /\ InFlightContiguous' /\ SeeksCounted'
        BY SizesAssumption
        DEF Control, TypeOK, ReadInSource, InFlightContiguous, SeeksCounted, WindowHit
  <1>3. AtMostOneLateRead' /\ LateReads'
        BY DEF Control, AtMostOneLateRead, LateReads
  <1>4. ReadANeverMisses' /\ LifeCycle' /\ PassState'
        BY DEF Control, ReadANeverMisses, LifeCycle, PassState, InRing, End, Lesser
  <1> QED BY <1>1, <1>2, <1>3, <1>4 DEF Control

LEMMA WResumeControl == Control /\ WResume => Control'
  <1> SUFFICES ASSUME Control, WResume PROVE Control' OBVIOUS
  <1> USE DEF WResume, InFlight, ringVars, pollVars, history, Moved
  <1>1. TypeOK' /\ ReadInSource' BY DEF Control, TypeOK, ReadInSource
  <1>2. InFlightContiguous' /\ SeeksCounted'
        BY DEF Control, InFlightContiguous, SeeksCounted, WindowHit
  <1>3. AtMostOneLateRead' /\ LateReads'
        BY DEF Control, AtMostOneLateRead, LateReads
  <1>4. ReadANeverMisses' /\ LifeCycle' /\ PassState'
        BY DEF Control, ReadANeverMisses, LifeCycle, PassState, InRing, End, Lesser
  <1> QED BY <1>1, <1>2, <1>3, <1>4 DEF Control

LEMMA WRereadControl == Control /\ WReread => Control'
  <1> SUFFICES ASSUME Control, WReread PROVE Control' OBVIOUS
  <1> USE DEF WReread, InFlight, ringVars, pollVars, Moved
  <1>1. TypeOK'
    <2>1. 1 \in 1 .. Burst /\ wHead + 1 <= Total
          BY SizesAssumption DEF Control, TypeOK, ReadInSource
    <2>2. tmp' \in [0 .. Burst - 1 -> Contents] /\ holes' \subseteq Sectors
      <3>1. CASE ReadInto(1) BY <2>1, <3>1, ReadIntoType DEF Control
      <3>2. CASE UNCHANGED << tmp, holes >> BY <3>2 DEF Control, TypeOK
      <3> QED BY <3>1, <3>2
    <2>3. wTries' \in 0 .. Retries BY SizesAssumption DEF Control, TypeOK, ReadInSource
    <2>4. late' \in Nat BY DEF Control, TypeOK, LateRead
    <2>5. srcBusy' \in BOOLEAN /\ wpc' \in {"store", "retry"} BY DEF Control, TypeOK
    <2> QED BY <2>2, <2>3, <2>4, <2>5 DEF Control, TypeOK
  <1>2. ReadInSource' /\ InFlightContiguous' /\ SeeksCounted'
        BY DEF Control, TypeOK, ReadInSource, InFlightContiguous, SeeksCounted, WindowHit
  <1>3. AtMostOneLateRead' /\ LateReads'
        BY DEF Control, AtMostOneLateRead, LateReads, LateRead
  <1>4. ReadANeverMisses' /\ LifeCycle' /\ PassState'
        BY DEF Control, ReadANeverMisses, LifeCycle, PassState, InRing, End, Lesser
  <1> QED BY <1>1, <1>2, <1>3, <1>4 DEF Control

LEMMA WStoreControl == Control /\ WStore => Control'
  <1> SUFFICES ASSUME Control, WStore PROVE Control' OBVIOUS
  <1> USE DEF WStore, InFlight, pollVars, history, Moved
  <1>1. TypeOK'
    <2>1. ring' \in [0 .. Cap - 1 -> Contents]
      <3>1. CASE UNCHANGED ring BY <3>1 DEF Control, TypeOK
      <3>2. CASE CopyIn(wHead, wN)
        <4>1. \A i \in 0 .. wN - 1 : tmp[i] \in Contents
              BY SizesAssumption DEF Control, TypeOK
        <4>2. \A s \in 0 .. Cap - 1 : ring[s] \in Contents BY DEF Control, TypeOK
        <4>3. ASSUME NEW s \in 0 .. Cap - 1, \E i \in 0 .. wN - 1 : Slot(wHead + i) = s
              PROVE  tmp[CHOOSE i \in 0 .. wN - 1 : Slot(wHead + i) = s] \in Contents
              BY <4>1, <4>3
        <4> QED BY <3>2, <4>2, <4>3 DEF CopyIn
      <3> QED BY <3>1, <3>2
    <2>2. fill' \in 0 .. Cap /\ base' + fill' <= Total
          BY SizesAssumption DEF Control, TypeOK, InFlightContiguous
    <2> QED BY <2>1, <2>2 DEF Control, TypeOK
  <1>2. ReadInSource' /\ InFlightContiguous' /\ SeeksCounted'
    <2>1. moves > 0 => wGen # gen
      <3>1. gen = IF wGen + moves < GenMod THEN wGen + moves ELSE wGen + moves - GenMod
            BY DEF Control, SeeksCounted
      <3>2. wGen \in 0 .. GenMod - 1 /\ moves \in 0 .. GenMod - 1 /\ GenMod \in Nat
            BY SizesAssumption DEF Control, TypeOK
      <3> HIDE DEF WStore, Moved, InFlight
      <3> QED BY <3>1, <3>2
    <2>2. moves > 0 => fill' = 0 BY <2>1 DEF Control, SeeksCounted
    <2> QED BY <2>2 DEF Control, ReadInSource, InFlightContiguous, SeeksCounted, WindowHit
  <1>3. AtMostOneLateRead' /\ LateReads'
        BY DEF Control, AtMostOneLateRead, LateReads
  <1>4. ReadANeverMisses' /\ LifeCycle' /\ PassState'
        BY SizesAssumption DEF Control, TypeOK, ReadANeverMisses, LifeCycle, PassState,
                               InRing, End, Lesser
  <1> QED BY <1>1, <1>2, <1>3, <1>4 DEF Control

(***************************************************************************)
(* The poll thread.  Advance keeps the head where it is.                    *)
(***************************************************************************)
LEMMA AdvanceEffect ==
  ASSUME TypeOK, NEW end \in Nat, end <= base + fill + Slack, Advance(end)
  PROVE  /\ base' \in Nat /\ fill' \in 0 .. Cap /\ base' + fill' = base + fill
         /\ base' >= base /\ (end <= base + fill /\ end >= base => base' <= end)
         /\ wpc' \in {wpc, "loop"} /\ (wpc # "parked" => wpc' = wpc)
  BY SizesAssumption DEF TypeOK, Advance, Lesser, Broadcast

LEMMA AskControl == ASSUME NEW l \in 0 .. Total PROVE Control /\ Ask(l) => Control'
  <1> SUFFICES ASSUME Control, Ask(l) PROVE Control' OBVIOUS
  <1> USE DEF Ask, InFlight, ringVars, workerVars, history, Moved
  <1>1. TypeOK' /\ ReadInSource'
        BY SizesAssumption DEF Control, TypeOK, ReadInSource
  <1>2. InFlightContiguous' BY DEF Control, InFlightContiguous
  <1>3. SeeksCounted' BY SizesAssumption DEF Control, TypeOK, SeeksCounted, None
  <1>4. AtMostOneLateRead' /\ LateReads'
        BY DEF Control, AtMostOneLateRead, LateReads
  <1>5. ReadANeverMisses' /\ LifeCycle' /\ PassState'
        BY SizesAssumption DEF Control, ReadANeverMisses, LifeCycle, PassState
  <1> QED BY <1>1, <1>2, <1>3, <1>4, <1>5 DEF Control

LEMMA WithdrawControl == Control /\ Withdraw => Control'
  <1> SUFFICES ASSUME Control, Withdraw PROVE Control' OBVIOUS
  <1> USE DEF Withdraw, InFlight, ringVars, workerVars, Moved
  <1>1. TypeOK' /\ ReadInSource'
    <2>1. resets' \in 0 .. Resets BY SizesAssumption DEF Control, TypeOK
    <2> QED BY <2>1 DEF Control, TypeOK, ReadInSource
  <1>2. InFlightContiguous' BY DEF Control, InFlightContiguous
  <1>3. SeeksCounted'
    <2>1. moves \in Nat /\ resets \in Nat /\ moves <= resets + 1
          BY SizesAssumption DEF Control, TypeOK, SeeksCounted
    <2>2. moves' <= resets' + 1 /\ ~(moves' = resets' + 1) BY <2>1
    <2> QED BY <2>2 DEF Control, SeeksCounted
  <1>4. AtMostOneLateRead' /\ LateReads'
        BY DEF Control, AtMostOneLateRead, LateReads
  <1>5. ReadANeverMisses' /\ LifeCycle' /\ PassState'
        BY DEF Control, ReadANeverMisses, LifeCycle, PassState
  <1> QED BY <1>1, <1>2, <1>3, <1>4, <1>5 DEF Control

LEMMA StartControl == Control /\ Start => Control'
  <1> SUFFICES ASSUME Control, Start PROVE Control' OBVIOUS
  <1> USE DEF Start, InFlight, Moved
  <1>1. TypeOK'
    <2>1. Junk \in Contents BY DEF Contents
    <2>2. ring' \in [0 .. Cap - 1 -> Contents] BY <2>1
    <2>3. tmp' \in [0 .. Burst - 1 -> Contents] BY <2>1
    <2>4. base' + fill' <= Total /\ fill' \in 0 .. Cap /\ gen' \in 0 .. GenMod - 1
          BY SizesAssumption
    <2>5. /\ exhausted' \subseteq Sectors /\ holes' \subseteq Sectors
          /\ moves' \in 0 .. GenMod - 1 /\ resets' \in 0 .. Resets
          BY SizesAssumption
    <2> QED BY <2>2, <2>3, <2>4, <2>5 DEF Control, TypeOK, None
  <1>2. ReadInSource' /\ InFlightContiguous' /\ SeeksCounted'
        BY DEF ReadInSource, InFlightContiguous, SeeksCounted
  <1>3. AtMostOneLateRead' /\ LateReads' BY DEF AtMostOneLateRead, LateReads
  <1>4. ReadANeverMisses' /\ LifeCycle' /\ PassState'
        BY DEF ReadANeverMisses, LifeCycle, PassState
  <1> QED BY <1>1, <1>2, <1>3, <1>4 DEF Control

LEMMA StopControl == Control /\ Stop => Control'
  <1> SUFFICES ASSUME Control, Stop PROVE Control' OBVIOUS
  <1> USE DEF Stop, Broadcast, InFlight, history, Moved
  <1>1. TypeOK' /\ ReadInSource' BY DEF Control, TypeOK, ReadInSource
  <1>2. InFlightContiguous' /\ SeeksCounted'
        BY DEF Control, InFlightContiguous, SeeksCounted
  <1>3. AtMostOneLateRead' /\ LateReads'
        BY DEF Control, AtMostOneLateRead, LateReads
  <1>4. ReadANeverMisses' /\ LifeCycle' /\ PassState'
        BY DEF ReadANeverMisses, LifeCycle, PassState
  <1> QED BY <1>1, <1>2, <1>3, <1>4 DEF Control

LEMMA JoinedControl == Control /\ Joined => Control'
  <1> SUFFICES ASSUME Control, Joined PROVE Control' OBVIOUS
  <1> USE DEF Joined, InFlight, history, Moved
  <1>1. TypeOK'
    <2>1. Junk \in Contents BY DEF Contents
    <2>2. ring' \in [0 .. Cap - 1 -> Contents] BY <2>1
    <2>3. tmp' \in [0 .. Burst - 1 -> Contents] BY <2>1
    <2> QED BY <2>2, <2>3 DEF Control, TypeOK
  <1>2. ReadInSource' /\ InFlightContiguous' /\ SeeksCounted'
        BY DEF Control, LifeCycle, ReadInSource, InFlightContiguous, SeeksCounted
  <1>3. AtMostOneLateRead' /\ LateReads'
        BY DEF Control, AtMostOneLateRead, LateReads
  <1>4. ReadANeverMisses' /\ LifeCycle' /\ PassState'
        BY DEF Control, ReadANeverMisses, LifeCycle, PassState
  <1> QED BY <1>1, <1>2, <1>3, <1>4 DEF Control

LEMMA GenMoves ==
  ASSUME NEW g \in 0 .. GenMod - 1
  PROVE  (g + 1) % GenMod = IF g + 1 < GenMod THEN g + 1 ELSE g + 1 - GenMod
  <1>1. CASE g + 1 < GenMod
    <2>1. (g + 1) % GenMod = g + 1 BY <1>1, SizesAssumption
    <2> QED BY <2>1, <1>1, SizesAssumption
  <1>2. CASE g + 1 = GenMod
    <2>1. (g + 1) % GenMod = 0 BY <1>2, SizesAssumption
    <2> QED BY <2>1, <1>2, SizesAssumption
  <1> QED BY <1>1, <1>2, SizesAssumption

(* What freeing room behind the consumer does to the control part: the head *)
(* stays where it is, so a read in flight still appends there.              *)
LEMMA SlideControl ==
  ASSUME Control, NEW end \in Nat, end <= base + fill + Slack,
         Advance(end) \/ UNCHANGED << base, fill, wpc >>,
         UNCHANGED << gen, stopReq, wHead, wN, wGen, wTries, late >>
  PROVE  /\ base' \in Nat /\ fill' \in 0 .. Cap /\ base' + fill' = base + fill
         /\ base' >= base /\ (end <= base + fill /\ end >= base => base' <= end)
         /\ wpc' \in {"loop", "parked", "claim", "burst", "retry", "pause", "reread",
                      "store", "exit"}
         /\ wpc' \in {wpc, "loop"} /\ (wpc # "parked" => wpc' = wpc)
         /\ InFlight' => InFlight /\ wpc' = wpc
         /\ ReadInSource' /\ InFlightContiguous' /\ AtMostOneLateRead' /\ LateReads'
         /\ fill = 0 => fill' = 0
  <1>1. /\ base' \in Nat /\ fill' \in 0 .. Cap /\ base' + fill' = base + fill
        /\ base' >= base /\ (end <= base + fill /\ end >= base => base' <= end)
        /\ wpc' \in {wpc, "loop"} /\ (wpc # "parked" => wpc' = wpc)
    <2>1. CASE Advance(end) BY <2>1, AdvanceEffect DEF Control
    <2>2. CASE UNCHANGED << base, fill, wpc >> BY <2>2 DEF Control, TypeOK
    <2> QED BY <2>1, <2>2
  <1>2. fill' \in 0 .. fill
        BY SizesAssumption DEF Control, TypeOK, Advance, Lesser
  <1>3. wpc' \in {"loop", "parked", "claim", "burst", "retry", "pause", "reread",
                  "store", "exit"}
        BY <1>1 DEF Control, TypeOK
  <1>4. InFlight' => InFlight /\ wpc' = wpc BY <1>1 DEF InFlight
  <1>5. ReadInSource'
        BY <1>1, SizesAssumption DEF Control, TypeOK, ReadInSource, InFlight
  <1>6. InFlightContiguous'
    <2> SUFFICES ASSUME InFlight', ~Moved'
                 PROVE  wHead = base' + fill' /\ fill' + wN <= Cap /\ wHead + wN <= Total
                 BY DEF InFlightContiguous
    <2>1. wHead = base + fill /\ fill + wN <= Cap /\ wHead + wN <= Total
          BY <1>4 DEF Control, InFlightContiguous, Moved
    <2>2. fill \in Nat /\ wN \in Nat /\ Cap \in Nat
          BY SizesAssumption DEF Control, TypeOK
    <2>3. \A f \in 0 .. fill : f + wN <= Cap BY <2>1, <2>2
    <2>4. fill' + wN <= Cap BY <2>3, <1>2
    <2> QED BY <2>1, <2>4, <1>1
  <1>7. AtMostOneLateRead' /\ LateReads'
        BY <1>1, <1>4 DEF Control, AtMostOneLateRead, LateReads, InFlight, Moved
  <1>8. fill = 0 => fill' = 0
    <2>1. fill = 0 => \A f \in 0 .. fill : f = 0 OBVIOUS
    <2> QED BY <2>1, <1>2
  <1> QED BY <1>1, <1>3, <1>4, <1>5, <1>6, <1>7, <1>8

(* A seek moves gen away from that of a read in flight and leaves it away.  *)
LEMMA RetargetMoves ==
  ASSUME Control, ~stopReq, request \in Nat, FarFrom(request), Retarget(request)
  PROVE  /\ moves' = moves + 1 /\ moves' \in 1 .. GenMod - 1 /\ moves' <= resets + 1
         /\ gen' \in 0 .. GenMod - 1
         /\ InFlight => gen' = IF wGen + moves' < GenMod THEN wGen + moves'
                                                        ELSE wGen + moves' - GenMod
         /\ InFlight => wGen # gen'
  <1> DEFINE k == moves + 1
  <1>1. moves \in Nat /\ resets \in Nat /\ k <= resets + 1 /\ k \in 1 .. GenMod - 1
    <2>1. ~(moves = resets + 1)
          BY SizesAssumption DEF Control, TypeOK, SeeksCounted, FarFrom
    <2> QED BY <2>1, SizesAssumption DEF Control, TypeOK, SeeksCounted
  <1>2. moves' = k BY DEF Retarget
  <1>3. gen' = IF gen + 1 < GenMod THEN gen + 1 ELSE gen + 1 - GenMod
        BY GenMoves DEF Control, TypeOK, Retarget
  <1>4. /\ gen \in 0 .. GenMod - 1 /\ wGen \in 0 .. GenMod - 1 /\ GenMod \in Nat
        /\ GenMod >= 2
        BY SizesAssumption DEF Control, TypeOK
  <1>5. InFlight => gen = IF wGen + moves < GenMod THEN wGen + moves
                                                   ELSE wGen + moves - GenMod
        BY DEF Control, SeeksCounted
  <1>6. InFlight => gen' = IF wGen + k < GenMod THEN wGen + k ELSE wGen + k - GenMod
        BY <1>1, <1>3, <1>4, <1>5
  <1>7. InFlight => wGen # gen' BY <1>1, <1>4, <1>6
  <1>8. gen' \in 0 .. GenMod - 1 BY <1>3, <1>4
  <1> QED BY <1>1, <1>2, <1>6, <1>7, <1>8

(* A deferred request: either the first look at a seek, or one on its way.  *)
LEMMA DeferControl ==
  ASSUME Control, running, ppc = "idle", request # None, ~WindowHit(request),
         ~Ready(request), Miss(request),
         UNCHANGED << stopReq, ring, wHead, wN, wGen, wTries, tmp, srcBusy,
                      pollVars, history >>
  PROVE  Control'
  <1> USE DEF pollVars, history
  <1>1. /\ request \in Nat /\ request < Total /\ ~InRing(request) /\ ~stopReq
        /\ wHead \in Nat /\ wN \in Nat /\ base \in Nat /\ fill \in Nat
        BY SizesAssumption DEF Control, TypeOK, Ready, LifeCycle, None
  <1>2. CASE FarFrom(request) /\ Retarget(request)
    <2>1. /\ moves' = moves + 1 /\ moves' \in 1 .. GenMod - 1 /\ moves' <= resets + 1
          /\ gen' \in 0 .. GenMod - 1
          /\ InFlight => gen' = IF wGen + moves' < GenMod THEN wGen + moves'
                                                         ELSE wGen + moves' - GenMod
          /\ InFlight => wGen # gen'
          BY <1>1, <1>2, RetargetMoves
    <2>2. /\ base' = request /\ fill' = 0 /\ wpc' \in {wpc, "loop"}
          /\ wpc # "parked" => wpc' = wpc
          BY <1>2 DEF Retarget, Broadcast
    <2>4. TypeOK'
      <3>1. wpc' \in {"loop", "parked", "claim", "burst", "retry", "pause", "reread",
                      "store", "exit"}
            BY <2>2 DEF Control, TypeOK
      <3>2. fill' \in 0 .. Cap /\ base' \in Nat /\ base' + fill' <= Total
            BY <2>2, <1>1, SizesAssumption
      <3>3. moves' \in 0 .. GenMod - 1 BY <2>1
      <3> QED BY <3>1, <3>2, <3>3, <2>1 DEF Control, TypeOK
    <2>5. InFlight' => InFlight /\ wpc' = wpc BY <2>2 DEF InFlight
    <2>8. ReadInSource' /\ InFlightContiguous'
      <3>1. ReadInSource'
            BY <2>2, SizesAssumption DEF Control, TypeOK, ReadInSource, InFlight
      <3>2. InFlightContiguous' BY <2>1, <2>5 DEF InFlightContiguous, Moved
      <3> QED BY <3>1, <3>2
    <2>9. SeeksCounted'
      <3> QED BY <1>1, <2>1, <2>2, <2>5 DEF SeeksCounted, WindowHit
    <2>10. AtMostOneLateRead' /\ LateReads'
           BY <2>1, <2>2, <2>5
           DEF Control, AtMostOneLateRead, LateReads, InFlight, Moved
    <2>11. ReadANeverMisses' /\ LifeCycle' /\ PassState'
           BY <2>2 DEF Control, ReadANeverMisses, LifeCycle, PassState
    <2> QED BY <2>4, <2>8, <2>9, <2>10, <2>11 DEF Control
  <1>3. CASE ~FarFrom(request) /\ Advance(request) /\ UNCHANGED << gen, moves >>
    <2>1. request <= base + fill + Slack BY <1>1, <1>3, SizesAssumption DEF FarFrom
    <2>2. /\ base' \in Nat /\ fill' \in 0 .. Cap /\ base' + fill' = base + fill
          /\ wpc' \in {"loop", "parked", "claim", "burst", "retry", "pause", "reread",
                       "store", "exit"}
          /\ wpc' \in {wpc, "loop"} /\ (wpc # "parked" => wpc' = wpc)
          /\ InFlight' => InFlight /\ wpc' = wpc
          /\ ReadInSource' /\ InFlightContiguous' /\ AtMostOneLateRead' /\ LateReads'
          BY <1>1, <1>3, <2>1, SlideControl
    <2>3. base' + fill' <= Total BY <2>2 DEF Control, TypeOK
    <2>4. TypeOK' BY <2>2, <2>3, <1>3 DEF Control, TypeOK
    <2>5. SeeksCounted'
      <3>1. fill = 0 => base' = base /\ fill' = 0
            BY <1>1, <1>3, SizesAssumption DEF Advance, Lesser
      <3>2. moves > 0 => fill = 0 BY DEF Control, SeeksCounted
      <3>3. moves = resets + 1 => moves > 0
            BY SizesAssumption DEF Control, TypeOK
      <3> QED BY <3>1, <3>2, <3>3, <2>2, <1>3 DEF Control, SeeksCounted, WindowHit
    <2>6. ReadANeverMisses' /\ LifeCycle' /\ PassState'
           BY <2>2 DEF Control, ReadANeverMisses, LifeCycle, PassState
    <2> QED BY <2>2, <2>4, <2>5, <2>6 DEF Control
  <1> QED BY <1>2, <1>3 DEF Miss

LEMMA PollCheckControl == Control /\ PollCheck => Control'
  <1> SUFFICES ASSUME Control, PollCheck PROVE Control' OBVIOUS
  <1>1. request \in Nat /\ ~stopReq
        BY DEF Control, TypeOK, LifeCycle, PollCheck, None
  <1>2. CASE /\ WindowHit(request) /\ Reply(win[request - winLba])
             /\ UNCHANGED << base, fill, gen, moves, wpc, ppc >>
    <2> USE <1>2 DEF PollCheck, Reply, history
    <2>1. ~(moves = resets + 1) BY <1>1 DEF Control, SeeksCounted
    <2>2. TypeOK'
      <3>1. request - winLba \in 0 .. Window - 1
            BY <1>1, SizesAssumption DEF Control, TypeOK, WindowHit, None
      <3>2. win[request - winLba] \in Contents BY <3>1 DEF Control, TypeOK
      <3>3. answer' \in [lba : Nat \union {None}, data : Contents] BY <1>1, <3>2
      <3>4. UNCHANGED << base, fill, gen, moves, stopReq, ring, wpc, wHead, wN, wGen,
                         wTries, tmp, srcBusy, running, ppc, winLba, win, exhausted,
                         holes, late, resets >>
            OBVIOUS
      <3>5. request' = None OBVIOUS
      <3> HIDE <1>2 DEF PollCheck, Reply
      <3> QED BY <3>3, <3>4, <3>5 DEF Control, TypeOK
    <2>3. ReadInSource' /\ InFlightContiguous'
          BY DEF Control, ReadInSource, InFlightContiguous, InFlight, Moved
    <2>4. SeeksCounted' BY <2>1 DEF Control, SeeksCounted, InFlight
    <2>5. AtMostOneLateRead' /\ LateReads'
          BY DEF Control, AtMostOneLateRead, LateReads, InFlight, Moved
    <2>6. ReadANeverMisses' /\ LifeCycle' /\ PassState'
          BY DEF Control, ReadANeverMisses, LifeCycle, PassState
    <2> QED BY <2>2, <2>3, <2>4, <2>5, <2>6 DEF Control
  <1>3. CASE /\ ~WindowHit(request) /\ Ready(request) /\ ppc' = "read"
             /\ UNCHANGED << base, fill, gen, moves, wpc, request, answer >>
    <2> USE <1>3 DEF PollCheck, history
    <2>1. ~(moves = resets + 1)
          BY <1>1, SizesAssumption
          DEF Control, TypeOK, SeeksCounted, Ready, InRing, End, Lesser
    <2>2. TypeOK' /\ ReadInSource' /\ InFlightContiguous'
          BY DEF Control, TypeOK, ReadInSource, InFlightContiguous, InFlight, Moved
    <2>3. SeeksCounted' BY <2>1 DEF Control, SeeksCounted, InFlight
    <2>4. AtMostOneLateRead' /\ LateReads'
          BY DEF Control, AtMostOneLateRead, LateReads, InFlight, Moved
    <2>5. ReadANeverMisses' BY DEF ReadANeverMisses, Ready, InRing, End, Lesser
    <2>6. LifeCycle' /\ PassState' BY <1>1 DEF Control, LifeCycle, PassState
    <2> QED BY <2>2, <2>3, <2>4, <2>5, <2>6 DEF Control
  <1>4. CASE /\ ~WindowHit(request) /\ ~Ready(request) /\ Miss(request)
             /\ UNCHANGED << ppc, request, answer >>
        BY <1>4, DeferControl DEF PollCheck, pollVars, history
  <1> QED BY <1>2, <1>3, <1>4 DEF PollCheck

LEMMA CopyOutType ==
  ASSUME TypeOK, NEW l \in Nat
  PROVE  CopyOut(l) \in [0 .. Window - 1 -> Contents]
  <1>1. Zero \in Contents BY DEF Contents
  <1>2. ASSUME NEW i \in 0 .. Window - 1 PROVE ring[Slot(l + i)] \in Contents
    <2>1. Slot(l + i) \in 0 .. Cap - 1 BY SlotType, SizesAssumption
    <2> QED BY <2>1 DEF TypeOK
  <1> QED BY <1>1, <1>2 DEF CopyOut

LEMMA PollReadControl == Control /\ PollRead => Control'
  <1> SUFFICES ASSUME Control, PollRead PROVE Control' OBVIOUS
  <1>1. /\ ppc = "read" /\ request \in Nat /\ (request >= Total \/ InRing(request))
        /\ running /\ ~stopReq
        BY DEF PollRead, Control, PassState, ReadANeverMisses, LifeCycle, TypeOK
  <1>2. /\ win' = CopyOut(request) /\ winLba' = request
        /\ answer' = [lba |-> request, data |-> CopyOut(request)[0]] /\ request' = None
        /\ IF request < Total THEN Advance(End(request)) ELSE UNCHANGED << base, fill, wpc >>
        /\ ppc' = "prefetch" /\ UNCHANGED << gen, moves >>
        /\ UNCHANGED << stopReq, ring, wHead, wN, wGen, wTries, tmp, srcBusy, running,
                        exhausted, holes, late, resets >>
        BY <1>1 DEF PollRead, Served, Reply, history
  <1>3. ~(moves = resets + 1) BY <1>1 DEF Control, SeeksCounted
  <1>4. request < Total =>
          /\ End(request) \in Nat /\ base <= request /\ request < End(request)
          /\ End(request) <= base + fill /\ End(request) <= request + Window
        BY <1>1, SizesAssumption DEF Control, TypeOK, InRing, End, Lesser
  <1>5. PICK e \in Nat : /\ e <= base + fill
                         /\ request < Total => e = End(request)
                         /\ Advance(e) \/ UNCHANGED << base, fill, wpc >>
    <2>1. CASE request < Total BY <2>1, <1>2, <1>4
    <2>2. CASE ~(request < Total) BY <2>2, <1>2 DEF Control, TypeOK
    <2> QED BY <2>1, <2>2
  <1>6. /\ base' \in Nat /\ fill' \in 0 .. Cap /\ base' + fill' = base + fill
        /\ base' >= base /\ (e <= base + fill /\ e >= base => base' <= e)
        /\ wpc' \in {"loop", "parked", "claim", "burst", "retry", "pause", "reread",
                     "store", "exit"}
        /\ wpc' \in {wpc, "loop"} /\ (wpc # "parked" => wpc' = wpc)
        /\ InFlight' => InFlight /\ wpc' = wpc
        /\ ReadInSource' /\ InFlightContiguous' /\ AtMostOneLateRead' /\ LateReads'
        /\ fill = 0 => fill' = 0
    <2>1. e <= base + fill + Slack BY <1>5, SizesAssumption DEF Control, TypeOK
    <2> QED BY <2>1, <1>2, <1>5, SlideControl
  <1>7. TypeOK'
    <2>1. win' \in [0 .. Window - 1 -> Contents] BY <1>1, <1>2, CopyOutType DEF Control
    <2>2. answer' \in [lba : Nat \union {None}, data : Contents]
      <3>1. 0 \in 0 .. Window - 1 BY SizesAssumption
      <3> QED BY <2>1, <3>1, <1>1, <1>2
    <2>3. base' + fill' <= Total BY <1>6 DEF Control, TypeOK
    <2> QED BY <2>1, <2>2, <2>3, <1>1, <1>2, <1>6 DEF Control, TypeOK
  <1>8. SeeksCounted'
    <2>1. fill = 0 => fill' = 0 BY <1>6
    <2> QED BY <2>1, <1>2, <1>3, <1>6 DEF Control, SeeksCounted
  <1>9. ReadANeverMisses' /\ LifeCycle'
        BY <1>1, <1>2, <1>6 DEF Control, ReadANeverMisses, LifeCycle
  <1>10. PassState'
    <2> SUFFICES ASSUME request + Window < Total
                 PROVE  base' <= request + Window /\ request + Window <= base' + fill'
                 BY <1>2 DEF PassState
    <2>1. request < Total BY <1>1, SizesAssumption
    <2>2. End(request) = request + Window BY <1>1, SizesAssumption DEF End, Lesser
    <2>3. e = request + Window BY <2>1, <2>2, <1>5
    <2>4. base <= e /\ e <= base + fill
          BY <2>1, <2>3, <1>1, <1>4, <1>5, SizesAssumption DEF Control, TypeOK
    <2>5. base' <= e BY <2>4, <1>6
    <2> QED BY <2>3, <2>4, <2>5, <1>6
  <1> QED BY <1>6, <1>7, <1>8, <1>9, <1>10 DEF Control

LEMMA PrefetchControl == Control /\ Prefetch => Control'
  <1> SUFFICES ASSUME Control, Prefetch PROVE Control' OBVIOUS
  <1> DEFINE l == winLba + Window
  <1>1. ppc = "prefetch" /\ running /\ ~stopReq
        BY DEF Prefetch, Control, LifeCycle, TypeOK
  <1>2. ~(moves = resets + 1) BY <1>1 DEF Control, SeeksCounted
  <1>3. /\ ppc' = "idle"
        /\ UNCHANGED << stopReq, ring, wHead, wN, wGen, wTries, tmp, srcBusy, running,
                        request, answer, exhausted, holes, late, resets >>
        BY DEF Prefetch, history
  <1>4. /\ winLba' \in Nat \union {None} /\ win' \in [0 .. Window - 1 -> Contents]
        /\ UNCHANGED << gen, moves >>
        /\ \E e \in Nat : /\ e <= base + fill + Slack
                          /\ Advance(e) \/ UNCHANGED << base, fill, wpc >>
    <2>0. 0 <= base + fill + Slack BY SizesAssumption DEF Control, TypeOK
    <2>1. CASE UNCHANGED << base, fill, gen, moves, wpc, winLba, win >>
          BY <2>0, <2>1 DEF Control, TypeOK
    <2>2. CASE winLba # None /\ Served(l)
      <3>1. l \in Nat BY <2>2, SizesAssumption DEF Control, TypeOK
      <3>2. winLba' \in Nat \union {None} /\ win' \in [0 .. Window - 1 -> Contents]
            BY <2>2, <3>1, CopyOutType DEF Served, Control
      <3>3. CASE l < Total
        <4>1. InRing(l) BY <2>2, <3>1, <3>3, SizesAssumption DEF Served
        <4>2. End(l) \in Nat /\ End(l) <= base + fill + Slack
              BY <4>1, <3>1, <3>3, SizesAssumption DEF Control, TypeOK, InRing, End, Lesser
        <4> QED BY <2>2, <3>2, <3>3, <4>2 DEF Served
      <3>4. CASE ~(l < Total)
            BY <2>0, <2>2, <3>2, <3>4 DEF Served
      <3> QED BY <3>3, <3>4
    <2>3. CASE /\ winLba # None /\ l < Total /\ ~InRing(l) /\ Miss(l)
               /\ winLba' = None /\ win' = [i \in 0 .. Window - 1 |-> Zero]
      <3>1. l \in Nat BY <2>3, SizesAssumption DEF Control, TypeOK
      <3>2. base <= l /\ l <= base + fill BY <2>3, <1>1 DEF Control, PassState
      <3>3. ~FarFrom(l) /\ l <= base + fill + Slack
            BY <3>1, <3>2, SizesAssumption DEF Control, TypeOK, FarFrom
      <3>4. Advance(l) /\ UNCHANGED << gen, moves >> BY <2>3, <3>3 DEF Miss
      <3>5. win' \in [0 .. Window - 1 -> Contents] BY <2>3 DEF Contents
      <3> QED BY <2>3, <3>1, <3>3, <3>4, <3>5
    <2> QED BY <2>1, <2>2, <2>3 DEF Prefetch
  <1>5. PICK e \in Nat : /\ e <= base + fill + Slack
                         /\ Advance(e) \/ UNCHANGED << base, fill, wpc >>
        BY <1>4
  <1>6. /\ base' \in Nat /\ fill' \in 0 .. Cap /\ base' + fill' = base + fill
        /\ base' >= base
        /\ wpc' \in {"loop", "parked", "claim", "burst", "retry", "pause", "reread",
                     "store", "exit"}
        /\ wpc' \in {wpc, "loop"} /\ (wpc # "parked" => wpc' = wpc)
        /\ InFlight' => InFlight /\ wpc' = wpc
        /\ ReadInSource' /\ InFlightContiguous' /\ AtMostOneLateRead' /\ LateReads'
        /\ fill = 0 => fill' = 0
        BY <1>3, <1>4, <1>5, SlideControl
  <1>7. TypeOK'
    <2>1. base' + fill' <= Total BY <1>6 DEF Control, TypeOK
    <2> QED BY <2>1, <1>3, <1>4, <1>6 DEF Control, TypeOK
  <1>8. SeeksCounted'
    <2>1. fill = 0 => fill' = 0 BY <1>6
    <2> QED BY <2>1, <1>2, <1>3, <1>4, <1>6 DEF Control, SeeksCounted
  <1>9. ReadANeverMisses' /\ LifeCycle' /\ PassState'
        BY <1>1, <1>3, <1>6 DEF Control, ReadANeverMisses, LifeCycle, PassState
  <1> QED BY <1>6, <1>7, <1>8, <1>9 DEF Control

LEMMA ControlStep == Control /\ [Next]_vars => Control'
  <1> SUFFICES ASSUME Control, [Next]_vars PROVE Control' OBVIOUS
  <1>1. CASE Worker
        BY <1>1, WDecideControl, WClaimControl, WBurstControl, WRetryControl,
           WResumeControl, WRereadControl, WStoreControl DEF Worker
  <1>2. CASE Poll
        BY <1>2, PollCheckControl, PollReadControl, PrefetchControl, JoinedControl DEF Poll
  <1>3. CASE \E l \in 0 .. Total : Ask(l) BY <1>3, AskControl
  <1>4. CASE Start BY <1>4, StartControl
  <1>5. CASE Stop BY <1>5, StopControl
  <1>6. CASE UNCHANGED vars
    <2> USE <1>6 DEF vars, ringVars, workerVars, pollVars, history, InFlight, Moved
    <2>1. TypeOK' /\ ReadInSource' BY DEF Control, TypeOK, ReadInSource
    <2>2. InFlightContiguous' /\ SeeksCounted'
          BY DEF Control, InFlightContiguous, SeeksCounted, WindowHit
    <2>3. AtMostOneLateRead' /\ LateReads' BY DEF Control, AtMostOneLateRead, LateReads
    <2>4. ReadANeverMisses' /\ LifeCycle' /\ PassState'
          BY DEF Control, ReadANeverMisses, LifeCycle, PassState, InRing, End, Lesser
    <2> QED BY <2>1, <2>2, <2>3, <2>4 DEF Control
  <1>7. CASE Withdraw BY <1>7, WithdrawControl
  <1> QED BY <1>1, <1>2, <1>3, <1>4, <1>5, <1>6, <1>7 DEF Next

(***************************************************************************)
(* The data part.                                                           *)
(***************************************************************************)
LEMMA DataInit == Init => Data
  BY DEF Init, Data, RingCoherent, WindowRight, TmpRight

(* A sector given up on stays given up on while its medium is mounted. *)
LEMMA AllowedGrows ==
  ASSUME exhausted \subseteq exhausted', holes \subseteq holes', NEW l
  PROVE  Allowed(l) \subseteq Allowed(l)'
  BY DEF Allowed

LEMMA RingStays ==
  ASSUME RingCoherent, exhausted \subseteq exhausted', holes \subseteq holes',
         UNCHANGED << base, fill, ring, running >>
  PROVE  RingCoherent'
  BY AllowedGrows DEF RingCoherent

LEMMA WindowStays ==
  ASSUME WindowRight, exhausted \subseteq exhausted', holes \subseteq holes',
         UNCHANGED << winLba, win >>
  PROVE  WindowRight'
  BY AllowedGrows DEF WindowRight

(* What a successful read leaves in tmp is right. *)
LEMMA ReadIntoRight ==
  ASSUME TypeOK, NEW n \in 1 .. Burst, wHead + n <= Total, ReadInto(n),
         UNCHANGED << wHead, exhausted >>
  PROVE  \A i \in 0 .. n - 1 : tmp'[i] \in Allowed(wHead + i)'
  <1>1. wHead \in Sectors BY SizesAssumption DEF TypeOK, Sectors
  <1>2. PICK r \in Reads(wHead, n) :
          /\ tmp' = [i \in 0 .. Burst - 1 |-> IF i < n THEN r[i] ELSE tmp[i]]
          /\ holes' = holes \union {l \in Sectors : /\ l - wHead \in 0 .. n - 1
                                                    /\ r[l - wHead] = Zero}
        BY DEF ReadInto
  <1>3. \A i \in 0 .. n - 1 : r[i] \in {wHead + i, Zero} BY <1>1, SourceAssumption
  <1> TAKE i \in 0 .. n - 1
  <1>4. tmp'[i] = r[i] BY <1>2, SizesAssumption
  <1>5. wHead + i \in Sectors /\ (wHead + i) - wHead = i
        BY <1>1, SizesAssumption DEF Sectors
  <1>6. r[i] = Zero => wHead + i \in holes' BY <1>2, <1>5
  <1>7. ~(wHead + i >= Total) BY <1>5, SizesAssumption DEF Sectors
  <1> QED BY <1>3, <1>4, <1>6, <1>7 DEF Allowed

LEMMA WorkerData == Control /\ Data /\ Worker => Data'
  <1> SUFFICES ASSUME Control, Data, Worker PROVE Data' OBVIOUS
  <1> USE DEF ringVars, pollVars, history
  <1>1. CASE WDecide \/ WClaim \/ WResume
    <2>1. UNCHANGED << base, fill, ring, pollVars, exhausted, holes >> /\ wpc' # "store"
          BY <1>1 DEF WDecide, WClaim, WResume
    <2> QED BY <2>1, RingStays, WindowStays DEF Data, TmpRight
  <1>2. CASE WBurst
    <2>1. CASE ReadInto(wN) /\ UNCHANGED wN
      <3>1. wN \in 1 .. Burst /\ wHead + wN <= Total
            BY <1>2 DEF WBurst, InFlight, Control, TypeOK, ReadInSource
      <3>2. UNCHANGED << wHead, exhausted >> /\ holes \subseteq holes'
            BY <1>2, <2>1 DEF WBurst, ReadInto
      <3>3. TmpRight'
            BY <2>1, <3>1, <3>2, ReadIntoRight DEF Control, TmpRight
      <3> QED BY <1>2, <3>2, <3>3, RingStays, WindowStays DEF WBurst, Data
    <2>2. CASE wpc' = "retry" /\ UNCHANGED holes
          BY <1>2, <2>2, RingStays, WindowStays DEF WBurst, Data, TmpRight
    <2> QED BY <1>2, <2>1, <2>2 DEF WBurst
  <1>3. CASE WRetry
    <2>1. exhausted \subseteq exhausted' /\ UNCHANGED << ringVars, pollVars, holes >>
          BY <1>3 DEF WRetry
    <2>2. TmpRight'
      <3> SUFFICES ASSUME wpc' = "store", ~Moved'
                   PROVE  (\A i \in 0 .. wN - 1 : tmp[i] \in Allowed(wHead + i))'
                   BY DEF TmpRight
      <3>1. ~Moved BY <1>3 DEF WRetry, Moved
      <3>2. wN' = 1 /\ wHead' = wHead BY <1>3 DEF WRetry, Control, ReadInSource
      <3>3. wTries >= Retries
            BY <1>3, <3>1, SizesAssumption DEF WRetry, KeepTrying, Control, TypeOK
      <3>4. tmp' = [tmp EXCEPT ![0] = Zero] /\ wHead \in exhausted'
            BY <1>3, <3>3 DEF WRetry
      <3>5. tmp'[0] = Zero BY <3>4, SizesAssumption DEF Control, TypeOK
      <3>6. wHead + 0 = wHead /\ ~(wHead >= Total)
            BY <1>3, SizesAssumption DEF WRetry, Control, TypeOK, ReadInSource, InFlight
      <3>7. tmp'[0] \in Allowed(wHead + 0)' BY <3>2, <3>4, <3>5, <3>6 DEF Allowed
      <3> QED BY <3>2, <3>7
    <2> QED BY <2>1, <2>2, RingStays, WindowStays DEF Data
  <1>4. CASE WReread
    <2>1. CASE ReadInto(1)
      <3>1. 1 \in 1 .. Burst /\ wHead + 1 <= Total /\ wN = 1
            BY <1>4, SizesAssumption DEF WReread, InFlight, Control, TypeOK, ReadInSource
      <3>2. UNCHANGED << wHead, exhausted, wN >> /\ holes \subseteq holes'
            BY <1>4, <2>1 DEF WReread, ReadInto
      <3>3. TmpRight'
            BY <2>1, <3>1, <3>2, ReadIntoRight DEF Control, TmpRight
      <3> QED BY <1>4, <3>2, <3>3, RingStays, WindowStays DEF WReread, Data
    <2>2. CASE wpc' = "retry" /\ UNCHANGED holes
          BY <1>4, <2>2, RingStays, WindowStays DEF WReread, Data, TmpRight
    <2> QED BY <1>4, <2>1, <2>2 DEF WReread
  <1>5. CASE WStore
    <2>1. UNCHANGED << base, pollVars, exhausted, holes >> /\ wpc' = "loop"
          BY <1>5 DEF WStore
    <2>2. CASE UNCHANGED << ring, fill >>
          BY <2>1, <2>2, RingStays, WindowStays DEF Data, TmpRight
    <2>3. CASE ~Moved /\ CopyIn(wHead, wN) /\ fill' = fill + wN
      <3>1. wHead = base + fill /\ fill + wN <= Cap
            BY <1>5, <2>3 DEF WStore, InFlight, Control, InFlightContiguous
      <3>2. base \in Nat /\ fill \in Nat /\ wN \in Nat BY DEF Control, TypeOK
      <3>3. /\ \A i \in 0 .. wN - 1 : ring'[Slot(base + fill + i)] = tmp[i]
            /\ \A l \in base .. base + fill - 1 : ring'[Slot(l)] = ring[Slot(l)]
            BY <2>3, <3>1, <3>2, CopyInEffect
      <3>4. RingCoherent'
        <4> SUFFICES ASSUME running, NEW l \in base .. base + (fill + wN) - 1
                     PROVE  ring'[Slot(l)] \in Allowed(l)
                     BY <2>1, <2>3 DEF RingCoherent, Allowed
        <4>1. CASE l \in base .. base + fill - 1
              BY <4>1, <3>3 DEF Data, RingCoherent
        <4>2. CASE l >= base + fill
          <5>1. l - (base + fill) \in 0 .. wN - 1 /\ base + fill + (l - (base + fill)) = l
                BY <4>2, <3>2
          <5>2. \A i \in 0 .. wN - 1 : tmp[i] \in Allowed(base + fill + i)
                BY <1>5, <2>3, <3>1 DEF WStore, Data, TmpRight
          <5> QED BY <5>1, <5>2, <3>3
        <4> QED BY <4>1, <4>2, <3>2
      <3> QED BY <2>1, <3>4, WindowStays DEF Data, TmpRight
    <2> QED BY <1>5, <2>2, <2>3 DEF WStore
  <1> QED BY <1>1, <1>2, <1>3, <1>4, <1>5 DEF Worker

(* What copy_out of a window the ring holds gives. *)
LEMMA CopyOutRight ==
  ASSUME TypeOK, RingCoherent, running, NEW l \in Nat, l >= Total \/ InRing(l)
  PROVE  \A i \in 0 .. Window - 1 : CopyOut(l)[i] \in Allowed(l + i)
  <1> TAKE i \in 0 .. Window - 1
  <1>1. CASE l + i < Total
    <2>1. l >= base /\ End(l) <= base + fill /\ l + i < End(l)
          BY <1>1, SizesAssumption DEF InRing, End, Lesser, TypeOK
    <2>2. l + i \in base .. base + fill - 1 BY <2>1, SizesAssumption DEF TypeOK, End, Lesser
    <2> QED BY <1>1, <2>2 DEF CopyOut, RingCoherent
  <1>2. CASE ~(l + i < Total)
    <2>1. l + i >= Total BY <1>2, SizesAssumption
    <2> QED BY <1>2, <2>1 DEF CopyOut, Allowed
  <1> QED BY <1>1, <1>2

(* Freeing room leaves a run that was right right. *)
LEMMA RingSlides ==
  ASSUME TypeOK, RingCoherent, NEW b \in Nat, NEW f \in Nat, b >= base, b + f = base + fill,
         base' = b, fill' = f, UNCHANGED << ring, running, exhausted, holes >>
  PROVE  RingCoherent'
  <1>1. \A l \in b .. b + f - 1 : l \in base .. base + fill - 1 BY DEF TypeOK
  <1>2. running => \A l \in b .. b + f - 1 : ring[Slot(l)] \in Allowed(l)
        BY <1>1 DEF RingCoherent
  <1> QED BY <1>2 DEF RingCoherent, Allowed

LEMMA AdvanceRing ==
  ASSUME Control, RingCoherent, NEW end \in Nat, end <= base + fill + Slack,
         Advance(end) \/ UNCHANGED << base, fill, wpc >>,
         UNCHANGED << gen, stopReq, wHead, wN, wGen, wTries, late,
                      ring, running, exhausted, holes >>
  PROVE  RingCoherent' /\ (wpc' = "store" => wpc = "store")
  <1>1. /\ base' \in Nat /\ fill' \in 0 .. Cap /\ base' + fill' = base + fill
        /\ base' >= base /\ wpc' \in {wpc, "loop"}
        BY SlideControl
  <1> QED BY <1>1, RingSlides DEF Control

LEMMA TmpStays ==
  ASSUME TmpRight, wpc' = "store" => wpc = "store",
         UNCHANGED << gen, stopReq, wHead, wN, wGen, tmp, exhausted, holes >>
  PROVE  TmpRight'
  BY DEF TmpRight, Moved, Allowed

LEMMA PollData == Control /\ Data /\ Poll => Data'
  <1> SUFFICES ASSUME Control, Data, Poll PROVE Data' OBVIOUS
  <1>1. CASE PollCheck
    <2> USE <1>1 DEF PollCheck, history
    <2>1. WindowRight' BY WindowStays DEF Data
    <2>2. CASE UNCHANGED << base, fill, gen, wpc >>
          BY <2>1, <2>2, RingStays, TmpStays DEF Data
    <2>3. CASE ~Ready(request) /\ Miss(request)
      <3>1. CASE FarFrom(request) /\ Retarget(request)
        <4>1. fill' = 0 /\ base' \in Nat /\ (wpc' = "store" => wpc = "store")
              BY <3>1, <2>3 DEF Retarget, Broadcast, Control, TypeOK, None
        <4>2. RingCoherent'
          <5>1. \A b \in Nat : b .. b + 0 - 1 = {} OBVIOUS
          <5>2. base' .. base' + fill' - 1 = {} BY <4>1, <5>1
          <5> QED BY <5>2 DEF RingCoherent
        <4>3. request \in Nat /\ ~stopReq
              BY DEF Control, TypeOK, LifeCycle, None
        <4>4. wpc = "store" => wGen # gen'
              BY <3>1, <4>3, RetargetMoves DEF InFlight
        <4>6. TmpRight' BY <4>1, <4>4 DEF TmpRight, Moved
        <4> QED BY <2>1, <4>2, <4>6 DEF Data
      <3>2. CASE ~FarFrom(request) /\ Advance(request) /\ UNCHANGED << gen, moves >>
        <4>1. request \in Nat /\ request <= base + fill + Slack
              BY <3>2, SizesAssumption DEF Control, TypeOK, FarFrom, None
        <4>2. RingCoherent' /\ (wpc' = "store" => wpc = "store")
              BY <3>2, <4>1, AdvanceRing DEF Data
        <4> QED BY <2>1, <3>2, <4>2, TmpStays DEF Data
      <3> QED BY <2>3, <3>1, <3>2 DEF Miss
    <2>4. \/ UNCHANGED << base, fill, gen, wpc >>
          \/ ~Ready(request) /\ Miss(request)
          OBVIOUS
    <2> QED BY <2>2, <2>3, <2>4
  <1>2. CASE PollRead
    <2>1. /\ ppc = "read" /\ request \in Nat /\ (request >= Total \/ InRing(request))
          /\ running
          BY <1>2 DEF PollRead, Control, PassState, ReadANeverMisses, LifeCycle, TypeOK
    <2>2. /\ win' = CopyOut(request) /\ winLba' = request /\ UNCHANGED gen
          /\ IF request < Total THEN Advance(End(request)) ELSE UNCHANGED << base, fill, wpc >>
          /\ UNCHANGED << stopReq, ring, wHead, wN, wGen, wTries, tmp, running,
                          exhausted, holes, late, resets >>
          BY <1>2, <2>1 DEF PollRead, Served, history
    <2>3. WindowRight'
      <3>1. \A i \in 0 .. Window - 1 : CopyOut(request)[i] \in Allowed(request + i)
            BY <2>1, CopyOutRight DEF Control, Data
      <3> QED BY <2>2, <3>1 DEF WindowRight, Allowed
    <2>4. PICK e \in Nat : /\ e <= base + fill + Slack
                           /\ Advance(e) \/ UNCHANGED << base, fill, wpc >>
      <3>1. CASE request < Total
        <4>1. End(request) \in Nat /\ End(request) <= base + fill + Slack
              BY <2>1, <3>1, SizesAssumption DEF Control, TypeOK, InRing, End, Lesser
        <4> QED BY <2>2, <3>1, <4>1
      <3>2. CASE ~(request < Total)
        <4>1. 0 <= base + fill + Slack BY SizesAssumption DEF Control, TypeOK
        <4> QED BY <2>2, <3>2, <4>1
      <3> QED BY <3>1, <3>2
    <2>5. RingCoherent' /\ (wpc' = "store" => wpc = "store")
          BY <2>2, <2>4, AdvanceRing DEF Data
    <2> QED BY <2>2, <2>3, <2>5, TmpStays DEF Data
  <1>3. CASE Prefetch
    <2> DEFINE l == winLba + Window
    <2>1. ppc = "prefetch" /\ running BY <1>3 DEF Prefetch, Control, LifeCycle, TypeOK
    <2>2. UNCHANGED << stopReq, ring, wHead, wN, wGen, wTries, tmp, running,
                       exhausted, holes, late, resets >>
          BY <1>3 DEF Prefetch, history
    <2>3. CASE UNCHANGED << base, fill, gen, moves, wpc, winLba, win >>
          BY <2>2, <2>3, RingStays, WindowStays, TmpStays DEF Data
    <2>4. CASE winLba # None /\ Served(l)
      <3>1. l \in Nat BY <2>4, SizesAssumption DEF Control, TypeOK
      <3>2. l >= Total \/ InRing(l) BY <2>4 DEF Served
      <3>3. win' = CopyOut(l) /\ winLba' = l /\ UNCHANGED gen BY <2>4 DEF Served
      <3>4. \A i \in 0 .. Window - 1 : CopyOut(l)[i] \in Allowed(l + i)
            BY <2>1, <3>1, <3>2, CopyOutRight DEF Control, Data
      <3>5. WindowRight' BY <2>2, <3>3, <3>4 DEF WindowRight, Allowed
      <3>6. PICK e \in Nat : /\ e <= base + fill + Slack
                             /\ Advance(e) \/ UNCHANGED << base, fill, wpc >>
        <4>1. CASE l < Total
          <5>1. End(l) \in Nat /\ End(l) <= base + fill + Slack
                BY <3>1, <3>2, <4>1, SizesAssumption
                DEF Control, TypeOK, InRing, End, Lesser
          <5> QED BY <2>4, <4>1, <5>1 DEF Served
        <4>2. CASE ~(l < Total)
          <5>1. 0 <= base + fill + Slack BY SizesAssumption DEF Control, TypeOK
          <5> QED BY <2>4, <4>2, <5>1 DEF Served
        <4> QED BY <4>1, <4>2
      <3>7. RingCoherent' /\ (wpc' = "store" => wpc = "store")
            BY <2>2, <3>3, <3>6, AdvanceRing DEF Data
      <3> QED BY <2>2, <3>3, <3>5, <3>7, TmpStays DEF Data
    <2>5. CASE /\ winLba # None /\ l < Total /\ ~InRing(l) /\ Miss(l) /\ winLba' = None
      <3>1. l \in Nat BY <2>5, SizesAssumption DEF Control, TypeOK
      <3>2. base <= l /\ l <= base + fill BY <2>1, <2>5 DEF Control, PassState
      <3>3. ~FarFrom(l) /\ l <= base + fill + Slack
            BY <3>1, <3>2, SizesAssumption DEF Control, TypeOK, FarFrom
      <3>4. Advance(l) /\ UNCHANGED gen BY <2>5, <3>3 DEF Miss
      <3>5. RingCoherent' /\ (wpc' = "store" => wpc = "store")
            BY <2>2, <3>1, <3>3, <3>4, AdvanceRing DEF Data
      <3>6. WindowRight' BY <2>5 DEF WindowRight
      <3> QED BY <2>2, <3>4, <3>5, <3>6, TmpStays DEF Data
    <2> QED BY <1>3, <2>3, <2>4, <2>5 DEF Prefetch
  <1>4. CASE Joined
    <2>1. /\ ~running' /\ wpc' = "exit"
          /\ UNCHANGED << winLba, win, exhausted, holes >>
          BY <1>4 DEF Joined, history
    <2> QED BY <2>1, WindowStays DEF Data, RingCoherent, TmpRight
  <1> QED BY <1>1, <1>2, <1>3, <1>4 DEF Poll

LEMMA DataStep == Control /\ Data /\ [Next]_vars => Data'
  <1> SUFFICES ASSUME Control, Data, [Next]_vars PROVE Data' OBVIOUS
  <1>1. CASE Worker BY <1>1, WorkerData
  <1>2. CASE Poll BY <1>2, PollData
  <1>3. CASE UNCHANGED << ringVars, workerVars, running, winLba, win, exhausted, holes >>
        BY <1>3, RingStays, WindowStays, TmpStays DEF Data, ringVars, workerVars
  <1>4. CASE Start
        BY <1>4, SizesAssumption DEF Start, Data, RingCoherent, WindowRight, TmpRight
  <1>5. CASE Stop
    <2>1. /\ UNCHANGED << base, fill, ring, running, winLba, win, exhausted, holes >>
          /\ stopReq' = TRUE
          BY <1>5 DEF Stop, history
    <2> QED BY <2>1, RingStays, WindowStays DEF Data, TmpRight, Moved
  <1>6. ASSUME NEW l \in 0 .. Total, Ask(l) PROVE Data'
        BY <1>6, <1>3 DEF Ask, history
  <1>7. CASE Withdraw BY <1>7, <1>3 DEF Withdraw
  <1>8. CASE UNCHANGED vars BY <1>8, <1>3 DEF vars, pollVars, history
  <1> QED BY <1>1, <1>2, <1>4, <1>5, <1>6, <1>7, <1>8 DEF Next

(***************************************************************************)
(* The theorems.                                                            *)
(***************************************************************************)

(* Every reachable state of the read-ahead satisfies the invariant. *)
THEOREM Invariance == Spec => []IInv
  <1>1. Init => IInv BY ControlInit, DataInit DEF IInv
  <1>2. IInv /\ [Next]_vars => IInv' BY ControlStep, DataStep DEF IInv
  <1> QED BY <1>1, <1>2, PTL DEF Spec

(* The variables stay in their types: the ring never holds more than Cap    *)
(* sectors nor runs past the source, whatever the sizes.                    *)
THEOREM TypeCorrect == Spec => []TypeOK
  BY Invariance, PTL DEF IInv, Control

(* No sector of the ring's run ever holds another sector's bytes, and only  *)
(* a sector that was given up on is zeros.                                  *)
THEOREM RingIsCoherent == Spec => []RingCoherent
  BY Invariance, PTL DEF IInv, Data

(* A burst that passes the generation check appends exactly at the head,    *)
(* whatever the width of gen: a wrap cannot make a stale burst look fresh.  *)
THEOREM GenerationsSuffice == Spec => []InFlightContiguous
  BY Invariance, PTL DEF IInv, Control

(* The copy into Main's buffer never misses what the check promised. *)
THEOREM ReadAHits == Spec => []ReadANeverMisses
  BY Invariance, PTL DEF IInv, Control

(* Main's own window is as right as the ring. *)
THEOREM WindowIsRight == Spec => []WindowRight
  BY Invariance, PTL DEF IInv, Data

(* A stop or a seek waits out at most one source read. *)
THEOREM OneLateRead == Spec => []AtMostOneLateRead
  BY Invariance, PTL DEF IInv, Control

(***************************************************************************)
(* The read-ahead implements the abstract sector service.                   *)
(***************************************************************************)
LEMMA AllowedByPort ==
  ASSUME NEW l, NEW d \in Allowed(l) PROVE d \in Port!Allowed(l)
  BY DEF Allowed, Port!Allowed, Zero, Port!Zero

LEMMA PortStep ==
  ASSUME IInv, IInv', [Next]_vars
  PROVE  [Port!Next]_(Port!portVars)
  <1> DEFINE gone == exhausted \union holes
  <1> USE DEF None, Port!None, Port!portVars
  <1>1. ASSUME Worker PROVE [Port!Next]_(Port!portVars)
    <2>1. UNCHANGED << request, answer >>
          BY <1>1 DEF Worker, WDecide, WClaim, WBurst, WRetry, WResume, WReread, WStore, pollVars
    <2>2. exhausted \subseteq exhausted' /\ holes \subseteq holes'
          BY <1>1 DEF Worker, WDecide, WClaim, WBurst, WRetry, WResume, WReread, WStore,
                      history, ReadInto
    <2>3. gone' \subseteq 0 .. Total - 1 BY DEF IInv, Control, TypeOK, Sectors
    <2> QED BY <2>1, <2>2, <2>3 DEF Port!Next, Port!GiveUp
  <1>2. ASSUME PollCheck PROVE [Port!Next]_(Port!portVars)
    <2>1. UNCHANGED << exhausted, holes >> BY <1>2 DEF PollCheck, history
    <2>2. CASE UNCHANGED << request, answer >> BY <2>1, <2>2
    <2>3. CASE WindowHit(request) /\ Reply(win[request - winLba])
      <3>1. request \in Nat /\ winLba \in Nat
            BY <1>2, <2>3 DEF PollCheck, WindowHit, IInv, Control, TypeOK
      <3>2. request - winLba \in 0 .. Window - 1 /\ winLba + (request - winLba) = request
            BY <2>3, <3>1, SizesAssumption DEF WindowHit
      <3>3. win[request - winLba] \in Allowed(request)
            BY <2>3, <3>2 DEF WindowHit, IInv, Data, WindowRight
      <3>4. win[request - winLba] \in Port!Allowed(request) BY <3>3, AllowedByPort
      <3> QED BY <1>2, <2>1, <2>3, <3>4 DEF PollCheck, Reply, Port!Next, Port!Answer
    <2> QED BY <1>2, <2>2, <2>3 DEF PollCheck
  <1>3. ASSUME PollRead PROVE [Port!Next]_(Port!portVars)
    <2>1. /\ ppc = "read" /\ request \in Nat /\ (request >= Total \/ InRing(request))
          /\ running
          BY <1>3 DEF PollRead, IInv, Control, PassState, ReadANeverMisses, LifeCycle, TypeOK
    <2>2. CopyOut(request)[0] \in Allowed(request)
      <3>1. 0 \in 0 .. Window - 1 /\ request + 0 = request BY <2>1, SizesAssumption
      <3>2. CopyOut(request)[0] \in Allowed(request + 0)
            BY <2>1, <3>1, CopyOutRight DEF IInv, Control, Data
      <3> QED BY <3>1, <3>2
    <2>3. CopyOut(request)[0] \in Port!Allowed(request) BY <2>2, AllowedByPort
    <2>4. /\ answer' = [lba |-> request, data |-> CopyOut(request)[0]] /\ request' = None
          /\ UNCHANGED << exhausted, holes >>
          BY <1>3, <2>1 DEF PollRead, Reply, history
    <2> QED BY <2>1, <2>3, <2>4 DEF Port!Next, Port!Answer
  <1>4. ASSUME Prefetch \/ Joined \/ UNCHANGED vars PROVE [Port!Next]_(Port!portVars)
        BY <1>4 DEF Prefetch, Joined, history, vars, pollVars
  <1>5. ASSUME NEW l \in 0 .. Total, Ask(l) PROVE [Port!Next]_(Port!portVars)
    <2>1. l \in Nat BY SizesAssumption
    <2> QED BY <1>5, <2>1 DEF Ask, history, Port!Next, Port!Ask
  <1>6. ASSUME Start PROVE [Port!Next]_(Port!portVars)
    <2>1. request = None BY <1>6 DEF Start, IInv, Control, LifeCycle
    <2> QED BY <1>6, <2>1 DEF Start, Port!Next, Port!Remount
  <1>7. ASSUME Stop PROVE [Port!Next]_(Port!portVars)
        BY <1>7 DEF Stop, history, Port!Next, Port!Withdraw
  <1>8. ASSUME Withdraw PROVE [Port!Next]_(Port!portVars)
        BY <1>8 DEF Withdraw, Port!Next, Port!Withdraw
  <1> QED BY <1>1, <1>2, <1>3, <1>4, <1>5, <1>6, <1>7, <1>8 DEF Next, Poll

(* Whatever the core observes of the read-ahead -- its requests and their   *)
(* answers -- is a behaviour of the abstract sector service: every answer   *)
(* is the block asked for, or zeros for a block past the end or given up on.*)
THEOREM ImplementsSectorPort == Spec => PortSpec
  <1>1. Init => Port!Init
        BY DEF Init, Port!Init, None, Zero, Port!None, Port!Zero
  <1>2. IInv /\ IInv' /\ [Next]_vars => [Port!Next]_(Port!portVars) BY PortStep
  <1> QED BY <1>1, <1>2, Invariance, PTL DEF Spec, PortSpec, Port!Spec
=============================================================================
