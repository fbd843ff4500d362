------------------------------ MODULE ReadAhead ------------------------------
(***************************************************************************)
(* The RAM read-ahead of main/support/dvd/dvd_readahead.cpp.                *)
(*                                                                         *)
(* One worker thread owns the source and keeps the run [base, base + fill) *)
(* of a ring filled ahead of the core; the poll thread of Main only copies *)
(* out of the ring.  A request the ring cannot serve is deferred to a later *)
(* pass.  Every critical section under `mx` is one action; the source read, *)
(* the src_busy stores and the retry pause are separate steps of the worker.*)
(*                                                                         *)
(* A sector is abstracted to the LBA whose bytes it holds, to Zero, or to   *)
(* Junk (memory fresh from malloc, or freed).                               *)
(***************************************************************************)
EXTENDS Integers

CONSTANTS
  Cap,            (* RA_CAP: slots of the ring                              *)
  Burst,          (* RA_BURST: sectors of a steady-state source read        *)
  First,          (* RA_FIRST: sectors of the first read after a retarget   *)
  Behind,         (* RA_BEHIND: sectors kept behind the consumer            *)
  Slack,          (* RA_SLACK: how far past the fill is "on its way"        *)
  Retries,        (* RA_RETRIES: single-sector attempts before a hole       *)
  GenMod,         (* 2^32, the width of gen                                 *)
  Window,         (* buf_n: sectors of Main's own window                    *)
  Total,          (* sectors of the source                                  *)
  Resets,         (* bound: resets of the core within one mount             *)
  MayFail(_, _),  (* can a source read of n sectors at lba return -1?       *)
  Reads(_, _)     (* the windows such a read can return                     *)

Zero == -1
Junk == -2
None == -1

Sectors  == 0 .. Total - 1
Contents == Sectors \union {Zero, Junk}

(* The real sizes (16384, 32, 8, 256, 256, 3, 2^32, 8) satisfy all of this. *)
ASSUME SizesAssumption ==
  /\ Cap \in Nat \ {0} /\ Burst \in Nat \ {0} /\ First \in 1 .. Burst
  /\ Behind \in Nat /\ Slack \in Nat /\ Retries \in Nat
  /\ Resets \in Nat /\ GenMod \in Nat /\ GenMod >= Resets + 2
  /\ Window \in Nat \ {0} /\ Total \in Nat \ {0}
  /\ Behind + Window <= Cap

(* The source contract of dvd_readahead.h: a full window whose first sector *)
(* is real and whose other sectors are real or zero-filled, or a failure.   *)
ASSUME SourceAssumption ==
  \A l \in Sectors : \A n \in 1 .. Burst : l + n <= Total =>
    /\ MayFail(l, n) \in BOOLEAN
    /\ MayFail(l, n) \/ Reads(l, n) # {}
    /\ \A r \in Reads(l, n) :
         /\ r \in [0 .. n - 1 -> Contents]
         /\ r[0] = l
         /\ \A i \in 0 .. n - 1 : r[i] \in {l + i, Zero}

VARIABLES
  base, fill, gen, stopReq, ring,        (* shared, under mx                *)
  wpc, wHead, wN, wGen, wTries, tmp,     (* the worker thread               *)
  srcBusy,                               (* atomic: inside a source read    *)
  running, ppc, request, winLba, win,    (* the poll thread of Main         *)
  answer,                                (* history: the last answer        *)
  exhausted,                             (* history: retries used up here   *)
  holes,                                 (* history: zero-filled by source  *)
  late,                                  (* history: reads ended since the  *)
                                         (* worker's position became stale  *)
  moves,                                 (* history: retargets since the    *)
                                         (* worker last decided what to read*)
  resets                                 (* history: resets of the core     *)

ringVars   == << base, fill, gen, moves, stopReq, ring >>
workerVars == << wpc, wHead, wN, wGen, wTries, tmp, srcBusy >>
pollVars   == << running, ppc, request, winLba, win, answer >>
history    == << exhausted, holes, late, resets >>
vars       == << ringVars, workerVars, pollVars, history >>

(* What the core may be handed for block l. *)
Allowed(l) ==
  IF l >= Total THEN {Zero}
                ELSE {l} \union {z \in {Zero} : l \in exhausted \union holes}

Lesser(a, b) == IF a < b THEN a ELSE b

Slot(l) == l % Cap

(* One past the last sector of the window at l, clipped to the source. *)
End(l) == Lesser(Total, l + Window)

Init ==
  /\ base = 0 /\ fill = 0 /\ gen = 0 /\ stopReq = FALSE
  /\ ring = [s \in 0 .. Cap - 1 |-> Junk]
  /\ wpc = "exit" /\ wHead = 0 /\ wN = 1 /\ wGen = 0 /\ wTries = 0
  /\ tmp = [i \in 0 .. Burst - 1 |-> Junk]
  /\ srcBusy = FALSE
  /\ running = FALSE /\ ppc = "idle" /\ request = None
  /\ winLba = None /\ win = [i \in 0 .. Window - 1 |-> Junk]
  /\ answer = [lba |-> None, data |-> Zero]
  /\ exhausted = {} /\ holes = {} /\ late = 0 /\ moves = 0 /\ resets = 0

(***************************************************************************)
(* Helpers of both threads, called under mx.                                *)
(***************************************************************************)

(* pthread_cond_broadcast(&cv): only a worker in pthread_cond_wait reacts.  *)
Broadcast == wpc' = IF wpc = "parked" THEN "loop" ELSE wpc

CopyIn(l, n) ==
  ring' = [s \in 0 .. Cap - 1 |->
             IF \E i \in 0 .. n - 1 : Slot(l + i) = s
               THEN tmp[CHOOSE i \in 0 .. n - 1 : Slot(l + i) = s]
               ELSE ring[s]]

(* The window a copy_out of [l, End(l)) fills, its tail past the source zeroed. *)
CopyOut(l) ==
  [i \in 0 .. Window - 1 |-> IF l + i < Total THEN ring[Slot(l + i)] ELSE Zero]

(* The consumer has been served up to `end`: free what is further behind,   *)
(* of what the ring holds, and tell the worker there is room.               *)
Advance_NoBroadcast(end) ==
  LET d == Lesser(end - Behind - base, fill) IN
  IF end - Behind > base
    THEN base' = base + d /\ fill' = fill - d /\ UNCHANGED wpc
    ELSE UNCHANGED << base, fill, wpc >>
Advance(end) ==
  LET d == Lesser(end - Behind - base, fill) IN
  IF end - Behind > base
    THEN base' = base + d /\ fill' = fill - d /\ Broadcast
    ELSE UNCHANGED << base, fill, wpc >>

Retarget(l) ==
  /\ gen' = (gen + 1) % GenMod /\ moves' = moves + 1
  /\ base' = l
  /\ fill' = 0
  /\ Broadcast

InRing(l)   == l >= base /\ End(l) <= base + fill
FarFrom(l)  == l < base \/ l > base + fill + Slack

(* classify_hit() when [l, End(l)) is not in the ring: a seek, or on its way. *)
Miss_NoAdvance(l) ==
  \/ FarFrom(l) /\ Retarget(l)
  \/ ~FarFrom(l) /\ UNCHANGED << base, fill, gen, moves, wpc >>
Miss(l) ==
  \/ FarFrom(l) /\ Retarget(l)
  \/ ~FarFrom(l) /\ Advance(l) /\ UNCHANGED << gen, moves >>

(***************************************************************************)
(* The worker thread.                                                       *)
(***************************************************************************)
InFlight == wpc \in {"claim", "burst", "retry", "pause", "reread", "store"}

(* The window the worker would read next. *)
NextRead ==
  Lesser(Lesser(IF fill > 0 THEN Burst ELSE First, Cap - fill), Total - (base + fill))

(* while (!stop_req): park, or decide what to read. *)
WDecide ==
  /\ wpc = "loop"
  /\ \/ stopReq /\ wpc' = "exit" /\ UNCHANGED << wHead, wN, wGen >>
     \/ /\ ~stopReq /\ (base + fill >= Total \/ fill >= Cap)
        /\ wpc' = "parked" /\ UNCHANGED << wHead, wN, wGen >>
     \/ /\ ~stopReq /\ base + fill < Total /\ fill < Cap
        /\ wpc' = "claim" /\ wHead' = base + fill /\ wN' = NextRead /\ wGen' = gen
  /\ late' = 0 /\ moves' = 0
  /\ UNCHANGED << base, fill, gen, stopReq, ring, wTries, tmp, srcBusy, pollVars,
                  exhausted, holes, resets >>

(* src_busy goes up before the source is touched, outside the lock. *)
WClaim ==
  /\ wpc = "claim"
  /\ srcBusy' = TRUE
  /\ wpc' = "burst"
  /\ UNCHANGED << ringVars, wHead, wN, wGen, wTries, tmp, pollVars, history >>

(* Stopped or retargeted since the worker decided what to read. *)
Moved_StopOnly == stopReq
Moved == stopReq \/ wGen # gen

LateRead == late' = IF Moved THEN late + 1 ELSE late

(* A source read of n sectors that succeeded, into tmp. *)
ReadInto(n) ==
  \E r \in Reads(wHead, n) :
    /\ tmp' = [i \in 0 .. Burst - 1 |-> IF i < n THEN r[i] ELSE tmp[i]]
    /\ holes' = holes \union {l \in Sectors : /\ l - wHead \in 0 .. n - 1
                                              /\ r[l - wHead] = Zero}

WBurst ==
  /\ wpc = "burst"
  /\ \/ /\ ReadInto(wN)
        /\ srcBusy' = FALSE /\ wpc' = "store"
        /\ UNCHANGED << wN, wTries >>
     \/ /\ MayFail(wHead, wN)
        /\ wN' = 1 /\ wTries' = 0 /\ wpc' = "retry"
        /\ UNCHANGED << tmp, holes, srcBusy >>
  /\ LateRead
  /\ UNCHANGED << ringVars, wHead, wGen, pollVars, exhausted, resets >>

(* The retry loop's test. *)
KeepTrying == wTries < Retries /\ ~Moved

(* Another attempt after an idle gap, or the end of the loop and a zeroed   *)
(* sector.                                                                  *)
WRetry ==
  /\ wpc = "retry"
  /\ srcBusy' = FALSE
  /\ \/ /\ KeepTrying
        /\ wpc' = "pause" /\ UNCHANGED << tmp, exhausted >>
     \/ /\ ~KeepTrying
        /\ wpc' = "store" /\ tmp' = [tmp EXCEPT ![0] = Zero]
        /\ exhausted' = exhausted \union {l \in {wHead} : wTries >= Retries}
  /\ UNCHANGED << ringVars, wHead, wN, wGen, wTries, pollVars, holes, late, resets >>

WResume ==
  /\ wpc = "pause"
  /\ srcBusy' = TRUE
  /\ wpc' = "reread"
  /\ UNCHANGED << ringVars, wHead, wN, wGen, wTries, tmp, pollVars, history >>

WReread ==
  /\ wpc = "reread"
  /\ wTries' = wTries + 1
  /\ \/ ReadInto(1) /\ srcBusy' = FALSE /\ wpc' = "store"
     \/ MayFail(wHead, 1) /\ wpc' = "retry" /\ UNCHANGED << tmp, holes, srcBusy >>
  /\ LateRead
  /\ UNCHANGED << ringVars, wHead, wN, wGen, pollVars, exhausted, resets >>

(* Retargeted or stopped meanwhile: drop it; else append at the head. *)
WStore ==
  /\ wpc = "store"
  /\ wpc' = "loop"
  /\ \/ Moved /\ UNCHANGED << ring, fill >>
     \/ ~Moved /\ CopyIn(wHead, wN) /\ fill' = fill + wN
  /\ UNCHANGED << base, gen, moves, stopReq, wHead, wN, wGen, wTries, tmp, srcBusy,
                  pollVars, history >>

Worker == WDecide \/ WClaim \/ WBurst \/ WRetry \/ WResume \/ WReread \/ WStore

(***************************************************************************)
(* The core, and the poll thread that serves it.                            *)
(***************************************************************************)

(* The core raises sd_rd for one block; it may ask a little past the end.   *)
Ask(l) ==
  /\ running /\ request = None /\ ppc \in {"idle", "prefetch"}
  /\ request' = l
  /\ UNCHANGED << ringVars, workerVars, running, ppc, winLba, win, answer, history >>

(* A reset of the core drops sd_rd: the request goes away unanswered.  (Once *)
(* Main is past the check it answers what it latched.)                      *)
Withdraw ==
  /\ running /\ request # None /\ ppc \in {"idle", "prefetch"}
  /\ request' = None
  /\ resets < Resets /\ resets' = resets + 1
  /\ UNCHANGED << ringVars, workerVars, running, ppc, winLba, win, answer,
                  exhausted, holes, late >>

WindowHit(l) == winLba # None /\ l >= winLba /\ l + 1 - winLba <= Window

Reply(d) ==
  /\ answer' = [lba |-> request, data |-> d]
  /\ request' = None

(* dvd_ra_ready(): past the end is served as zeros. *)
Ready(l) == l >= Total \/ InRing(l)

(* dvd_readahead_ready(): serve from Main's own window, go on to readA, or  *)
(* leave the request pending.                                               *)
PollCheck ==
  /\ running /\ ppc = "idle" /\ request # None
  /\ \/ /\ WindowHit(request)
        /\ Reply(win[request - winLba])
        /\ UNCHANGED << base, fill, gen, moves, wpc, ppc >>
     \/ /\ ~WindowHit(request)
        /\ Ready(request)
        /\ ppc' = "read"
        /\ UNCHANGED << base, fill, gen, moves, wpc, request, answer >>
     \/ /\ ~WindowHit(request)
        /\ ~Ready(request)
        /\ Miss(request)
        /\ UNCHANGED << ppc, request, answer >>
  /\ UNCHANGED << stopReq, ring, wHead, wN, wGen, wTries, tmp, srcBusy,
                  running, winLba, win, history >>

(* dvd_ra_read() of the window at l into Main's buffer; it may miss. *)
Served(l) ==
  /\ l >= Total \/ InRing(l)
  /\ win' = CopyOut(l) /\ winLba' = l
  /\ IF l < Total THEN Advance(End(l)) ELSE UNCHANGED << base, fill, wpc >>
  /\ UNCHANGED << gen, moves >>

(* Integration step 8: readA, then the block is sent to the core -- zeros   *)
(* when the read missed.                                                    *)
PollRead ==
  /\ ppc = "read"
  /\ IF request >= Total \/ InRing(request)
       THEN Served(request) /\ Reply(CopyOut(request)[0])
       ELSE Miss(request) /\ Reply(Zero) /\ UNCHANGED << winLba, win >>
  /\ ppc' = "prefetch"
  /\ UNCHANGED << stopReq, ring, wHead, wN, wGen, wTries, tmp, srcBusy, running,
                  history >>

(* Integration step 9: Main may follow with the next window.  A miss zeroes *)
(* its buffer and marks it invalid.                                         *)
Prefetch ==
  /\ ppc = "prefetch"
  /\ ppc' = "idle"
  /\ LET l == winLba + Window IN
     \/ UNCHANGED << base, fill, gen, moves, wpc, winLba, win >>
     \/ winLba # None /\ Served(l)
     \/ /\ winLba # None /\ l < Total /\ ~InRing(l) /\ Miss(l)
        /\ winLba' = None /\ win' = [i \in 0 .. Window - 1 |-> Zero]
  /\ UNCHANGED << stopReq, ring, wHead, wN, wGen, wTries, tmp, srcBusy,
                  running, request, answer, history >>

(* dvd_ra_start() from a mount, on the poll thread; Main's window starts    *)
(* invalid.  ring and tmp are fresh from malloc.                            *)
Start ==
  /\ ~running /\ ppc = "idle"
  /\ base' = 0 /\ fill' = 0 /\ gen' = 0 /\ stopReq' = FALSE
  /\ ring' = [s \in 0 .. Cap - 1 |-> Junk]
  /\ tmp' = [i \in 0 .. Burst - 1 |-> Junk]
  /\ srcBusy' = FALSE /\ wpc' = "loop" /\ running' = TRUE
  /\ winLba' = None /\ exhausted' = {} /\ holes' = {} /\ late' = 0 /\ moves' = 0
  /\ resets' = 0
  /\ UNCHANGED << wHead, wN, wGen, wTries, ppc, request, win, answer >>

(* dvd_ra_stop(), up to pthread_join: from here the poll thread is blocked. *)
(* The outstanding request goes away with the medium.                       *)
Stop ==
  /\ running /\ ppc = "idle"
  /\ stopReq' = TRUE
  /\ Broadcast
  /\ ppc' = "join" /\ request' = None
  /\ UNCHANGED << base, fill, gen, moves, ring, wHead, wN, wGen, wTries, tmp, srcBusy,
                  running, winLba, win, answer, history >>

(* The join returns; ring and tmp are freed. *)
Joined ==
  /\ ppc = "join" /\ wpc = "exit"
  /\ running' = FALSE /\ ppc' = "idle"
  /\ ring' = [s \in 0 .. Cap - 1 |-> Junk]
  /\ tmp' = [i \in 0 .. Burst - 1 |-> Junk]
  /\ UNCHANGED << base, fill, gen, moves, stopReq, wpc, wHead, wN, wGen, wTries, srcBusy,
                  request, winLba, win, answer, history >>

Poll == PollCheck \/ PollRead \/ Prefetch \/ Joined

Next ==
  \/ Worker
  \/ Poll
  \/ \E l \in 0 .. Total : Ask(l)
  \/ Withdraw
  \/ Start
  \/ Stop

Spec == Init /\ [][Next]_vars

(* Both threads are scheduled, and a source read returns (the driver times  *)
(* out).  Nothing is assumed of the core, of mounts or of unmounts.         *)
FairSpec ==
  /\ Spec
  /\ WF_vars(Worker)
  /\ WF_vars(PollCheck \/ PollRead \/ Prefetch \/ Joined)

(***************************************************************************)
(* Properties.                                                              *)
(***************************************************************************)

TypeOK ==
  /\ base \in Nat /\ fill \in 0 .. Cap /\ base + fill <= Total
  /\ gen \in 0 .. GenMod - 1 /\ stopReq \in BOOLEAN
  /\ ring \in [0 .. Cap - 1 -> Contents]
  /\ wpc \in {"loop", "parked", "claim", "burst", "retry", "pause", "reread",
             "store", "exit"}
  /\ wHead \in Nat /\ wN \in 1 .. Burst /\ wGen \in 0 .. GenMod - 1
  /\ wTries \in 0 .. Retries
  /\ tmp \in [0 .. Burst - 1 -> Contents]
  /\ srcBusy \in BOOLEAN
  /\ running \in BOOLEAN
  /\ ppc \in {"idle", "read", "prefetch", "join"}
  /\ request \in Nat \union {None}
  /\ winLba \in Nat \union {None}
  /\ win \in [0 .. Window - 1 -> Contents]
  /\ answer \in [lba : Nat \union {None}, data : Contents]
  /\ exhausted \subseteq Sectors /\ holes \subseteq Sectors
  /\ late \in Nat /\ moves \in 0 .. GenMod - 1 /\ resets \in 0 .. Resets

(* Every sector of the run [base, base + fill) is in its slot with its own  *)
(* bytes, or with zeros it was given up on: no burst read for an old        *)
(* position, no failed read and no wrap of the ring leaves another sector's *)
(* bytes under its address.                                                 *)
RingCoherent ==
  running => \A l \in base .. base + fill - 1 : ring[Slot(l)] \in Allowed(l)

(* A read that is still for the current position will append exactly at the *)
(* head and fits, however far advance() has moved the base while it was in  *)
(* flight, however often the position has moved away and back, and although *)
(* gen is only compared for equality and wraps.                             *)
InFlightContiguous ==
  InFlight /\ ~Moved =>
    wHead = base + fill /\ fill + wN <= Cap /\ wHead + wN <= Total

(* dvd_css_read: "step 48 has already checked the window is there, so readA *)
(* never misses" -- although the worker runs between the check and the copy.*)
ReadANeverMisses == ppc = "read" => request >= Total \/ InRing(request)

(* Main's own window never holds another sector's bytes: its hits, which    *)
(* bypass the ring, are as right as the ring's.                             *)
WindowRight ==
  winLba # None => \A i \in 0 .. Window - 1 : win[i] \in Allowed(winLba + i)

(* A stop or a seek waits out at most one source read: the retry loop looks *)
(* again before each attempt.                                               *)
AtMostOneLateRead == late <= 1

(* "Only a sector that keeps failing is zero-filled" (ra_worker): one that    *)
(* has had its Retries single-sector attempts.                              *)
OnlyExhaustedZeroed ==
  \A l \in base .. base + fill - 1 : ring[Slot(l)] = Zero => l \in exhausted

(* The request the core holds is over in the end, answered or withdrawn, and *)
(* an unmount returns: poll thread and worker never wait for each other for *)
(* ever (the deadlock classify_hit's comment tells of).                     *)
RequestServed ==
  /\ request # None ~> request = None
  /\ ppc = "join" ~> ~running

(* What the core sees is the abstract sector service. *)
Port == INSTANCE SectorPort WITH givenUp <- exhausted \union holes
PortSpec == Port!Spec
=============================================================================
