------------------------------ MODULE AudioRing ------------------------------
(***************************************************************************)
(* The audio frame buffer and its flow control, one step for each edge of   *)
(* clk_sys: audio_ring.sv, the dispatcher of dvd_audio_decode.sv, and the   *)
(* drain watchdog with the demux backpressure of emu.sv.  A byte is the     *)
(* number of its frame and its place in it; a descriptor's PTS stamp stands *)
(* for the number of the frame.                                             *)
(***************************************************************************)
EXTENDS Integers, Sequences

CONSTANTS
  ByteDepth, FrameDepth,     (* of the two rings: 32768 and 128              *)
  ByteRoom, FrameRoom,       (* headroom at which the demux is stalled       *)
  SpliceLen,                 (* 4: frames dropped after a splice             *)
  InFlight,                  (* bytes between demux and ring (the reframers) *)
  BpWd,                      (* the drain watchdog, 2^25 - 1 cycles          *)
  Mutes,                     (* whether Audio is switched inside a frame too *)
  MaxLen, MaxFrames, MaxEvents   (* bounds of the source and of the events   *)

ASSUME RingAssumption ==
  /\ ByteDepth \in Nat \ {0} /\ FrameDepth \in Nat \ {0} /\ BpWd \in Nat \ {0}
  /\ ByteRoom \in 0 .. ByteDepth /\ FrameRoom \in 0 .. FrameDepth
  /\ Mutes \in BOOLEAN
  /\ SpliceLen \in Nat \ {0} /\ MaxLen \in Nat \ {0}
  /\ {InFlight, MaxFrames, MaxEvents} \subseteq Nat
(* "Headroom covers [...] a PES payload in flight" (audio_ring.sv:121): 6144  *)
(* bytes and 8 descriptors for the nine bytes three reframers can hold, of     *)
(* which every second may finish a frame.                                     *)
ASSUME HeadroomAssumption == InFlight <= ByteRoom /\ InFlight <= 2 * FrameRoom + 1

VARIABLES
  mem, wr, rd, fill, avail,                    (* the byte ring              *)
  fsw, curLen, cur, dropping, open, dropCnt,   (* the frame being written    *)
  dmem, dWr, dRd, qCnt, head,                  (* the descriptors            *)
  ds, left, got,                               (* the dispatcher             *)
  wd, session,                                 (* drain watchdog, step       *)
  enable, pause, hold,                         (* Audio on, paused, a        *)
                                               (* deliberate hold            *)
  src,       (* history: number and last byte of the source's frame          *)
  flight,    (* bytes on their way to the ring                               *)
  garbage,   (* history: frames of a splice                                  *)
  unattended,(* history: since the ring was last below its headroom, nobody  *)
             (* had been reading it                                          *)
  quiet,     (* history: cycles since the reader last took or held a frame   *)
  left2      (* events still allowed                                         *)

bytes  == << mem, wr, rd, fill, avail >>
frame  == << fsw, curLen, cur, dropping, open, dropCnt >>
descs  == << dmem, dWr, dRd, qCnt, head >>
reader == << ds, left, got >>
emu    == << wd, session, enable, pause, hold >>
past   == << src, flight, garbage, unattended, quiet, left2 >>
vars   == << bytes, frame, descs, reader, emu, past >>

NoByte == << 0, 0 >>
NoDesc == [frame |-> 0, len |-> 0]
B(b) == IF b THEN 1 ELSE 0

RingEmpty ==
  /\ mem = [a \in 0 .. ByteDepth - 1 |-> NoByte] /\ wr = 0 /\ rd = 0 /\ fill = 0 /\ avail = 0
  /\ fsw = 0 /\ curLen = 0 /\ cur = 0 /\ dropping = FALSE /\ open = FALSE /\ dropCnt = 0
  /\ dmem = [a \in 0 .. FrameDepth - 1 |-> NoDesc] /\ dWr = 0 /\ dRd = 0 /\ qCnt = 0
  /\ head = NoDesc
  /\ ds = "IDLE" /\ left = 0 /\ got = NoDesc

Init ==
  /\ RingEmpty
  /\ wd = 0 /\ session = FALSE /\ enable = TRUE /\ pause = FALSE /\ hold = FALSE
  /\ src = NoByte /\ flight = 0 /\ garbage = {} /\ unattended = TRUE /\ quiet = BpWd
  /\ left2 = MaxEvents

(* head_v: a descriptor that has not been popped. *)
HeadV == head # NoDesc
Total == qCnt + B(HeadV)

AlmostFull_BytesOnly == fill >= ByteDepth - ByteRoom
AlmostFull == fill >= ByteDepth - ByteRoom \/ Total >= FrameDepth - FrameRoom
Armed      == wd # 0
PsAudReady == ~(AlmostFull /\ Armed /\ ~session)

(***************************************************************************)
(* dvd_audio_decode.sv: a descriptor is latched, popped, and its bytes are  *)
(* routed one at a time.  in.takes: what waits at the head is not held back *)
(* (pre_anchor_hold, disc_hold), or its codec has room (sink_ready).        *)
(***************************************************************************)
Consume(in) == ds = "ROUTE" /\ avail # 0 /\ in.takes
Pops        == ds = "POP"

Latch(in) ==
  /\ ds = "IDLE" /\ HeadV /\ in.takes
  /\ ds' = "POP" /\ left' = head.len /\ got' = head

Pop == Pops /\ ds' = (IF left = 0 THEN "IDLE" ELSE "ROUTE") /\ UNCHANGED << left, got >>

Route(in) ==
  /\ Consume(in)
  /\ ds' = (IF left = 1 THEN "IDLE" ELSE "ROUTE") /\ left' = left - 1 /\ UNCHANGED got

Waits(in) == ~(ds = "IDLE" /\ HeadV /\ in.takes) /\ ~Pops /\ ~Consume(in) /\ UNCHANGED reader

(* Audio Off parks the dispatcher wherever it is. *)
Parked == ds' = "IDLE" /\ UNCHANGED << left, got >>

Dispatcher(in) ==
  \/ ~enable /\ Parked
  \/ enable /\ (Latch(in) \/ Pop \/ Route(in) \/ Waits(in))

(***************************************************************************)
(* audio_ring.sv.                                                           *)
(***************************************************************************)
Starts(in) == in.byte = "start"
Fin(in)    == Starts(in) /\ open

Commit_Full(in) == Fin(in) /\ ~dropping /\ curLen # 0
Commit(in) == Fin(in) /\ ~dropping /\ curLen # 0 /\ qCnt # FrameDepth
Drop(in)   == Fin(in) /\ ~Commit(in) /\ (dropping \/ curLen # 0)

(* A dropped frame gives its bytes back: the write pointer is rewound. *)
WrAddr_NoRewind(in) == wr
WrAddr(in) == IF Drop(in) THEN fsw ELSE wr
FillT(in)  == fill - B(Consume(in)) - (IF Drop(in) THEN curLen ELSE 0)
AvailT(in) == avail - B(Consume(in)) + (IF Commit(in) THEN curLen ELSE 0)

HasSpace_NoSplice(in) == FillT(in) < ByteDepth
HasSpace(in) == FillT(in) < ByteDepth /\ dropCnt = 0

(* The byte that comes this cycle is stored, or its frame is given up. *)
Stores(in) == \/ Starts(in) /\ HasSpace(in)
              \/ in.byte = "next" /\ open /\ ~dropping /\ HasSpace(in)

(* The head register takes the next descriptor when it is free or freed. *)
Issue == (~HeadV \/ Pops) /\ qCnt # 0

Descriptors(in) ==
  /\ head' = IF Issue THEN dmem[dRd] ELSE IF Pops THEN NoDesc ELSE head
  /\ dRd' = (dRd + B(Issue)) % FrameDepth
  /\ dmem' = IF Commit(in) THEN [dmem EXCEPT ![dWr] = [frame |-> cur, len |-> curLen]]
                           ELSE dmem
  /\ dWr' = (dWr + B(Commit(in))) % FrameDepth
  /\ qCnt' = qCnt + B(Commit(in)) - B(Issue)

Bytes(in) ==
  /\ mem' = IF Stores(in) THEN [mem EXCEPT ![WrAddr(in)] = src'] ELSE mem
  /\ wr' = IF Stores(in) THEN (WrAddr(in) + 1) % ByteDepth ELSE WrAddr(in)
  /\ fill' = FillT(in) + B(Stores(in))
  /\ avail' = AvailT(in)
  /\ rd' = IF Consume(in) THEN (rd + 1) % ByteDepth ELSE rd

FrameInWork(in) ==
  /\ fsw' = IF Starts(in) THEN WrAddr(in) ELSE fsw
  /\ cur' = IF Starts(in) THEN src'[1] ELSE cur
  /\ open' = (open \/ Starts(in))
  /\ curLen' = CASE Starts(in) -> B(Stores(in))
                 [] ~Starts(in) -> curLen + B(Stores(in))
  /\ dropping' = \/ in.splice /\ open
                 \/ Starts(in) /\ ~Stores(in)
                 \/ ~Starts(in) /\ dropping
                 \/ in.byte = "next" /\ open /\ ~Stores(in)
  /\ dropCnt' = IF in.splice THEN SpliceLen
                ELSE IF Starts(in) /\ dropCnt # 0 THEN dropCnt - 1 ELSE dropCnt

(***************************************************************************)
(* emu.sv: the watchdog, the step session, the demux.                       *)
(***************************************************************************)
Watchdog_PopsOnly == wd' = IF Pops THEN BpWd ELSE IF Armed /\ ~pause THEN wd - 1 ELSE wd
Watchdog_AnyStall == wd' = IF ds # "IDLE" \/ hold THEN BpWd
                           ELSE IF Armed /\ ~pause THEN wd - 1 ELSE wd
Watchdog == wd' = IF Pops \/ hold THEN BpWd ELSE IF Armed /\ ~pause THEN wd - 1 ELSE wd

StepSession(in) == session' = (pause /\ (in.step \/ session))

(* The source: each byte it hands over arrives a few cycles later, and a     *)
(* frame has at least two.                                                   *)
Source(in) ==
  /\ CASE in.byte = "none"  -> src' = src
       [] in.byte = "start" -> src[2] # 1 /\ src[1] < MaxFrames /\ src' = << src[1] + 1, 1 >>
       [] in.byte = "next"  -> src[1] > 0 /\ src[2] < MaxLen /\ src' = << src[1], src[2] + 1 >>
  /\ flight' = flight + B(in.sends) - B(in.byte # "none")
  /\ in.sends => PsAudReady
  /\ flight' \in 0 .. InFlight

History(in) ==
  /\ garbage' = IF in.splice
                THEN garbage \cup {f \in src'[1] .. src'[1] + SpliceLen : f # 0}
                ELSE garbage
  /\ quiet' = IF Pops \/ hold THEN 0 ELSE IF quiet < BpWd /\ ~pause THEN quiet + 1 ELSE quiet
  /\ unattended' = IF Starts(in) /\ ~AlmostFull THEN FALSE
                   ELSE unattended \/ quiet = BpWd \/ session

(* The user's levels, and that of a deliberate hold (passthrough's, or the   *)
(* drain gate's before playback).                                            *)
Levels(in) ==
  /\ in.audio => Mutes \/ ds' = "IDLE"
  /\ enable' = (enable # in.audio) /\ pause' = (pause # in.pausing)
  /\ hold' \in BOOLEAN

Inputs == [byte : {"none", "start", "next"}, sends : BOOLEAN, takes : BOOLEAN,
           splice : BOOLEAN, step : BOOLEAN, audio : BOOLEAN, pausing : BOOLEAN]
Events(in) == B(in.splice) + B(in.step) + B(in.audio) + B(in.pausing)

Clock(in) ==
  /\ Events(in) <= left2 /\ left2' = left2 - Events(in)
  /\ Source(in) /\ Dispatcher(in) /\ Descriptors(in) /\ Bytes(in) /\ FrameInWork(in)
  /\ Watchdog /\ StepSession(in) /\ Levels(in) /\ History(in)

(* aud_rst_n: a seek, a jump that is no menu hop, a new sound track. *)
AudioReset ==
  /\ left2 > 0 /\ left2' = left2 - 1
  /\ mem' = [a \in 0 .. ByteDepth - 1 |-> NoByte] /\ wr' = 0 /\ rd' = 0 /\ fill' = 0 /\ avail' = 0
  /\ fsw' = 0 /\ curLen' = 0 /\ cur' = 0 /\ dropping' = FALSE /\ open' = FALSE /\ dropCnt' = 0
  /\ dmem' = [a \in 0 .. FrameDepth - 1 |-> NoDesc] /\ dWr' = 0 /\ dRd' = 0 /\ qCnt' = 0
  /\ head' = NoDesc
  /\ ds' = "IDLE" /\ left' = 0 /\ got' = NoDesc
  /\ garbage' = {}
  /\ UNCHANGED << emu, src, flight, unattended, quiet >>

Next == AudioReset \/ \E in \in Inputs : Clock(in)
Spec == Init /\ [][Next]_vars

(* The clock runs: a pop takes one cycle, and the watchdog counts down.      *)
(* Cycles in which nothing comes in are enough; nothing is assumed of the    *)
(* source, the decoder, or who holds or pauses: fairness never makes a hold.  *)
Idle == [byte |-> "none", sends |-> FALSE, takes |-> FALSE, splice |-> FALSE,
         step |-> FALSE, audio |-> FALSE, pausing |-> FALSE]
FairSpec ==
  /\ Spec
  /\ WF_vars(Pops /\ Clock(Idle))
  /\ WF_vars(Armed /\ ~pause /\ ~Pops /\ ~hold /\ Clock(Idle) /\ ~hold')

(***************************************************************************)
(* Properties.                                                              *)
(***************************************************************************)

(* Ranges: no counter passes the size of its ring, and what the reader may   *)
(* see is never more than what is there.                                     *)
TypeOK ==
  /\ wr \in 0 .. ByteDepth - 1 /\ rd \in 0 .. ByteDepth - 1
  /\ fill \in 0 .. ByteDepth /\ avail \in 0 .. fill /\ curLen \in 0 .. fill
  /\ qCnt \in 0 .. FrameDepth /\ dWr \in 0 .. FrameDepth - 1 /\ dRd \in 0 .. FrameDepth - 1
  /\ fsw \in 0 .. ByteDepth - 1 /\ dropCnt \in 0 .. SpliceLen
  /\ ds \in {"IDLE", "POP", "ROUTE"} /\ left \in 0 .. MaxLen /\ wd \in 0 .. BpWd
  /\ {open, dropping, session, enable, pause, hold, unattended} \subseteq BOOLEAN

(* Whatever is dropped, rewound or taken in the same cycle, the byte offered *)
(* to the decoder is the next one of the frame whose descriptor it took, and *)
(* the whole of that frame is there: the dispatcher never waits inside one.  *)
ReadsItsFrame ==
  ds = "ROUTE" => avail >= left /\ mem[rd] = << got.frame, got.len - left + 1 >>

(* No frame of a splice is ever given to the decoder.                        *)
SpliceUnheard == ds # "IDLE" => got.frame \notin garbage

(* A frame that no splice asked for is dropped, for want of bytes in the      *)
(* middle of it or of a descriptor at its end, only when nobody had been       *)
(* reading the ring (no pop and no deliberate hold for a whole watchdog        *)
(* period), or in a frame-step session: the headroom covers what is on its way.*)
AStart == [Idle EXCEPT !.byte = "start"]
LossOnlyUnattended ==
  [][src'[1] # src[1] /\ Drop(AStart) /\ cur \notin garbage
     => unattended \/ unattended']_vars

(* The ring with its dispatcher is a queue of whole frames.                  *)
Resident == [i \in 1 .. qCnt |-> dmem[(dRd + i - 1) % FrameDepth]]
Waiting == (IF HeadV /\ ~Pops THEN << head >> ELSE << >>) \o Resident
Frames == INSTANCE AudioQueue
            WITH Frame   <- [frame : 1 .. MaxFrames, len : 1 .. MaxLen],
                 queue   <- Waiting,
                 reading <- got,
                 unread  <- left
AsQueue == Frames!Spec

(* The audio never stalls the stream, and with it the video, for good, even  *)
(* when the decoder is dead: unless the player stays paused or a deliberate  *)
(* hold never ends, the demux may always go on.                              *)
NeverWedged == <>[]~hold /\ []<>~pause => []<>PsAudReady
=============================================================================
