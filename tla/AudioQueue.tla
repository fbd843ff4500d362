----------------------------- MODULE AudioQueue -----------------------------
(***************************************************************************)
(* What the audio frame buffer promises (audio_ring.sv, header): the reader *)
(* sees whole frames only, in the order in which they came, and reads of    *)
(* each exactly its bytes.  A frame that did not fit, or that was cut off,  *)
(* has never been there.                                                    *)
(***************************************************************************)
EXTENDS Naturals, Sequences

CONSTANT Frame               (* descriptors: which frame, and how long      *)

VARIABLES
  queue,                     (* the frames that can be taken                *)
  reading,                   (* the frame taken last, None before the first *)
  unread                     (* how many of its bytes are still to be read  *)

None == [frame |-> 0, len |-> 0]

Init == queue = << >> /\ reading = None /\ unread = 0

(* The writer adds nothing, or one whole frame, behind the others q.        *)
Newer(f) == \A g \in {queue[i] : i \in DOMAIN queue} \cup {reading} : f.frame > g.frame
Writes(q) == queue' = q \/ \E f \in Frame : Newer(f) /\ queue' = Append(q, f)

(* A clock edge: the writer may add a frame, while the reader takes the     *)
(* first one (having read all of the one before), reads a byte, or waits.   *)
Tick ==
  \/ /\ Writes(queue)
     /\ UNCHANGED reading
     /\ \/ unread' = unread
        \/ unread > 0 /\ unread' = unread - 1
  \/ /\ queue # << >> /\ unread = 0
     /\ reading' = Head(queue) /\ unread' = Head(queue).len
     /\ Writes(Tail(queue))

(* A seek, a jump or a change of the sound track: everything is forgotten.  *)
Flush == queue' = << >> /\ reading' = None /\ unread' = 0

Next == Tick \/ Flush
Spec == Init /\ [][Next]_<< queue, reading, unread >>
=============================================================================
