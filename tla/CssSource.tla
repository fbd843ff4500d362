------------------------------ MODULE CssSource ------------------------------
(***************************************************************************)
(* The source behind the read-ahead ring (dvd_css.cpp): one thread asks it    *)
(* for windows of sectors, css_src_read() puts a window together from drive   *)
(* commands, each within one key domain of libdvdcss, and where a command     *)
(* fails in an IFO or its BUP it walks on a sector at a time and takes what   *)
(* is unreadable from the other copy.                                        *)
(*                                                                         *)
(* Every step is one drive command with what the code does before and after   *)
(* it; between two commands a sector may go bad or come back.  A sector is     *)
(* its number and the form in which it is handed on.  The ISO 9660 walk, the  *)
(* logs and the fault injection of the test rig are left out.                *)
(***************************************************************************)
EXTENDS Integers, Sequences, FiniteSets, FiniteSetsExt

CONSTANTS
  Total,      (* sectors of the disc                                          *)
  Vobs,       (* the VOB extents in the order of the directory                *)
  Pairs,      (* the files of a title set that has both an IFO and a BUP      *)
  Scrambled,  (* the sectors of VOBs that are scrambled                       *)
  Truths,     (* the title keys the VOBs may be scrambled with, by extent     *)
  Counts,     (* the lengths of a window: Main's, a burst's, a retry's        *)
  Bads,       (* the sets of sectors a disc may be mounted with unreadable    *)
  Wears,      (* the sectors that may change under a mounted disc             *)
  MaxMirror,  (* entries of g_mir: 256                                        *)
  MaxWorn     (* bound: how often one does                                    *)

Sectors == 0 .. Total - 1
VobIds  == DOMAIN Vobs
None    == -1                        (* no sector, no key, no position        *)
Zero    == 0                         (* the key that decrypts nothing         *)

Extent(v) == Vobs[v].start .. Vobs[v].start + Vobs[v].nsec - 1
VobSectors == UNION {Extent(v) : v \in VobIds}

ASSUME DiscAssumption ==
  /\ Total \in Nat /\ Scrambled \subseteq VobSectors /\ VobSectors \subseteq Sectors
  /\ Vobs \in Seq([start : Nat, nsec : Nat, tt : Int, part : Int])
  /\ \A v, w \in VobIds : v # w => Extent(v) \cap Extent(w) = {}
  /\ Pairs \subseteq [ifo : Nat, nifo : Nat, bup : Nat, nbup : Nat]
  /\ Counts \subseteq Nat \ {0}

(***************************************************************************)
(* What enumerate_vobs() makes of the directory.                            *)
(***************************************************************************)
PartOnes(v) == {w \in VobIds : Vobs[w].tt = Vobs[v].tt /\ Vobs[w].part = 1}
KeyBlock(v) == IF Vobs[v].tt >= 0 /\ Vobs[v].part >= 2 /\ PartOnes(v) # {}
               THEN Vobs[Min(PartOnes(v))].start ELSE Vobs[v].start

VobAt(s) == {v \in VobIds : s \in Extent(v)}
VobEnd(v) == Vobs[v].start + Vobs[v].nsec
Behind(s) == {Vobs[v].start : v \in {w \in VobIds : Vobs[w].start > s}}

Trusted(p) == p.nifo = p.nbup /\ p.nifo > 0 /\ p.ifo # p.bup
InIfo(p, s) == s \in p.ifo .. p.ifo + p.nifo - 1
InBup(p, s) == s \in p.bup .. p.bup + p.nbup - 1
PairSectors == {s \in Sectors : \E p \in Pairs : Trusted(p) /\ (InIfo(p, s) \/ InBup(p, s))}
Twin(s) == LET p == CHOOSE q \in Pairs : Trusted(q) /\ (InIfo(q, s) \/ InBup(q, s))
           IN  IF InIfo(p, s) THEN p.bup + (s - p.ifo) ELSE p.ifo + (s - p.bup)

(* A directory in which every file has its own sectors: of two sets that share *)
(* one, pair_twin() finds the first.                                         *)
ASSUME PairAssumption ==
  /\ \A p \in Pairs : Trusted(p) => p.ifo + p.nifo <= Total /\ p.bup + p.nbup <= Total
  /\ \A p, q \in Pairs, s \in Sectors : Trusted(p) /\ Trusted(q) =>
       /\ ~(InIfo(p, s) /\ InBup(q, s))
       /\ (InIfo(p, s) /\ InIfo(q, s)) \/ (InBup(p, s) /\ InBup(q, s)) => p = q

KeysOf(t, b) == {t[v] : v \in VobAt(b)}

(* A title set has one key, taken at its part 1.                             *)
ASSUME TruthAssumption ==
  \A t \in Truths, v \in VobIds : t[v] \in Nat \ {Zero} /\ KeysOf(t, KeyBlock(v)) = {t[v]}

VARIABLES
  src,        (* "css": libdvdcss; "raw": the drive, or a plain file; "none"  *)
  bad,        (* the sectors that cannot be read now                          *)
  worn,       (* how often that has changed since the mount                   *)
  truth,      (* the title key each extent is scrambled with                  *)
  css,        (* the key tables of dvd_css.cpp, and libdvdcss itself          *)
  mir,        (* g_mir: what is remembered of the sectors of the pairs        *)
  back,       (* history: remembered sectors the drive was sent back to       *)
  pc, req, walk, win   (* css_src_read(): its arguments and locals            *)

disc == << src, truth >>
vars == << disc, bad, worn, css, mir, back, pc, req, walk, win >>

(***************************************************************************)
(* A mount: the disc, the tables, and the title keys that cracking each key   *)
(* block once has given; of a block it gave none for, nothing is cached.     *)
(***************************************************************************)
KeyBlocks == {KeyBlock(v) : v \in VobIds}
Primed(t, b) == {None, Zero} \cup KeysOf(t, b)
Primings(t) == {[b \in VobSectors |-> IF b \in KeyBlocks THEN k[b] ELSE None] :
                  k \in {f \in [KeyBlocks -> UNION {Primed(t, b) : b \in KeyBlocks}] :
                           \A b \in KeyBlocks : f[b] \in Primed(t, b)}}

Opened_OwnStart(c) == [pos |-> None, cur |-> None, ok |-> FALSE,
              key |-> [v \in VobIds |-> Vobs[v].start], tried |-> {},
              lib |-> Zero, at |-> None, cache |-> c,
              again |-> FALSE, stray |-> FALSE]
Opened(c) == [pos |-> None, cur |-> None, ok |-> FALSE,
              key |-> [v \in VobIds |-> KeyBlock(v)], tried |-> {},
              lib |-> Zero, at |-> None, cache |-> c,
              again |-> FALSE, stray |-> FALSE]
NoKeys == Opened([b \in VobSectors |-> None])
Blank  == [s \in PairSectors |-> "unknown"]

Init ==
  /\ src = "none" /\ truth = << >> /\ bad = {} /\ worn = 0
  /\ css = NoKeys /\ mir = Blank /\ back = {}
  /\ pc = "idle" /\ req = << 0, 0 >> /\ walk = FALSE /\ win = << >>

Open ==
  /\ src = "none" /\ src' \in {"css", "raw"}
  /\ truth' \in Truths /\ bad' \in Bads
  /\ IF src' = "css" THEN \E c \in Primings(truth') : css' = Opened(c) ELSE css' = NoKeys
  /\ mir' = Blank
  /\ UNCHANGED << worn, back, pc, req, walk, win >>

(* dvd_css_close() stops the thread first.  What is remembered of the pairs   *)
(* stays until the next open.                                               *)
Close ==
  /\ src # "none" /\ pc = "idle" /\ src' = "none"
  /\ truth' = << >> /\ bad' = {} /\ worn' = 0 /\ css' = NoKeys /\ back' = {}
  /\ req' = << 0, 0 >> /\ win' = << >> /\ walk' = FALSE /\ UNCHANGED << mir, pc >>

(* A scratch that gets worse, a sector that reads at another attempt.        *)
Wear ==
  /\ src # "none" /\ worn < MaxWorn /\ worn' = worn + 1
  /\ \E s \in Wears : bad' = IF s \in bad THEN bad \ {s} ELSE bad \cup {s}
  /\ UNCHANGED << disc, css, mir, back, pc, req, walk, win >>

(***************************************************************************)
(* libdvdcss and the drive.  `at' is where libdvdcss stands, `lib' the title  *)
(* key it would decrypt with; `cache' is exact in the block a key was asked   *)
(* at.  Each operator returns the set of what may happen.                    *)
(***************************************************************************)
Astray(c) == [c EXCEPT !.at = None]
Given(c, b, k) == [c EXCEPT !.cache[b] = k, !.lib = k, !.at = b]

SeekKey(c, b) ==
  IF c.cache[b] # None THEN {[ok |-> TRUE, c |-> Given(c, b, c.cache[b])]}
  ELSE {[ok |-> FALSE, c |-> Astray(c)]}
       \cup {[ok |-> TRUE, c |-> Given(c, b, k)] : k \in {Zero} \cup KeysOf(truth, b)}

Seek(c, s) == {[ok |-> TRUE, c |-> [c EXCEPT !.at = s]]}
              \cup (IF s \in bad THEN {[ok |-> FALSE, c |-> Astray(c)]} ELSE {})

Form(s, decrypt, key) ==
  IF decrypt /\ s \notin VobSectors THEN "noise"
  ELSE IF s \notin Scrambled THEN "plain"
  ELSE IF ~decrypt \/ key = Zero THEN "scrambled"
  ELSE IF KeysOf(truth, s) = {key} THEN "clear" ELSE "noise"

(* A command that meets a bad sector fails whole, or ends before it.         *)
Lengths(s, n) ==
  LET hit == {u \in s .. s + n - 1 : u \in bad}
  IN  IF hit = {} THEN {n} ELSE {-1} \cup ({Min(hit) - s} \ {0})
Got(s, n, decrypt, key) == [i \in 1 .. n |-> [lba |-> s + i - 1, form |-> Form(s + i - 1, decrypt, key)]]

Read(c, n, decrypt) ==
  {[n |-> m, c |-> [c EXCEPT !.at = IF m > 0 THEN @ + m ELSE None],
    got |-> IF m > 0 THEN Got(c.at, m, decrypt, c.lib) ELSE << >>] : m \in Lengths(c.at, n)}

(***************************************************************************)
(* heal_key(): the domain handed on a scrambled sector.  The title set's      *)
(* other key, then one taken at the sector, each believed only when it makes  *)
(* sense of a window of the disc.                                           *)
(***************************************************************************)
Siblings(c, v) ==
  {w \in VobIds : /\ Vobs[v].tt >= 0 /\ Vobs[v].part >= 0
                  /\ Vobs[w].tt = Vobs[v].tt /\ Vobs[w].part >= 0
                  /\ (Vobs[w].part = 0) # (Vobs[v].part = 0) /\ c.key[w] # c.key[v]}

TryKey_Unproven(c, b, v) ==
  {[won |-> k.ok /\ k.c.lib # Zero, c |-> Astray(k.c), b |-> b] : k \in SeekKey(c, b)}
(* Random bytes hold no start codes; the right key may show too few of them. *)
TryKey(c, b, v) ==
  UNION {{[won |-> k.ok /\ k.c.lib = truth[v] /\ seen, c |-> Astray(k.c), b |-> b] :
            seen \in BOOLEAN} : k \in SeekKey(c, b)}

Candidates(c, v, s) ==
  IF Siblings(c, v) = {} THEN TryKey(c, s, v)
      ELSE LET other == TryKey(c, c.key[Min(Siblings(c, v))], v)
           IN  {t \in other : t.won} \cup UNION {TryKey(t.c, s, v) : t \in {u \in other : ~u.won}}

Proven(c, old, b) ==
  [c EXCEPT !.key = [v \in VobIds |-> IF @[v] = old THEN b ELSE @[v]],
            !.cur = b, !.ok = TRUE, !.pos = None]
Verdict(c, old, ok) == [c EXCEPT !.cur = old, !.ok = ok, !.pos = None]
Restored_Left(c, old, had) == {Verdict(c, old, had)}
Restored(c, old, had) == IF had THEN {Verdict(k.c, old, k.ok) : k \in SeekKey(c, old)}
                                ELSE {Verdict(c, old, FALSE)}

Tried(c, old) == [c EXCEPT !.tried = @ \cup {w \in VobIds : c.key[w] = old}, !.at = None]

Heal(c, v, s) ==
  LET old  == c.key[v]
      once == Tried(c, old)
      Lost(d) == {[won |-> FALSE, c |-> r] : r \in Restored(d, old, c.ok)}
  IN  IF (s .. VobEnd(v) - 1) \cap bad # {} THEN Lost(once)
      ELSE UNION {IF t.won THEN {[won |-> TRUE, c |-> Proven(t.c, old, t.b)]} ELSE Lost(t.c) :
                    t \in Candidates(once, v, s)}

(***************************************************************************)
(* css_read_chunk(): one command within one key domain.                      *)
(***************************************************************************)
Within_Raw(s, n) == IF VobAt(s) = {} THEN n
                    ELSE Min({n} \cup {VobEnd(v) - s : v \in VobAt(s)})
Within(s, n) == IF VobAt(s) = {} THEN Min({n} \cup {b - s : b \in Behind(s)})
                ELSE Min({n} \cup {VobEnd(v) - s : v \in VobAt(s)})

Select(c, v) ==
  LET b == c.key[v]
  IN  IF b = c.cur THEN {c}
      ELSE {[k.c EXCEPT !.cur = b, !.ok = k.ok, !.pos = IF k.ok THEN b ELSE None,
                        !.stray = @ \/ (c.cache[b] = None /\ b \notin KeyBlocks),
                        !.again = @ \/ (c.cache[b] = None /\ v \in c.tried)] :
              k \in SeekKey(c, b)}

Place(c, s) == IF c.pos = s THEN {[ok |-> TRUE, c |-> c]} ELSE Seek(c, s)

Keyless(c) == [c EXCEPT !.cur = None, !.ok = FALSE]
Failed(c) == [n |-> -1, c |-> [c EXCEPT !.pos = None], got |-> << >>]
Handed(r, s) == [r EXCEPT !.c.pos = IF r.n > 0 THEN s + r.n ELSE None]

(* What is still scrambled is read again with a key that has been proven.    *)
UpTo(c, r, j) == [n |-> IF j > 1 THEN j - 1 ELSE -1, c |-> [c EXCEPT !.pos = None],
                  got |-> SubSeq(r.got, 1, j - 1)]
Again(c, r, j, s) ==
  LET rest == r.n - j + 1
  IN  UNION {IF ~p.ok THEN {UpTo(p.c, r, j)}
             ELSE {IF q.n = rest
                   THEN [n |-> r.n, c |-> [q.c EXCEPT !.pos = s + r.n], got |-> SubSeq(r.got, 1, j - 1) \o q.got]
                   ELSE UpTo(q.c, r, j) : q \in Read(p.c, rest, TRUE)} :
               p \in Seek(c, s + j - 1)}

Scan(r, v, s) ==
  LET left == {i \in DOMAIN r.got : r.got[i].form = "scrambled"}
  IN  IF left = {} \/ v \in r.c.tried THEN {Handed(r, s)}
      ELSE UNION {IF h.won THEN Again(h.c, r, Min(left), s) ELSE {[r EXCEPT !.c = h.c]} :
                    h \in Heal(r.c, v, s + Min(left) - 1)}

VobChunk(c, v, s, n) ==
  UNION {UNION {IF ~p.ok THEN {Failed(Keyless(p.c))}
                ELSE UNION {Scan(r, v, s) : r \in Read(p.c, n, p.c.ok)} : p \in Place(d, s)} :
           d \in Select(c, v)}
OtherChunk(c, s, n) ==
  UNION {IF ~p.ok THEN {Failed(p.c)}
         ELSE {Handed(r, s) : r \in Read(Keyless(p.c), n, FALSE)} :
           p \in Place(c, s)}

RawChunk(s, n) == {[n |-> m, c |-> css, got |-> IF m > 0 THEN Got(s, m, FALSE, Zero) ELSE << >>] :
                     m \in Lengths(s, n)}

SrcChunk(s, n) ==
  IF src = "raw" THEN RawChunk(s, n)
  ELSE IF VobAt(s) = {} THEN OtherChunk(css, s, Within(s, n))
  ELSE VobChunk(css, Min(VobAt(s)), s, Within(s, n))

(***************************************************************************)
(* css_src_read().                                                          *)
(***************************************************************************)
At   == req[1] + Len(win)
Room == req[2] - Len(win)

Known(s) == s \in PairSectors /\ mir[s] # "unknown"
Remembered == {s \in PairSectors : Known(s)}

(* mir_add(), and the entries that are there already.                        *)
Note(m, s, what) ==
  IF m[s] # "unknown" \/ Cardinality({u \in PairSectors : m[u] # "unknown"}) < MaxMirror
  THEN [m EXCEPT ![s] = what] ELSE m

Clamped_Never(s, n) == n
Clamped(s, n) == Min({n} \cup {u - s : u \in {w \in Remembered : w > s}})
Overlaps_First(s, n) == s \in PairSectors
Overlaps(s, n) == (s .. s + n - 1) \cap PairSectors # {}

(* The drive is sent to the sectors from s: css' is what the chunk made of it. *)
Commanded(s, n) ==
  back' = back \cup {u \in Remembered : u \in s .. s + (IF src = "raw" THEN n ELSE Within(s, n)) - 1}

Serve(got) == /\ win' = win \o got
              /\ pc' = IF Len(got) = Room THEN "idle" ELSE "loop"
GiveUp_Short == win' = win /\ pc' = "idle"
GiveUp == /\ pc' = "idle"
          /\ win' = IF win = << >> THEN win
                    ELSE win \o [i \in 1 .. Room |-> [lba |-> None, form |-> "zero"]]

Call ==
  /\ src # "none" /\ pc = "idle" /\ pc' = "loop"
  /\ \E s \in Sectors, n \in Counts : s + n <= Total /\ req' = << s, n >>
  /\ walk' = FALSE /\ win' = << >>
  /\ UNCHANGED << disc, bad, worn, css, mir, back >>

Window ==
  /\ pc = "loop" /\ ~walk /\ ~Known(At)
  /\ LET n == Clamped(At, Room)
     IN  /\ Commanded(At, n)
         /\ \E r \in SrcChunk(At, n) :
              /\ css' = r.c
              /\ \/ r.n > 0 /\ Serve(r.got) /\ UNCHANGED walk
                 \/ r.n < 0 /\ Overlaps(At, n) /\ walk' = TRUE /\ UNCHANGED << pc, win >>
                 \/ r.n < 0 /\ ~Overlaps(At, n) /\ GiveUp /\ UNCHANGED walk
  /\ UNCHANGED << disc, bad, worn, mir, req >>

Single ==
  /\ pc = "loop" /\ walk /\ At \notin PairSectors
  /\ Commanded(At, 1)
  /\ \E r \in SrcChunk(At, 1) : css' = r.c /\ (IF r.n > 0 THEN Serve(r.got) ELSE GiveUp)
  /\ UNCHANGED << disc, bad, worn, mir, req, walk >>

(* pair_sector(): itself the first time round, else its twin, else itself     *)
(* after all; a failure of both is remembered on both sides.                 *)
Dead ==
  /\ pc = "loop" /\ At \in PairSectors /\ mir[At] = "dead"
  /\ GiveUp
  /\ UNCHANGED << disc, bad, worn, css, mir, back, req, walk >>

Own ==
  /\ pc = "loop" /\ walk /\ At \in PairSectors /\ mir[At] = "unknown"
  /\ Commanded(At, 1)
  /\ \E r \in SrcChunk(At, 1) :
       css' = r.c /\ (IF r.n = 1 THEN Serve(r.got) ELSE pc' = "twin" /\ UNCHANGED win)
  /\ UNCHANGED << disc, bad, worn, mir, req, walk >>

Skip ==
  /\ pc = "loop" /\ At \in PairSectors /\ mir[At] = "twin"
  /\ pc' = "twin"
  /\ UNCHANGED << disc, bad, worn, css, mir, back, req, walk, win >>

TwinDead ==
  /\ pc = "twin" /\ mir[Twin(At)] = "dead"
  /\ mir' = IF Known(At) THEN mir ELSE Note(mir, At, "dead")
  /\ GiveUp
  /\ UNCHANGED << disc, bad, worn, css, back, req, walk >>

BothDead == Note(Note(mir, At, "dead"), Twin(At), "dead")

FromTwin ==
  /\ pc = "twin" /\ mir[Twin(At)] # "dead"
  /\ Commanded(Twin(At), 1)
  /\ \E r \in SrcChunk(Twin(At), 1) :
       /\ css' = r.c
       /\ \/ r.n = 1 /\ Serve(r.got) /\ mir' = IF Known(At) THEN mir ELSE Note(mir, At, "twin")
          \/ r.n < 0 /\ Known(At) /\ pc' = "again" /\ UNCHANGED << win, mir >>
          \/ r.n < 0 /\ ~Known(At) /\ GiveUp /\ mir' = BothDead
  /\ UNCHANGED << disc, bad, worn, req, walk >>

AfterAll ==
  /\ pc = "again"
  /\ Commanded(At, 1)
  /\ \E r \in SrcChunk(At, 1) :
       /\ css' = r.c
       /\ IF r.n = 1 THEN Serve(r.got) /\ UNCHANGED mir ELSE GiveUp /\ mir' = BothDead
  /\ UNCHANGED << disc, bad, worn, req, walk >>

Next == Open \/ Close \/ Wear \/ Call \/ Window \/ Single \/ Dead \/ Own \/ Skip \/ TwinDead \/ FromTwin \/ AfterAll
Spec == Init /\ [][Next]_vars

(***************************************************************************)
(* Properties.                                                              *)
(***************************************************************************)
Keys  == {None, Zero} \cup UNION {{t[v] : v \in VobIds} : t \in Truths}
Forms == {"plain", "clear", "scrambled", "noise", "zero"}
Slot  == [lba : Sectors \cup {None}, form : Forms]

(* The types of the state: where libdvdcss stands and what the tables hold.   *)
TypeOK ==
  /\ src \in {"none", "css", "raw"} /\ bad \subseteq Sectors /\ worn \in 0 .. MaxWorn
  /\ truth \in Truths \/ src = "none"
  /\ css.pos \in {None} \cup 0 .. Total /\ css.cur \in {None} \cup VobSectors /\ css.ok \in BOOLEAN
  /\ css.key \in [VobIds -> VobSectors] /\ css.tried \subseteq VobIds
  /\ css.lib \in Keys /\ css.at \in {None} \cup 0 .. Total /\ css.cache \in [VobSectors -> Keys]
  /\ css.again \in BOOLEAN /\ css.stray \in BOOLEAN
  /\ mir \in [PairSectors -> {"unknown", "twin", "dead"}] /\ back \subseteq PairSectors
  /\ pc \in {"idle", "loop", "twin", "again"} /\ walk \in BOOLEAN
  /\ req \in Nat \X Nat /\ win \in Seq(Slot)

Returned == src # "none" /\ pc = "idle" /\ req[2] > 0
Wanted(i) == req[1] + i - 1
Unserved(i) == i \in 1 .. req[2] /\ (i > Len(win) \/ win[i].form = "zero")

(* What css_src_read() answers is a failure or the whole window: each sector   *)
(* at its place, a pair's sector from the other copy only where its own does  *)
(* not read, and zeros only behind the last sector that could be had.        *)
WindowServed ==
  Returned /\ win # << >> =>
    /\ Len(win) = req[2] /\ ~Unserved(1)
    /\ \A i \in 1 .. req[2] :
         \/ Unserved(i) /\ \A j \in i .. req[2] : Unserved(j)
         \/ win[i].lba = Wanted(i)
         \/ /\ Wanted(i) \in PairSectors /\ win[i].lba = Twin(Wanted(i))
            /\ worn = 0 => Wanted(i) \in bad

(* On a disc that does not change, a window ends early only for what no copy   *)
(* of a sector gives: that sector itself in a pair, one behind it elsewhere.   *)
MirrorServes ==
  Returned /\ worn = 0 =>
    \A i \in 1 .. req[2] : Unserved(i) /\ (i > 1 => ~Unserved(i - 1)) =>
      IF Wanted(i) \in PairSectors THEN {Wanted(i), Twin(Wanted(i))} \subseteq bad
      ELSE \E j \in i .. req[2] : /\ Wanted(j) \in bad
                                  /\ Wanted(j) \in PairSectors => Twin(Wanted(j)) \in bad

(* "so a window never sends the drive back to it": a sector of a pair that     *)
(* was found bad is not part of any command again.                           *)
NeverBack == worn = 0 => back = {}

(* A wrong key turns a sector into noise: whatever the drive gives for keys,   *)
(* and whichever were tried and given up, nothing is ever decrypted with a   *)
(* key that is not its own, and nothing outside a VOB is decrypted at all.    *)
NeverNoise == \A i \in DOMAIN win : win[i].form # "noise"

(* A sector goes out scrambled through libdvdcss only after a heal of its key  *)
(* domain has been tried: none passes unseen, in a window that began before   *)
(* its VOB or in one that libdvdcss decrypted with a key that is zero.        *)
ScrambledSeen ==
  \A i \in DOMAIN win : src = "css" /\ win[i].form = "scrambled" => VobAt(win[i].lba) \subseteq css.tried

(* The thread that feeds the core asks for a title key only where one was      *)
(* asked for at the mount or has been proven: anywhere else it is cracked     *)
(* again, for seconds or minutes.                                           *)
NoStrayCrack == ~css.stray

(* docs/physical_disc.md:486: a key block that gave no key is not asked again  *)
(* once the heal of its domain has failed.                                   *)
NotAskedAgain == ~css.again
=============================================================================
