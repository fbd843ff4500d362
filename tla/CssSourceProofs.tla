--------------------------- MODULE CssSourceProofs ---------------------------
(***************************************************************************)
(* What the sectors of a window look like, for every disc: libdvdcss never    *)
(* decrypts with a key that is not the sector's own, what goes out scrambled   *)
(* has had its domain healed in vain, and a key is asked for only where one    *)
(* was asked for at the mount or has been proven.  And which sectors they are: *)
(* those that were asked for, or their twins, as far as any copy reads.       *)
(*                                                                         *)
(* Two invariants.  IInv is about the tables behind the window: Sound says     *)
(* what the key cache holds at the block each domain is keyed at, whoever      *)
(* asked for it; Selected, that libdvdcss stands on the key cur_key names      *)
(* whenever key_ok says so; Placed, that css_pos is where it stands.  Mirrored *)
(* is about the pairs: Memory says that what is remembered is true of a disc   *)
(* that has not changed; Running and Stopped, what a window holds so far and   *)
(* why it ended.                                                            *)
(***************************************************************************)
EXTENDS CssSource, WellFoundedInduction, SequenceTheorems, TLAPS

USE DEF None, Zero

CssT == [pos : Int, cur : Int, ok : BOOLEAN, key : [VobIds -> VobSectors],
         tried : SUBSET VobIds, lib : Int, at : Int, cache : [VobSectors -> Int],
         again : BOOLEAN, stray : {FALSE}]

SlotT == [lba : Int, form : Forms]

Sound(c) ==
  /\ c \in CssT
  /\ \A v \in VobIds : c.cache[c.key[v]] \in {None, Zero, truth[v]}
  /\ \A v \in VobIds : c.cache[c.key[v]] = None => c.key[v] \in KeyBlocks /\ KeysOf(truth, c.key[v]) \subseteq {truth[v]}
  /\ \A v, w \in VobIds : c.key[v] = c.key[w] => truth[v] = truth[w]

Selected(c) == c.ok => /\ c.cur \in VobSectors /\ c.lib # None
                       /\ c.cache[c.cur] = c.lib
Placed(c) == c.pos # None => c.at = c.pos

Fit(T, x) == /\ x \in SlotT /\ x.form # "noise"
             /\ x.form = "scrambled" => VobAt(x.lba) \subseteq T
Fits(T, got) == got \in Seq(SlotT) /\ \A i \in DOMAIN got : Fit(T, got[i])

TruthOK == truth \in Truths

Healed == IF src = "css" THEN css.tried ELSE VobIds

IInv ==
  /\ src \in {"none", "css", "raw"} /\ pc \in {"idle", "loop", "twin", "again"}
  /\ req \in Nat \X Nat
  /\ src = "css" => TruthOK /\ Sound(css) /\ Selected(css) /\ Placed(css)
  /\ ~css.stray
  /\ Fits(Healed, win)
  /\ src = "none" => pc = "idle" /\ win = << >>
  /\ pc \in {"twin", "again"} => At \in PairSectors

(* The smallest of a set of numbers is one of them, and below the others.     *)
LEMMA MinNat ==
  ASSUME NEW S, S \subseteq Nat, S # {}
  PROVE  Min(S) \in S /\ \A y \in S : Min(S) <= y
<1>1. PICK m \in S : \A y \in S : ~ (<< y, m >> \in OpToRel(<, Nat))
  BY WFMin, NatLessThanWellFounded, Zenon
<1>2. \A y \in S : ~(y < m)
  BY <1>1, Zenon DEF OpToRel
<1>3. \A y \in S : m <= y
  BY <1>2
<1>. QED BY <1>3 DEF Min

(* A number and a set of naturals have a least one as well.                 *)
LEMMA MinWith ==
  ASSUME NEW S, S \subseteq Nat, NEW n \in Int
  PROVE  /\ Min({n} \cup S) \in Int /\ Min({n} \cup S) \in {n} \cup S
         /\ \A y \in {n} \cup S : Min({n} \cup S) <= y
<1>. DEFINE T == {n} \cup S
<1>1. T # {} /\ T \subseteq Int
  OBVIOUS
<1>2. CASE n \in Nat
  <2>1. T \subseteq Nat
    BY <1>2
  <2>. HIDE DEF T
  <2>2. Min(T) \in T /\ \A y \in T : Min(T) <= y
    BY <1>1, <2>1, MinNat
  <2>. QED BY <1>1, <2>2 DEF T
<1>3. CASE n \notin Nat
  <2>1. n \in T /\ \A y \in T : n <= y
    BY <1>3
  <2>. HIDE DEF T
  <2>2. Min(T) \in T /\ \A y \in T : Min(T) <= y
    BY <2>1 DEF Min
  <2>. QED BY <1>1, <2>2 DEF T
<1>. QED BY <1>2, <1>3

(* The extents are numbered from 1.                                         *)
LEMMA VobIdsNat == VobIds = 1 .. Len(Vobs) /\ Len(Vobs) \in Nat
BY DiscAssumption, LenProperties DEF VobIds

(* An extent is a record of the directory.                                  *)
LEMMA VobNat ==
  ASSUME NEW v \in VobIds
  PROVE  Vobs[v] \in [start : Nat, nsec : Nat, tt : Int, part : Int] /\ Vobs[v].start \in Nat /\ Vobs[v].nsec \in Nat
<1>1. Vobs[v] \in [start : Nat, nsec : Nat, tt : Int, part : Int]
  BY DiscAssumption, ElementOfSeq, VobIdsNat
<1>. QED BY <1>1

(* A sector lies in at most one extent.                                      *)
LEMMA OneVob ==
  ASSUME NEW v \in VobIds, NEW s \in Extent(v)
  PROVE  /\ VobAt(s) = {v} /\ s \in VobSectors /\ s \in Nat
         /\ \A t : KeysOf(t, s) = {t[v]}
<1>1. s \in VobSectors /\ s \in Nat
  BY DiscAssumption DEF VobSectors, Sectors
<1>2. VobAt(s) = {v}
  BY DiscAssumption DEF VobAt
<1>. QED BY <1>1, <1>2 DEF KeysOf

(* A sector of a VOB lies in the extent vob_index() finds.                  *)
LEMMA TheVob ==
  ASSUME NEW s, VobAt(s) # {}
  PROVE  Min(VobAt(s)) \in VobIds /\ s \in Extent(Min(VobAt(s))) /\ VobAt(s) = {Min(VobAt(s))}
<1>1. VobAt(s) \subseteq Nat
  BY VobIdsNat DEF VobAt
<1>2. Min(VobAt(s)) \in VobAt(s)
  BY <1>1, MinNat
<1>3. Min(VobAt(s)) \in VobIds /\ s \in Extent(Min(VobAt(s)))
  BY <1>2 DEF VobAt
<1>. QED BY <1>3, OneVob

(* A sector is a number.                                                    *)
LEMMA VobSectorsNat ==
  ASSUME NEW s \in VobSectors
  PROVE  s \in Nat /\ s \in Int
BY DiscAssumption DEF Sectors

(* A key block is a sector of a VOB with the extent's own key.              *)
LEMMA KeyBlockAt ==
  ASSUME NEW t \in Truths, NEW v \in VobIds
  PROVE  KeyBlock(v) \in VobSectors /\ t[v] \in Nat \ {0} /\ KeysOf(t, KeyBlock(v)) = {t[v]}
<1>1. t[v] \in Nat \ {0} /\ KeysOf(t, KeyBlock(v)) = {t[v]}
  BY TruthAssumption
<1>2. VobAt(KeyBlock(v)) # {}
  BY <1>1 DEF KeysOf
<1>. QED BY <1>1, <1>2 DEF VobAt, VobSectors

(* A title key is never zero.                                               *)
LEMMA KeysNat ==
  ASSUME NEW t \in Truths, NEW b
  PROVE  KeysOf(t, b) \subseteq Nat \ {0}
BY KeyBlockAt DEF KeysOf, VobAt

-----------------------------------------------------------------------------
(* Where libdvdcss stands, and what the last call left, say nothing of keys.  *)
LEMMA SoundElsewhere ==
  ASSUME NEW c, NEW d \in CssT, Sound(c), d.key = c.key, d.cache = c.cache
  PROVE  Sound(d)
BY DEF Sound

(* A record of the tables stays one when a field is set.                     *)
LEMMA OneField ==
  ASSUME NEW c \in CssT
  PROVE  /\ [c EXCEPT !.pos = None] \in CssT /\ [c EXCEPT !.cur = None] \in CssT
         /\ [c EXCEPT !.at = None] \in CssT
         /\ \A x \in Int : [c EXCEPT !.pos = x] \in CssT
         /\ \A x \in Int : [c EXCEPT !.cur = x] \in CssT
         /\ \A x \in Int : [c EXCEPT !.at = x] \in CssT
         /\ \A x \in BOOLEAN : [c EXCEPT !.ok = x] \in CssT
         /\ [c EXCEPT !.stray = FALSE] \in CssT
         /\ \A x \in BOOLEAN : [c EXCEPT !.again = x] \in CssT
         /\ \A x \in SUBSET VobIds : [c EXCEPT !.tried = x] \in CssT
         /\ \A x \in [VobIds -> VobSectors] : [c EXCEPT !.key = x] \in CssT
<1>1. ASSUME NEW x \in Int PROVE [c EXCEPT !.pos = x] \in CssT
  BY DEF CssT
<1>2. ASSUME NEW x \in Int PROVE [c EXCEPT !.cur = x] \in CssT
  BY DEF CssT
<1>3. ASSUME NEW x \in Int PROVE [c EXCEPT !.at = x] \in CssT
  BY DEF CssT
<1>4. ASSUME NEW x \in BOOLEAN PROVE [c EXCEPT !.ok = x] \in CssT
  BY DEF CssT
<1>5. [c EXCEPT !.stray = FALSE] \in CssT
  BY DEF CssT
<1>6. ASSUME NEW x \in BOOLEAN PROVE [c EXCEPT !.again = x] \in CssT
  BY DEF CssT
<1>7. ASSUME NEW x \in SUBSET VobIds PROVE [c EXCEPT !.tried = x] \in CssT
  BY DEF CssT
<1>8. ASSUME NEW x \in [VobIds -> VobSectors] PROVE [c EXCEPT !.key = x] \in CssT
  BY DEF CssT
<1>9. None \in Int
  OBVIOUS
<1>10. /\ [c EXCEPT !.pos = None] \in CssT /\ [c EXCEPT !.cur = None] \in CssT
       /\ [c EXCEPT !.at = None] \in CssT
  BY <1>1, <1>2, <1>3, <1>9
<1>. QED BY <1>1, <1>2, <1>3, <1>4, <1>5, <1>6, <1>7, <1>8, <1>10

(* A failed command moves libdvdcss and nothing else.                       *)
LEMMA AstrayType ==
  ASSUME NEW c \in CssT
  PROVE  /\ Astray(c) \in CssT /\ Astray(c).key = c.key /\ Astray(c).cache = c.cache
         /\ Astray(c).tried = c.tried /\ Astray(c).pos = c.pos /\ Astray(c).cur = c.cur
         /\ Astray(c).ok = c.ok /\ Astray(c).lib = c.lib
<1>1. Astray(c) \in CssT
  BY OneField DEF Astray
<1>2. /\ Astray(c).key = c.key /\ Astray(c).cache = c.cache
      /\ Astray(c).tried = c.tried /\ Astray(c).pos = c.pos /\ Astray(c).cur = c.cur
      /\ Astray(c).ok = c.ok /\ Astray(c).lib = c.lib
  BY DEF Astray, CssT
<1>. QED BY <1>1, <1>2

(* A key that is given moves libdvdcss to the block it was asked at.        *)
LEMMA GivenType ==
  ASSUME NEW c \in CssT, NEW b \in VobSectors, NEW x \in Int
  PROVE  /\ Given(c, b, x) \in CssT /\ Given(c, b, x).key = c.key
         /\ Given(c, b, x).tried = c.tried /\ Given(c, b, x).pos = c.pos /\ Given(c, b, x).cur = c.cur
         /\ Given(c, b, x).ok = c.ok /\ Given(c, b, x).lib = x /\ Given(c, b, x).at = b
<1>1. b \in Int
  BY DiscAssumption DEF Sectors
<1>2. c.cache \in [VobSectors -> Int]
  BY DEF CssT
<1>. QED BY <1>1, <1>2 DEF Given, CssT

(* A key that is given is cached at its block.                              *)
LEMMA GivenCache ==
  ASSUME NEW c \in CssT, NEW b, NEW x
  PROVE  Given(c, b, x).cache = [c.cache EXCEPT ![b] = x]
BY DEF Given, CssT

(* Asking for a key: the cache stays sound, and a key that was had is the one *)
(* libdvdcss now stands on.                                                 *)
LEMMA GivenSound ==
  ASSUME TruthOK, NEW c, Sound(c), NEW b \in VobSectors, NEW x,
         x = c.cache[b] \/ (c.cache[b] = None /\ x \in {Zero} \cup KeysOf(truth, b))
  PROVE  /\ x \in Int /\ Sound(Given(c, b, x)) /\ Given(c, b, x).cache[b] = x
         /\ Given(c, b, x).key = c.key
         /\ Given(c, b, x).tried = c.tried /\ Given(c, b, x).pos = c.pos /\ Given(c, b, x).cur = c.cur
         /\ Given(c, b, x).ok = c.ok /\ Given(c, b, x).lib = x /\ Given(c, b, x).at = b
<1>1. /\ c \in CssT /\ c.cache \in [VobSectors -> Int] /\ c.key \in [VobIds -> VobSectors]
  BY DEF Sound, CssT
<1>2. x \in Int
  BY <1>1, KeysNat DEF TruthOK
<1>. DEFINE d == Given(c, b, x)
<1>3. d \in CssT /\ d.key = c.key /\ d.cache = [c.cache EXCEPT ![b] = x]
  BY <1>1, <1>2, GivenType, GivenCache
<1>4. ASSUME NEW v \in VobIds
      PROVE  /\ d.cache[d.key[v]] \in {None, Zero, truth[v]}
             /\ d.cache[d.key[v]] = None => d.key[v] \in KeyBlocks /\ KeysOf(truth, d.key[v]) \subseteq {truth[v]}
  <2>1. CASE c.key[v] = b
    <3>1. x = c.cache[b] \/ x \in {Zero, truth[v]}
      BY <2>1 DEF Sound
    <3>2. d.cache[d.key[v]] = x
      BY <2>1, <1>1, <1>3
    <3>. QED BY <2>1, <3>1, <3>2, <1>3, KeyBlockAt DEF Sound, TruthOK
  <2>2. CASE c.key[v] # b
    <3>1. d.cache[d.key[v]] = c.cache[c.key[v]]
      BY <2>2, <1>1, <1>3
    <3>. QED BY <3>1, <1>3 DEF Sound
  <2>. QED BY <2>1, <2>2
<1>5. d.cache[b] = x
  BY <1>1, <1>3
<1>6. \A v, w \in VobIds : d.key[v] = d.key[w] => truth[v] = truth[w]
  BY <1>3 DEF Sound
<1>7. Sound(d)
  BY <1>3, <1>4, <1>6 DEF Sound
<1>8. /\ d.tried = c.tried /\ d.pos = c.pos /\ d.cur = c.cur
      /\ d.ok = c.ok /\ d.lib = x /\ d.at = b
  BY <1>1, <1>2, GivenType
<1>. QED BY <1>2, <1>3, <1>5, <1>7, <1>8

(* The outcome of SEEK_KEY that has a key.                                  *)
LEMMA HadSound ==
  ASSUME TruthOK, NEW c, Sound(c), NEW b \in VobSectors, NEW x, x # None,
         x = c.cache[b] \/ (c.cache[b] = None /\ x \in {Zero} \cup KeysOf(truth, b)),
         NEW k, k = [ok |-> TRUE, c |-> Given(c, b, x)]
  PROVE  /\ Sound(k.c) /\ k.ok \in BOOLEAN
         /\ k.c.key = c.key /\ k.c.tried = c.tried
         /\ k.c.pos = c.pos /\ k.c.cur = c.cur /\ k.c.ok = c.ok
         /\ k.ok => k.c.lib = k.c.cache[b] /\ k.c.lib # None /\ k.c.at = b
<1>1. k.c = Given(c, b, x) /\ k.ok = TRUE
  OBVIOUS
<1>. QED BY <1>1, GivenSound

(* SEEK_KEY, whatever comes of it, leaves the cache sound.                  *)
LEMMA SeekKeySound ==
  ASSUME TruthOK, NEW c, Sound(c), NEW b \in VobSectors, NEW k \in SeekKey(c, b)
  PROVE  /\ Sound(k.c) /\ k.ok \in BOOLEAN
         /\ k.c.key = c.key /\ k.c.tried = c.tried
         /\ k.c.pos = c.pos /\ k.c.cur = c.cur /\ k.c.ok = c.ok
         /\ k.ok => k.c.lib = k.c.cache[b] /\ k.c.lib # None /\ k.c.at = b
<1>1. CASE k = [ok |-> FALSE, c |-> Astray(c)]
  <2>1. c \in CssT
    BY DEF Sound
  <2>2. k.c = Astray(c) /\ k.ok = FALSE
    BY <1>1
  <2>3. Sound(Astray(c))
    BY <2>1, AstrayType, SoundElsewhere
  <2>. QED BY <2>1, <2>2, <2>3, AstrayType
<1>2. CASE c.cache[b] # None
  <2>1. k = [ok |-> TRUE, c |-> Given(c, b, c.cache[b])]
    BY <1>2 DEF SeekKey
  <2>. QED BY <2>1, <1>2, HadSound
<1>3. CASE c.cache[b] = None /\ \E x \in {Zero} \cup KeysOf(truth, b) : k = [ok |-> TRUE, c |-> Given(c, b, x)]
  <2>1. PICK x \in {Zero} \cup KeysOf(truth, b) : k = [ok |-> TRUE, c |-> Given(c, b, x)]
    BY <1>3
  <2>2. x # None
    BY KeysNat DEF TruthOK
  <2>. QED BY <1>3, <2>1, <2>2, HadSound
<1>. QED BY <1>1, <1>2, <1>3 DEF SeekKey

(* A key is taken only when it is the one of the extent that was tried.       *)
LEMMA TryKeySound ==
  ASSUME TruthOK, NEW c, Sound(c), NEW b \in VobSectors, NEW v, NEW t \in TryKey(c, b, v)
  PROVE  /\ Sound(t.c) /\ t.b = b /\ t.won \in BOOLEAN
         /\ t.c.key = c.key /\ t.c.tried = c.tried
         /\ t.c.pos = c.pos /\ t.c.cur = c.cur /\ t.c.ok = c.ok
         /\ t.won => t.c.lib = truth[v] /\ t.c.cache[b] = truth[v] /\ truth[v] # None
<1>1. PICK k \in SeekKey(c, b), seen \in BOOLEAN :
        t = [won |-> k.ok /\ k.c.lib = truth[v] /\ seen, c |-> Astray(k.c), b |-> b]
  BY DEF TryKey
<1>2. /\ Sound(k.c) /\ k.ok \in BOOLEAN
      /\ k.c.key = c.key /\ k.c.tried = c.tried
      /\ k.c.pos = c.pos /\ k.c.cur = c.cur /\ k.c.ok = c.ok
      /\ k.ok => k.c.lib = k.c.cache[b] /\ k.c.lib # None
  BY SeekKeySound
<1>3. k.c \in CssT
  BY <1>2 DEF Sound
<1>4. t.c = Astray(k.c) /\ t.b = b /\ t.won = (k.ok /\ k.c.lib = truth[v] /\ seen)
  BY <1>1
<1>5. Sound(t.c)
  BY <1>2, <1>3, <1>4, AstrayType, SoundElsewhere
<1>6. t.won \in BOOLEAN /\ (t.won => k.ok /\ k.c.lib = truth[v])
  BY <1>4, Zenon
<1>. QED BY <1>2, <1>3, <1>4, <1>5, <1>6, AstrayType

(* A candidate that won decrypts with the extent's own key.                 *)
LEMMA CandidatesSound ==
  ASSUME TruthOK, NEW c, Sound(c), NEW v \in VobIds, NEW s \in VobSectors, NEW t \in Candidates(c, v, s)
  PROVE  /\ Sound(t.c) /\ t.b \in VobSectors /\ t.won \in BOOLEAN
         /\ t.c.key = c.key /\ t.c.tried = c.tried
         /\ t.won => t.c.lib = truth[v] /\ t.c.cache[t.b] = truth[v] /\ truth[v] # None
<1>1. CASE Siblings(c, v) = {}
  <2>1. t \in TryKey(c, s, v)
    BY <1>1 DEF Candidates
  <2>. QED BY <2>1, TryKeySound
<1>2. CASE Siblings(c, v) # {}
  <2>. DEFINE b == c.key[Min(Siblings(c, v))]
  <2>1. Siblings(c, v) \subseteq Nat
    BY VobIdsNat DEF Siblings
  <2>2. Min(Siblings(c, v)) \in VobIds
    BY <2>1, <1>2, MinNat DEF Siblings
  <2>3. b \in VobSectors
    BY <2>2 DEF Sound, CssT
  <2>4. CASE t \in TryKey(c, b, v)
    BY <2>3, <2>4, TryKeySound
  <2>5. CASE \E u \in TryKey(c, b, v) : t \in TryKey(u.c, s, v)
    <3>1. PICK u \in TryKey(c, b, v) : t \in TryKey(u.c, s, v)
      BY <2>5
    <3>2. Sound(u.c) /\ u.c.key = c.key /\ u.c.tried = c.tried
      BY <2>3, TryKeySound
    <3>. QED BY <3>1, <3>2, TryKeySound
  <2>. QED BY <1>2, <2>4, <2>5 DEF Candidates
<1>. QED BY <1>1, <1>2

(* What heal_key() leaves: a proven key for the whole domain, or the domain as *)
(* it was.  Either way it has been tried.                                    *)
LEMMA TriedType ==
  ASSUME NEW c \in CssT, NEW old
  PROVE  /\ Tried(c, old) \in CssT /\ Tried(c, old).key = c.key /\ Tried(c, old).cache = c.cache
         /\ c.tried \subseteq Tried(c, old).tried /\ {w \in VobIds : c.key[w] = old} \subseteq Tried(c, old).tried
<1>. DEFINE T == {w \in VobIds : c.key[w] = old}
<1>1. c.tried \cup T \in SUBSET VobIds
  BY DEF CssT
<1>2. Tried(c, old) = [c EXCEPT !.tried = c.tried \cup T, !.at = None]
  BY DEF Tried
<1>. HIDE DEF T
<1>3. Tried(c, old) \in CssT
  <2>. DEFINE d == [c EXCEPT !.tried = c.tried \cup T]
  <2>1. d \in CssT
    BY <1>1, OneField
  <2>2. Tried(c, old) = [d EXCEPT !.at = None]
    BY <1>2
  <2>3. [d EXCEPT !.at = None] \in CssT
    BY <2>1, OneField
  <2>. QED BY <2>2, <2>3
<1>4. Tried(c, old).key = c.key /\ Tried(c, old).cache = c.cache
  BY <1>2 DEF CssT
<1>5. Tried(c, old).tried = c.tried \cup T
  BY <1>2 DEF CssT
<1>. QED BY <1>3, <1>4, <1>5 DEF T

(* A domain that is repointed keeps the rest of the tables.                 *)
LEMMA ProvenType ==
  ASSUME NEW c \in CssT, NEW old, NEW b \in VobSectors
  PROVE  /\ Proven(c, old, b) \in CssT
         /\ Proven(c, old, b).cache = c.cache /\ Proven(c, old, b).tried = c.tried
         /\ Proven(c, old, b).cur = b /\ Proven(c, old, b).ok /\ Proven(c, old, b).pos = None
         /\ Proven(c, old, b).lib = c.lib
<1>. DEFINE K == [v \in VobIds |-> IF c.key[v] = old THEN b ELSE c.key[v]]
<1>1. b \in Int
  BY DiscAssumption DEF Sectors
<1>2. K \in [VobIds -> VobSectors]
  BY DEF CssT
<1>3. Proven(c, old, b) = [c EXCEPT !.key = K, !.cur = b, !.ok = TRUE, !.pos = None]
  BY DEF Proven
<1>. HIDE DEF K
<1>4. Proven(c, old, b) \in CssT
  <2>. DEFINE d1 == [c EXCEPT !.key = K]
              d2 == [d1 EXCEPT !.cur = b]
              d3 == [d2 EXCEPT !.ok = TRUE]
  <2>1. d1 \in CssT
    BY <1>2, OneField
  <2>2. d2 \in CssT
    BY <1>1, <2>1, OneField
  <2>3. d3 \in CssT
    BY <2>2, OneField
  <2>4. Proven(c, old, b) = [d3 EXCEPT !.pos = None]
    BY <1>3
  <2>5. [d3 EXCEPT !.pos = None] \in CssT
    BY <2>3, OneField
  <2>. QED BY <2>4, <2>5
<1>5. /\ Proven(c, old, b).cache = c.cache /\ Proven(c, old, b).tried = c.tried
      /\ Proven(c, old, b).cur = b /\ Proven(c, old, b).ok /\ Proven(c, old, b).pos = None
      /\ Proven(c, old, b).lib = c.lib
  BY <1>3 DEF CssT
<1>. QED BY <1>4, <1>5

(* The whole domain is repointed, and nobody else.                          *)
LEMMA ProvenKey ==
  ASSUME NEW c \in CssT, NEW old, NEW b
  PROVE  \A v \in VobIds : Proven(c, old, b).key[v] = IF c.key[v] = old THEN b ELSE c.key[v]
BY DEF Proven, CssT

(* Repointing a domain to a proven key keeps the tables sound.              *)
LEMMA ProvenSound ==
  ASSUME TruthOK, NEW c, Sound(c), NEW v \in VobIds, NEW b \in VobSectors,
         c.cache[b] = truth[v], c.lib = truth[v]
  PROVE  /\ Sound(Proven(c, c.key[v], b)) /\ Selected(Proven(c, c.key[v], b))
<1>. DEFINE d == Proven(c, c.key[v], b)
<1>1. c \in CssT /\ truth[v] \in Nat \ {0}
  BY KeyBlockAt DEF Sound, TruthOK
<1>2. d \in CssT /\ d.cache = c.cache /\ d.cur = b /\ d.lib = c.lib
  BY <1>1, ProvenType
<1>3. \A w \in VobIds : d.key[w] = IF c.key[w] = c.key[v] THEN b ELSE c.key[w]
  BY <1>1, ProvenKey
<1>4. \A w \in VobIds : c.key[w] = c.key[v] => truth[w] = truth[v]
  BY DEF Sound
<1>5. \A w \in VobIds : c.key[w] = b => truth[w] = truth[v]
  BY <1>1 DEF Sound
<1>6. \A w \in VobIds : d.cache[d.key[w]] \in {None, Zero, truth[w]}
  BY <1>2, <1>3, <1>4 DEF Sound
<1>7. \A w \in VobIds : d.cache[d.key[w]] = None => d.key[w] \in KeyBlocks /\ KeysOf(truth, d.key[w]) \subseteq {truth[w]}
  BY <1>1, <1>2, <1>3 DEF Sound
<1>8. \A u, w \in VobIds : d.key[u] = d.key[w] => truth[u] = truth[w]
  BY <1>3, <1>4, <1>5 DEF Sound
<1>9. Sound(d)
  BY <1>2, <1>6, <1>7, <1>8 DEF Sound
<1>10. Selected(d)
  BY <1>1, <1>2 DEF Selected
<1>. QED BY <1>9, <1>10

(* So does putting it back, with libdvdcss on its key or no key.            *)
LEMMA VerdictSound ==
  ASSUME NEW c, Sound(c), NEW old \in VobSectors, NEW ok \in BOOLEAN,
         ok => c.lib = c.cache[old] /\ c.lib # None
  PROVE  /\ Sound(Verdict(c, old, ok)) /\ Selected(Verdict(c, old, ok))
         /\ Verdict(c, old, ok).pos = None /\ Verdict(c, old, ok).tried = c.tried
<1>. DEFINE d == Verdict(c, old, ok)
<1>1. old \in Int
  BY DiscAssumption DEF Sectors
<1>2. c \in CssT
  BY DEF Sound
<1>. DEFINE d1 == [c EXCEPT !.cur = old]
            d2 == [d1 EXCEPT !.ok = ok]
<1>3. d \in CssT
  <2>1. d1 \in CssT
    BY <1>1, <1>2, OneField
  <2>2. d2 \in CssT
    BY <2>1, OneField
  <2>3. d = [d2 EXCEPT !.pos = None]
    BY DEF Verdict
  <2>4. [d2 EXCEPT !.pos = None] \in CssT
    BY <2>2, OneField
  <2>. QED BY <2>3, <2>4
<1>4. d.key = c.key /\ d.cache = c.cache /\ d.tried = c.tried /\ d.lib = c.lib
  BY <1>2 DEF Verdict, CssT
<1>5. d.cur = old /\ d.pos = None /\ (d.ok => ok)
  BY <1>2 DEF Verdict, CssT
<1>6. Sound(d)
  BY <1>3, <1>4, SoundElsewhere
<1>. HIDE DEF d
<1>7. Selected(d)
  BY <1>4, <1>5 DEF Selected
<1>. QED BY <1>4, <1>5, <1>6, <1>7 DEF d

(* A verdict that is put back is true of libdvdcss.                         *)
LEMMA RestoredSound ==
  ASSUME TruthOK, NEW c, Sound(c), NEW old \in VobSectors, NEW had \in BOOLEAN,
         NEW d \in Restored(c, old, had)
  PROVE  Sound(d) /\ Selected(d) /\ d.pos = None /\ d.tried = c.tried
<1>1. CASE had
  <2>1. PICK k \in SeekKey(c, old) : d = Verdict(k.c, old, k.ok)
    BY <1>1 DEF Restored
  <2>2. /\ Sound(k.c) /\ k.ok \in BOOLEAN /\ k.c.tried = c.tried
        /\ k.ok => k.c.lib = k.c.cache[old] /\ k.c.lib # None
    BY SeekKeySound
  <2>. QED BY <2>1, <2>2, VerdictSound
<1>2. CASE ~had
  BY <1>2, VerdictSound DEF Restored
<1>. QED BY <1>1, <1>2

(* heal_key() as a whole: sound, selected, tried, and proven when it won.   *)
LEMMA HealSound ==
  ASSUME TruthOK, NEW c, Sound(c), NEW v \in VobIds, NEW s \in VobSectors, NEW h \in Heal(c, v, s)
  PROVE  /\ Sound(h.c) /\ Selected(h.c) /\ h.c.pos = None /\ h.won \in BOOLEAN
         /\ c.tried \subseteq h.c.tried /\ v \in h.c.tried
         /\ h.won => h.c.ok /\ h.c.lib = truth[v] /\ truth[v] # None
<1>. DEFINE old  == c.key[v]
            once == Tried(c, old)
<1>1. c \in CssT /\ old \in VobSectors /\ c.ok \in BOOLEAN
  BY DEF Sound, CssT
<1>2. Sound(once) /\ c.tried \subseteq once.tried /\ v \in once.tried
  BY <1>1, TriedType, SoundElsewhere
<1>3. ASSUME NEW d, Sound(d), d.tried = once.tried, NEW r \in Restored(d, old, c.ok), h = [won |-> FALSE, c |-> r]
      PROVE  /\ Sound(h.c) /\ Selected(h.c) /\ h.c.pos = None /\ h.won = FALSE
             /\ c.tried \subseteq h.c.tried /\ v \in h.c.tried
  <2>1. Sound(r) /\ Selected(r) /\ r.pos = None /\ r.tried = once.tried
    BY <1>1, <1>3, RestoredSound
  <2>2. h.c = r /\ h.won = FALSE
    BY <1>3
  <2>. QED BY <1>2, <2>1, <2>2
<1>4. CASE (s .. VobEnd(v) - 1) \cap bad # {}
  <2>1. PICK r \in Restored(once, old, c.ok) : h = [won |-> FALSE, c |-> r]
    BY <1>4 DEF Heal
  <2>. QED BY <1>2, <1>3, <2>1
<1>5. CASE (s .. VobEnd(v) - 1) \cap bad = {}
  <2>1. PICK t \in Candidates(once, v, s) :
           \/ t.won /\ h = [won |-> TRUE, c |-> Proven(t.c, old, t.b)]
           \/ ~t.won /\ \E r \in Restored(t.c, old, c.ok) : h = [won |-> FALSE, c |-> r]
    BY <1>5 DEF Heal
  <2>2. /\ Sound(t.c) /\ t.b \in VobSectors
        /\ t.c.key = once.key /\ t.c.tried = once.tried
        /\ t.won => t.c.lib = truth[v] /\ t.c.cache[t.b] = truth[v] /\ truth[v] # None
    BY <1>2, CandidatesSound
  <2>3. CASE t.won
    <3>1. h.c = Proven(t.c, old, t.b) /\ h.won = TRUE
      BY <2>1, <2>3
    <3>2. t.c.key[v] = old /\ t.c \in CssT
      BY <1>1, <2>2, TriedType DEF Sound
    <3>3. Sound(h.c) /\ Selected(h.c)
      BY <2>2, <2>3, <3>1, <3>2, ProvenSound
    <3>4. h.c.tried = t.c.tried /\ h.c.ok = TRUE /\ h.c.pos = None /\ h.c.lib = t.c.lib
      BY <2>2, <3>1, <3>2, ProvenType
    <3>. QED BY <1>2, <2>2, <2>3, <3>1, <3>3, <3>4
  <2>4. CASE ~t.won
    <3>1. PICK r \in Restored(t.c, old, c.ok) : h = [won |-> FALSE, c |-> r]
      BY <2>1, <2>4
    <3>. QED BY <2>2, <3>1, <1>3
  <2>. QED BY <2>3, <2>4
<1>. QED BY <1>4, <1>5

-----------------------------------------------------------------------------
(* What the drive hands on: sectors of one extent under its key, or sectors   *)
(* of none, as they are.                                                    *)
Plainly(s, n) == \A u \in s .. s + n - 1 : u \notin VobSectors
Inside(v, s, n) == s \in Extent(v) /\ n <= VobEnd(v) - s
OfVob(v, got) == got \in Seq(SlotT) /\ \A i \in DOMAIN got : got[i].lba \in Extent(v) /\ got[i].form # "noise"

(* What is left of a command inside a VOB is inside it.                     *)
LEMMA InsideLater ==
  ASSUME NEW v \in VobIds, NEW s \in Nat, NEW n \in Int, Inside(v, s, n), NEW j \in 1 .. n
  PROVE  Inside(v, s + j - 1, n - j + 1)
<1>1. Vobs[v].start \in Nat /\ Vobs[v].nsec \in Nat
  BY VobNat
<1>. QED BY <1>1 DEF Inside, Extent, VobEnd

(* A command never returns more than it was asked for.                      *)
LEMMA LengthsBound ==
  ASSUME NEW s \in Nat, NEW n \in Int, NEW m \in Lengths(s, n)
  PROVE  m \in Int /\ (m > 0 => m <= n)
<1>. DEFINE hit == {u \in s .. s + n - 1 : u \in bad}
<1>1. CASE hit = {}
  BY <1>1 DEF Lengths
<1>2. CASE hit # {}
  <2>1. Min(hit) \in hit
    BY <1>2, MinNat
  <2>. QED BY <1>2, <2>1 DEF Lengths
<1>. QED BY <1>1, <1>2

(* A sector of a VOB read raw, or with its own or no key, is not noise.     *)
LEMMA FormVob ==
  ASSUME NEW v \in VobIds, NEW s \in Extent(v), NEW decrypt, NEW x,
         TruthOK, decrypt => x \in {Zero, truth[v]}
  PROVE  Form(s, decrypt, x) \in {"plain", "scrambled", "clear"}
<1>1. s \in VobSectors /\ KeysOf(truth, s) = {truth[v]}
  BY OneVob
<1>. QED BY <1>1 DEF Form

(* A sector outside the VOBs, read raw, is plain.                           *)
LEMMA FormOther ==
  ASSUME NEW s, s \notin VobSectors, NEW x
  PROVE  Form(s, FALSE, x) = "plain"
<1>1. s \notin Scrambled
  BY DiscAssumption
<1>. QED BY <1>1 DEF Form

(* A raw read makes no noise.                                               *)
LEMMA FormRaw ==
  ASSUME NEW s, NEW x
  PROVE  Form(s, FALSE, x) \in {"plain", "scrambled"}
BY DEF Form

(* What a command returns is a run of sectors.                              *)
LEMMA GotSeq ==
  ASSUME NEW s \in Int, NEW m \in Nat, NEW decrypt, NEW x,
         \A u \in s .. s + m - 1 : Form(u, decrypt, x) \in Forms
  PROVE  /\ Got(s, m, decrypt, x) \in Seq(SlotT) /\ DOMAIN Got(s, m, decrypt, x) = 1 .. m
         /\ \A i \in 1 .. m : /\ Got(s, m, decrypt, x)[i].lba = s + i - 1
                              /\ Got(s, m, decrypt, x)[i].form = Form(s + i - 1, decrypt, x)
<1>1. \A i \in 1 .. m : [lba |-> s + i - 1, form |-> Form(s + i - 1, decrypt, x)] \in SlotT
  BY DEF SlotT
<1>2. Got(s, m, decrypt, x) \in [1 .. m -> SlotT]
  BY <1>1 DEF Got
<1>. QED BY <1>2 DEF Got

(* Inside a VOB it is the VOB's sectors, none of them noise.                *)
LEMMA GotVob ==
  ASSUME TruthOK, NEW v \in VobIds, NEW s \in Int, NEW m \in Nat, m > 0, Inside(v, s, m), NEW decrypt, NEW x,
         decrypt => x \in {Zero, truth[v]}
  PROVE  OfVob(v, Got(s, m, decrypt, x)) /\ DOMAIN Got(s, m, decrypt, x) = 1 .. m
<1>1. Vobs[v] \in [start : Nat, nsec : Nat, tt : Int, part : Int]
  BY DiscAssumption, ElementOfSeq, VobIdsNat
<1>2. \A u \in s .. s + m - 1 : u \in Extent(v)
  BY <1>1 DEF Inside, Extent, VobEnd
<1>3. \A u \in s .. s + m - 1 : Form(u, decrypt, x) \in {"plain", "scrambled", "clear"}
  BY <1>2, FormVob
<1>4. /\ Got(s, m, decrypt, x) \in Seq(SlotT) /\ DOMAIN Got(s, m, decrypt, x) = 1 .. m
      /\ \A i \in 1 .. m : /\ Got(s, m, decrypt, x)[i].lba = s + i - 1
                           /\ Got(s, m, decrypt, x)[i].form = Form(s + i - 1, decrypt, x)
  BY <1>3, GotSeq DEF Forms
<1>5. \A i \in 1 .. m : s + i - 1 \in s .. s + m - 1
  OBVIOUS
<1>. QED BY <1>2, <1>3, <1>4, <1>5 DEF OfVob

-----------------------------------------------------------------------------
(* Seeking and reading move libdvdcss and change nothing else.               *)
Moved(c, d) == /\ d \in CssT /\ d.key = c.key /\ d.cache = c.cache /\ d.tried = c.tried
               /\ d.cur = c.cur /\ d.ok = c.ok /\ d.lib = c.lib

(* Where libdvdcss moves to says nothing of its keys.                       *)
LEMMA MovedKeeps ==
  ASSUME NEW c, NEW d, Moved(c, d), Sound(c)
  PROVE  Sound(d) /\ (Selected(c) => Selected(d))
<1>1. Sound(d)
  BY SoundElsewhere DEF Moved
<1>. QED BY <1>1 DEF Moved, Selected

(* Setting a position is a move.                                            *)
LEMMA MovedPos ==
  ASSUME NEW c \in CssT, NEW x \in Int
  PROVE  /\ Moved(c, [c EXCEPT !.pos = x]) /\ [c EXCEPT !.pos = x].pos = x /\ [c EXCEPT !.pos = x].at = c.at
         /\ Moved(c, [c EXCEPT !.at = x]) /\ [c EXCEPT !.at = x].at = x /\ [c EXCEPT !.at = x].pos = c.pos
<1>1. [c EXCEPT !.pos = x] \in CssT /\ [c EXCEPT !.at = x] \in CssT
  BY OneField
<1>2. Moved(c, [c EXCEPT !.pos = x]) /\ [c EXCEPT !.pos = x].pos = x /\ [c EXCEPT !.pos = x].at = c.at
  BY <1>1 DEF Moved, CssT
<1>3. Moved(c, [c EXCEPT !.at = x]) /\ [c EXCEPT !.at = x].at = x /\ [c EXCEPT !.at = x].pos = c.pos
  BY <1>1 DEF Moved, CssT
<1>. QED BY <1>2, <1>3

(* Two moves are a move.                                                    *)
LEMMA MovedTwice ==
  ASSUME NEW c, NEW d, NEW e, Moved(c, d), Moved(d, e)
  PROVE  Moved(c, e)
BY DEF Moved

(* A seek is a move.                                                        *)
LEMMA SeekMoves ==
  ASSUME NEW c \in CssT, NEW s \in Nat, NEW p \in Seek(c, s)
  PROVE  Moved(c, p.c) /\ p.c.pos = c.pos /\ (p.ok => p.c.at = s) /\ p.ok \in BOOLEAN
<1>1. CASE p = [ok |-> TRUE, c |-> [c EXCEPT !.at = s]]
  <2>1. p.c = [c EXCEPT !.at = s] /\ p.ok = TRUE /\ s \in Int
    BY <1>1
  <2>2. Moved(c, [c EXCEPT !.at = s]) /\ [c EXCEPT !.at = s].at = s /\ [c EXCEPT !.at = s].pos = c.pos
    BY <2>1, MovedPos
  <2>. QED BY <2>1, <2>2
<1>2. CASE p = [ok |-> FALSE, c |-> Astray(c)]
  <2>1. p.c = Astray(c) /\ p.ok = FALSE
    BY <1>2
  <2>. QED BY <2>1, AstrayType DEF Moved
<1>. QED BY <1>1, <1>2 DEF Seek

(* Nor is more done to place libdvdcss, and it stands there after.          *)
LEMMA PlaceMoves ==
  ASSUME NEW c \in CssT, Placed(c), NEW s \in Nat, NEW p \in Place(c, s)
  PROVE  Moved(c, p.c) /\ p.c.pos = c.pos /\ (p.ok => p.c.at = s) /\ p.ok \in BOOLEAN
<1>1. CASE c.pos = s
  <2>1. p = [ok |-> TRUE, c |-> c]
    BY <1>1 DEF Place
  <2>2. p.c = c /\ p.ok = TRUE
    BY <2>1
  <2>3. Moved(c, c)
    BY DEF Moved
  <2>4. c.at = s
    BY <1>1 DEF Placed
  <2>. QED BY <2>2, <2>3, <2>4
<1>2. CASE c.pos # s
  BY <1>2, SeekMoves DEF Place
<1>. QED BY <1>1, <1>2

(* A read is a move.                                                        *)
LEMMA ReadMoves ==
  ASSUME NEW c \in CssT, c.at \in Nat, NEW n \in Int, NEW decrypt, NEW r \in Read(c, n, decrypt)
  PROVE  /\ Moved(c, r.c) /\ r.c.pos = c.pos /\ r.n \in Int /\ (r.n > 0 => r.n <= n)
         /\ r.c.at = IF r.n > 0 THEN c.at + r.n ELSE None
         /\ r.got = IF r.n > 0 THEN Got(c.at, r.n, decrypt, c.lib) ELSE << >>
<1>1. PICK m \in Lengths(c.at, n) :
        r = [n |-> m, c |-> [c EXCEPT !.at = IF m > 0 THEN @ + m ELSE None],
             got |-> IF m > 0 THEN Got(c.at, m, decrypt, c.lib) ELSE << >>]
  BY DEF Read
<1>2. m \in Int /\ (m > 0 => m <= n)
  BY LengthsBound
<1>. DEFINE x == IF m > 0 THEN c.at + m ELSE None
<1>3. x \in Int
  BY <1>2
<1>4. r.n = m /\ r.c = [c EXCEPT !.at = x] /\ r.got = IF m > 0 THEN Got(c.at, m, decrypt, c.lib) ELSE << >>
  BY <1>1
<1>. HIDE DEF x
<1>5. Moved(c, [c EXCEPT !.at = x]) /\ [c EXCEPT !.at = x].pos = c.pos /\ [c EXCEPT !.at = x].at = x
  BY <1>3, MovedPos
<1>6. Moved(c, r.c) /\ r.c.pos = c.pos /\ r.c.at = x
  BY <1>4, <1>5
<1>. QED BY <1>2, <1>4, <1>6 DEF x

(* A read is a record of three fields.                                      *)
LEMMA ReadRecord ==
  ASSUME NEW c, NEW n, NEW decrypt, NEW r \in Read(c, n, decrypt)
  PROVE  r = [n |-> r.n, c |-> r.c, got |-> r.got]
<1>1. PICK m \in Lengths(c.at, n) :
        r = [n |-> m, c |-> [c EXCEPT !.at = IF m > 0 THEN @ + m ELSE None],
             got |-> IF m > 0 THEN Got(c.at, m, decrypt, c.lib) ELSE << >>]
  BY DEF Read
<1>. DEFINE x == [c EXCEPT !.at = IF m > 0 THEN @ + m ELSE None]
            y == IF m > 0 THEN Got(c.at, m, decrypt, c.lib) ELSE << >>
<1>2. r = [n |-> m, c |-> x, got |-> y]
  BY <1>1
<1>. HIDE DEF x, y
<1>. QED BY <1>2

(* A read inside a VOB, with its own or no key.                             *)
LEMMA ReadVob ==
  ASSUME TruthOK, NEW c \in CssT, NEW v \in VobIds, NEW n \in Int, c.at \in Nat, Inside(v, c.at, n),
         NEW decrypt, decrypt => c.lib \in {Zero, truth[v]}, NEW r \in Read(c, n, decrypt)
  PROVE  OfVob(v, r.got) /\ r.n \in Int /\ (r.n > 0 => r.n <= n /\ DOMAIN r.got = 1 .. r.n) /\ (r.n <= 0 => r.got = << >>)
<1>1. /\ r.n \in Int /\ (r.n > 0 => r.n <= n)
      /\ r.got = IF r.n > 0 THEN Got(c.at, r.n, decrypt, c.lib) ELSE << >>
  BY ReadMoves
<1>2. CASE r.n > 0
  <2>1. Vobs[v] \in [start : Nat, nsec : Nat, tt : Int, part : Int]
    BY DiscAssumption, ElementOfSeq, VobIdsNat
  <2>2. Inside(v, c.at, r.n) /\ r.n \in Nat
    BY <1>1, <1>2, <2>1 DEF Inside, VobEnd
  <2>. QED BY <1>1, <1>2, <2>2, GotVob
<1>3. CASE ~(r.n > 0)
  BY <1>1, <1>3 DEF OfVob
<1>. QED BY <1>1, <1>2, <1>3

(* The same, of sectors outside the VOBs, which are not decrypted.            *)
Plain(got) == got \in Seq(SlotT) /\ \A i \in DOMAIN got : got[i] \in SlotT /\ got[i].form = "plain"

(* What a command returns outside the VOBs is plain.                        *)
LEMMA GotPlain ==
  ASSUME NEW s \in Nat, NEW m \in Nat, NEW x, \A u \in s .. s + m - 1 : u \notin VobSectors
  PROVE  Plain(Got(s, m, FALSE, x))
<1>1. \A u \in s .. s + m - 1 : Form(u, FALSE, x) = "plain"
  BY FormOther
<1>2. \A i \in 1 .. m : [lba |-> s + i - 1, form |-> "plain"] \in SlotT
  BY DEF SlotT, Forms
<1>3. \A i \in 1 .. m : [lba |-> s + i - 1, form |-> Form(s + i - 1, FALSE, x)] = [lba |-> s + i - 1, form |-> "plain"]
  <2>1. \A i \in 1 .. m : s + i - 1 \in s .. s + m - 1
    OBVIOUS
  <2>. QED BY <1>1, <2>1
<1>4. Got(s, m, FALSE, x) = [i \in 1 .. m |-> [lba |-> s + i - 1, form |-> "plain"]]
  BY <1>3 DEF Got
<1>. DEFINE g == [i \in 1 .. m |-> [lba |-> s + i - 1, form |-> "plain"]]
<1>5. g \in [1 .. m -> SlotT]
  BY <1>2
<1>6. g \in Seq(SlotT) /\ \A i \in DOMAIN g : g[i] \in SlotT /\ g[i].form = "plain"
  BY <1>2, <1>5
<1>. QED BY <1>4, <1>6 DEF Plain

(* The head of a VOB's sectors is a VOB's sectors.                          *)
LEMMA OfVobSub ==
  ASSUME NEW v, NEW got, OfVob(v, got), NEW j \in DOMAIN got
  PROVE  OfVob(v, SubSeq(got, 1, j - 1))
<1>1. got \in Seq(SlotT) /\ DOMAIN got = 1 .. Len(got) /\ Len(got) \in Nat
  BY LenProperties DEF OfVob
<1>2. /\ SubSeq(got, 1, j - 1) \in Seq(SlotT)
      /\ Len(SubSeq(got, 1, j - 1)) = j - 1
      /\ \A i \in 1 .. j - 1 : SubSeq(got, 1, j - 1)[i] = got[i]
  BY <1>1, SubSeqProperties
<1>3. DOMAIN SubSeq(got, 1, j - 1) = 1 .. j - 1
  BY <1>2, LenProperties
<1>. QED BY <1>1, <1>2, <1>3 DEF OfVob

(* Two runs of a VOB's sectors are one.                                     *)
LEMMA OfVobCat ==
  ASSUME NEW v, NEW a, NEW b, OfVob(v, a), OfVob(v, b)
  PROVE  OfVob(v, a \o b)
<1>1. /\ a \in Seq(SlotT) /\ Len(a) \in Nat /\ DOMAIN a = 1 .. Len(a)
      /\ b \in Seq(SlotT) /\ Len(b) \in Nat /\ DOMAIN b = 1 .. Len(b)
  BY LenProperties DEF OfVob
<1>2. /\ a \o b \in Seq(SlotT) /\ Len(a \o b) = Len(a) + Len(b)
      /\ \A i \in 1 .. Len(a) + Len(b) : (a \o b)[i] = IF i <= Len(a) THEN a[i] ELSE b[i - Len(a)]
  BY <1>1, ConcatProperties
<1>3. DOMAIN (a \o b) = 1 .. Len(a) + Len(b)
  BY <1>2, LenProperties
<1>4. ASSUME NEW i \in 1 .. Len(a) + Len(b)
      PROVE  (a \o b)[i].lba \in Extent(v) /\ (a \o b)[i].form # "noise"
  <2>1. CASE i <= Len(a)
    BY <1>1, <1>2, <2>1 DEF OfVob
  <2>2. CASE ~(i <= Len(a))
    <3>1. i - Len(a) \in DOMAIN b
      BY <1>1, <2>2
    <3>. QED BY <1>1, <1>2, <2>2, <3>1 DEF OfVob
  <2>. QED BY <2>1, <2>2
<1>. QED BY <1>2, <1>3, <1>4 DEF OfVob

(* A VOB's sectors fit a window once its domain has been tried.             *)
LEMMA OfVobFits ==
  ASSUME NEW T, NEW v \in VobIds, v \in T, NEW got, OfVob(v, got)
  PROVE  Fits(T, got)
<1>1. \A i \in DOMAIN got : got[i] \in SlotT
  BY ElementOfSeq, LenProperties DEF OfVob
<1>2. \A i \in DOMAIN got : VobAt(got[i].lba) = {v}
  BY OneVob DEF OfVob
<1>. QED BY <1>1, <1>2 DEF OfVob, Fits, Fit

(* What one command of css_read_chunk() leaves behind.                       *)
ReadT == [n : Int, c : CssT, got : Seq(SlotT)]
Kept(c, r) == /\ r \in ReadT /\ Sound(r.c) /\ Selected(r.c) /\ Placed(r.c)
              /\ c.tried \subseteq r.c.tried /\ Fits(r.c.tried, r.got)

(* The second read of what was scrambled keeps what a chunk keeps.          *)
LEMMA AgainSound ==
  ASSUME TruthOK, NEW c, Sound(c), Selected(c), NEW v \in VobIds, v \in c.tried, c.lib = truth[v],
         NEW r \in ReadT, r.n > 0, DOMAIN r.got = 1 .. r.n, OfVob(v, r.got),
         NEW s \in Nat, Inside(v, s, r.n), NEW j \in 1 .. r.n, NEW q \in Again(c, r, j, s)
  PROVE  Kept(c, q)
<1>. DEFINE rest == r.n - j + 1
            head == SubSeq(r.got, 1, j - 1)
<1>1. c \in CssT /\ r.n \in Int /\ rest \in Int /\ rest > 0 /\ s + j - 1 \in Nat
  BY DEF Sound, ReadT
<1>2. OfVob(v, head) /\ head \in Seq(SlotT)
  BY OfVobSub DEF OfVob
<1>3. ASSUME NEW d, Moved(c, d), q = UpTo(d, r, j)
      PROVE  Kept(c, q)
  <2>1. d \in CssT /\ -1 \in Int
    BY <1>3 DEF Moved
  <2>2. Moved(d, [d EXCEPT !.pos = None]) /\ [d EXCEPT !.pos = None].pos = None
    BY <2>1, MovedPos
  <2>3. q.c = [d EXCEPT !.pos = None] /\ q.got = head
    BY <1>3 DEF UpTo
  <2>4. Moved(c, q.c) /\ q.c.pos = None
    BY <1>3, <2>2, <2>3, MovedTwice
  <2>5. Sound(q.c) /\ Selected(q.c) /\ Placed(q.c) /\ q.c.tried = c.tried
    BY <2>4, MovedKeeps DEF Placed, Moved
  <2>6. q \in ReadT
    BY <1>1, <1>2, <1>3, <2>2 DEF UpTo, ReadT, Moved
  <2>7. Fits(q.c.tried, q.got)
    BY <1>2, <2>3, <2>5, OfVobFits
  <2>. QED BY <2>5, <2>6, <2>7 DEF Kept
<1>4. PICK p \in Seek(c, s + j - 1) :
        \/ q = UpTo(p.c, r, j)
        \/ p.ok /\ \E u \in Read(p.c, rest, TRUE) :
             \/ q = UpTo(u.c, r, j)
             \/ u.n = rest /\ q = [n |-> r.n, c |-> [u.c EXCEPT !.pos = s + r.n], got |-> head \o u.got]
  BY DEF Again
<1>5. Moved(c, p.c) /\ (p.ok => p.c.at = s + j - 1)
  BY <1>1, SeekMoves
<1>6. CASE q = UpTo(p.c, r, j)
  BY <1>3, <1>5, <1>6
<1>7. ASSUME p.ok, NEW u \in Read(p.c, rest, TRUE) PROVE Moved(c, u.c) /\ (u.n = rest => u.c.at = s + r.n)
  <2>1. p.c \in CssT /\ p.c.at \in Nat /\ p.c.at = s + j - 1
    BY <1>1, <1>5, <1>7 DEF Moved
  <2>2. Moved(p.c, u.c) /\ u.c.at = IF u.n > 0 THEN p.c.at + u.n ELSE None
    BY <1>1, <1>7, <2>1, ReadMoves
  <2>3. Moved(c, u.c)
    BY <1>5, <2>2, MovedTwice
  <2>. QED BY <1>1, <2>1, <2>2, <2>3
<1>8. CASE p.ok /\ \E u \in Read(p.c, rest, TRUE) : q = UpTo(u.c, r, j)
  BY <1>3, <1>7, <1>8
<1>9. ASSUME p.ok, NEW u \in Read(p.c, rest, TRUE), u.n = rest,
             q = [n |-> r.n, c |-> [u.c EXCEPT !.pos = s + r.n], got |-> head \o u.got]
      PROVE  Kept(c, q)
  <2>1. p.c \in CssT /\ p.c.at \in Nat /\ p.c.at = s + j - 1 /\ p.c.lib = truth[v]
    BY <1>1, <1>5, <1>9 DEF Moved
  <2>3. Inside(v, p.c.at, rest)
    BY <1>1, <2>1, InsideLater
  <2>4. OfVob(v, u.got)
    <3>1. p.c.lib \in {Zero, truth[v]}
      BY <2>1
    <3>. QED BY <1>1, <1>9, <2>1, <2>3, <3>1, ReadVob
  <2>5. Moved(c, u.c) /\ u.c.at = s + r.n
    BY <1>7, <1>9
  <2>51. s + r.n \in Int /\ u.c \in CssT
    BY <1>1, <2>5 DEF Moved
  <2>6. /\ Moved(u.c, [u.c EXCEPT !.pos = s + r.n]) /\ [u.c EXCEPT !.pos = s + r.n].pos = s + r.n
        /\ [u.c EXCEPT !.pos = s + r.n].at = u.c.at
    BY <2>51, MovedPos
  <2>7. q.c = [u.c EXCEPT !.pos = s + r.n] /\ q.got = head \o u.got /\ q.n = r.n
    BY <1>9
  <2>8. Moved(c, q.c) /\ q.c.at = q.c.pos
    BY <2>5, <2>6, <2>7, MovedTwice
  <2>9. Sound(q.c) /\ Selected(q.c) /\ Placed(q.c) /\ q.c.tried = c.tried
    BY <2>8, MovedKeeps DEF Placed, Moved
  <2>10. OfVob(v, q.got)
    BY <1>2, <2>4, <2>7, OfVobCat
  <2>11. q \in ReadT
    BY <1>1, <1>9, <2>7, <2>8, <2>10 DEF ReadT, Moved, OfVob
  <2>12. Fits(q.c.tried, q.got)
    BY <2>9, <2>10, OfVobFits
  <2>. QED BY <2>9, <2>11, <2>12 DEF Kept
<1>. QED BY <1>4, <1>6, <1>8, <1>9

(* What is handed on is what was read.                                      *)
LEMMA HandedIs ==
  ASSUME NEW r \in ReadT, NEW s \in Nat
  PROVE  /\ Handed(r, s) \in ReadT /\ Handed(r, s).n = r.n /\ Handed(r, s).got = r.got
         /\ Moved(r.c, Handed(r, s).c) /\ Handed(r, s).c.at = r.c.at
         /\ Handed(r, s).c.pos = IF r.n > 0 THEN s + r.n ELSE None
<1>. DEFINE x == IF r.n > 0 THEN s + r.n ELSE None
<1>1. r.c \in CssT /\ x \in Int
  BY DEF ReadT
<1>2. r = [n |-> r.n, c |-> r.c, got |-> r.got]
  BY DEF ReadT
<1>3. Handed(r, s) = [r EXCEPT !.c = [r.c EXCEPT !.pos = x]]
  BY <1>2, Zenon DEF Handed
<1>. HIDE DEF x
<1>4. /\ Moved(r.c, [r.c EXCEPT !.pos = x]) /\ [r.c EXCEPT !.pos = x].pos = x
      /\ [r.c EXCEPT !.pos = x].at = r.c.at /\ [r.c EXCEPT !.pos = x] \in CssT
  BY <1>1, MovedPos DEF Moved
<1>. DEFINE d == [r.c EXCEPT !.pos = x]
<1>. HIDE DEF d
<1>5. d \in CssT /\ Handed(r, s) = [r EXCEPT !.c = d]
  BY <1>3, <1>4 DEF d
<1>6. Handed(r, s) \in ReadT /\ Handed(r, s).n = r.n /\ Handed(r, s).got = r.got /\ Handed(r, s).c = d
  BY <1>5 DEF ReadT
<1>. QED BY <1>4, <1>6 DEF d, x

(* So does the look for scrambled sectors: a heal comes before any.         *)
LEMMA ScanSound ==
  ASSUME TruthOK, NEW v \in VobIds, NEW s \in Nat, NEW r \in ReadT, Sound(r.c), Selected(r.c),
         OfVob(v, r.got), r.n <= 0 => r.got = << >>,
         r.n > 0 => DOMAIN r.got = 1 .. r.n /\ Inside(v, s, r.n) /\ r.c.at = s + r.n,
         NEW q \in Scan(r, v, s)
  PROVE  Kept(r.c, q)
<1>. DEFINE left == {i \in DOMAIN r.got : r.got[i].form = "scrambled"}
<1>1. CASE (left = {} \/ v \in r.c.tried) /\ q = Handed(r, s)
  <2>1. /\ q \in ReadT /\ q.got = r.got /\ Moved(r.c, q.c) /\ q.c.at = r.c.at
        /\ q.c.pos = IF r.n > 0 THEN s + r.n ELSE None
    BY <1>1, HandedIs
  <2>2. Placed(q.c)
    BY <2>1 DEF Placed
  <2>3. Sound(q.c) /\ Selected(q.c) /\ q.c.tried = r.c.tried
    BY <2>1, MovedKeeps DEF Moved
  <2>4. CASE v \in r.c.tried
    BY <2>1, <2>2, <2>3, <2>4, OfVobFits DEF Kept
  <2>5. CASE left = {}
    <3>1. \A i \in DOMAIN r.got : r.got[i] \in SlotT
      BY ElementOfSeq, LenProperties DEF OfVob
    <3>2. Fits(q.c.tried, q.got)
      BY <2>1, <2>5, <3>1 DEF Fits, Fit, OfVob
    <3>. QED BY <2>1, <2>2, <2>3, <3>2 DEF Kept
  <2>. QED BY <1>1, <2>4, <2>5
<1>2. CASE left # {} /\ \E h \in Heal(r.c, v, s + Min(left) - 1) :
             IF h.won THEN q \in Again(h.c, r, Min(left), s) ELSE q = [r EXCEPT !.c = h.c]
  <2>1. r.n > 0 /\ r.n \in Int
    BY <1>2 DEF ReadT
  <2>2. Min(left) \in 1 .. r.n /\ left \subseteq Nat
    <3>1. left \subseteq Nat
      BY <2>1
    <3>2. Min(left) \in left
      BY <1>2, <3>1, MinNat
    <3>. QED BY <2>1, <3>1, <3>2
  <2>. DEFINE j == Min(left)
  <2>. HIDE DEF left, j
  <2>3. s + j - 1 \in Extent(v) /\ s + j - 1 \in VobSectors
    <3>1. j \in 1 .. r.n
      BY <2>2 DEF j
    <3>2. Inside(v, s + j - 1, r.n - j + 1)
      BY <2>1, <3>1, InsideLater
    <3>. QED BY <3>2, OneVob DEF Inside
  <2>4. PICK h \in Heal(r.c, v, s + j - 1) :
             IF h.won THEN q \in Again(h.c, r, j, s) ELSE q = [r EXCEPT !.c = h.c]
    BY <1>2 DEF j
  <2>5. /\ Sound(h.c) /\ Selected(h.c) /\ h.c.pos = None /\ h.won \in BOOLEAN
        /\ r.c.tried \subseteq h.c.tried /\ v \in h.c.tried
        /\ h.won => h.c.ok /\ h.c.lib = truth[v] /\ truth[v] # None
    BY <2>3, <2>4, HealSound
  <2>6. CASE h.won
    <3>1. q \in Again(h.c, r, j, s) /\ j \in 1 .. r.n
      BY <2>2, <2>4, <2>6 DEF j
    <3>2. Kept(h.c, q)
      BY <2>1, <2>5, <2>6, <3>1, AgainSound
    <3>. QED BY <2>5, <3>2 DEF Kept
  <2>7. CASE ~h.won
    <3>1. h.c \in CssT
      BY <2>5 DEF Sound
    <3>2. q = [r EXCEPT !.c = h.c]
      BY <2>4, <2>7
    <3>3. q \in ReadT /\ q.c = h.c /\ q.got = r.got
      BY <3>1, <3>2 DEF ReadT
    <3>4. Fits(q.c.tried, q.got)
      BY <2>5, <3>3, OfVobFits
    <3>. QED BY <2>5, <3>3, <3>4 DEF Kept, Placed
  <2>. QED BY <2>5, <2>6, <2>7
<1>3. \/ (left = {} \/ v \in r.c.tried) /\ q = Handed(r, s)
      \/ left # {} /\ \E h \in Heal(r.c, v, s + Min(left) - 1) :
             IF h.won THEN q \in Again(h.c, r, Min(left), s) ELSE q = [r EXCEPT !.c = h.c]
  BY DEF Scan
<1>. QED BY <1>1, <1>2, <1>3

(* Selecting a domain leaves libdvdcss on its key or says that it has none. *)
LEMMA SelectSound ==
  ASSUME TruthOK, NEW c, Sound(c), Selected(c), Placed(c), NEW v \in VobIds, NEW d \in Select(c, v)
  PROVE  /\ Sound(d) /\ Selected(d) /\ Placed(d) /\ d.tried = c.tried
         /\ d.ok => d.lib \in {Zero, truth[v]}
<1>. DEFINE b == c.key[v]
<1>0. c \in CssT /\ b \in VobSectors
  BY DEF Sound, CssT
<1>1. c \in CssT /\ b \in VobSectors /\ b \in Int
  BY <1>0, VobSectorsNat
<1>2. CASE b = c.cur
  <2>1. d = c
    BY <1>2 DEF Select
  <2>2. c.cache[b] \in {None, Zero, truth[v]}
    BY DEF Sound
  <2>. QED BY <1>2, <2>1, <2>2 DEF Selected
<1>3. CASE b # c.cur
  <2>1. PICK k \in SeekKey(c, b) :
          d = [k.c EXCEPT !.cur = b, !.ok = k.ok, !.pos = IF k.ok THEN b ELSE None,
                          !.stray = @ \/ (c.cache[b] = None /\ b \notin KeyBlocks),
                          !.again = @ \/ (c.cache[b] = None /\ v \in c.tried)]
    BY <1>3 DEF Select
  <2>2. /\ Sound(k.c) /\ k.ok \in BOOLEAN /\ k.c.key = c.key /\ k.c.tried = c.tried
        /\ k.ok => k.c.lib = k.c.cache[b] /\ k.c.lib # None /\ k.c.at = b
    BY <1>1, SeekKeySound
  <2>. DEFINE x == IF k.ok THEN b ELSE None
  <2>3. k.c \in CssT /\ x \in Int
    BY <1>1, <2>2 DEF Sound
  <2>4. PICK z \in BOOLEAN : d = [k.c EXCEPT !.cur = b, !.ok = k.ok, !.pos = x, !.stray = FALSE, !.again = z]
    <3>. DEFINE yy == k.c.stray \/ (c.cache[b] = None /\ b \notin KeyBlocks)
                zz == k.c.again \/ (c.cache[b] = None /\ v \in c.tried)
    <3>1. zz \in BOOLEAN
      BY Zenon
    <3>2. c.cache[b] = None => b \in KeyBlocks
      BY DEF Sound
    <3>3. k.c.stray = FALSE
      BY <2>3 DEF CssT
    <3>4. yy = FALSE
      BY <3>2, <3>3, Zenon
    <3>5. d = [k.c EXCEPT !.cur = b, !.ok = k.ok, !.pos = x, !.stray = yy, !.again = zz]
      BY <2>1, Zenon
    <3>. HIDE DEF yy, zz
    <3>. QED BY <3>1, <3>4, <3>5, Zenon
  <2>. HIDE DEF x, b
  <2>6. /\ d \in CssT /\ d.key = k.c.key /\ d.cache = k.c.cache /\ d.tried = k.c.tried /\ d.lib = k.c.lib
        /\ d.at = k.c.at /\ d.cur = b /\ d.ok = k.ok /\ d.pos = x
    <3>1. PICK e \in CssT, ok \in BOOLEAN : e = k.c /\ ok = k.ok
      BY <2>2, <2>3
    <3>2. d = [e EXCEPT !.cur = b, !.ok = ok, !.pos = x, !.stray = FALSE, !.again = z]
      BY <2>4, <3>1, Zenon
    <3>3. b \in Int
      BY <1>1
    <3>. DEFINE d1 == [e EXCEPT !.cur = b]
                d2 == [d1 EXCEPT !.ok = ok]
                d3 == [d2 EXCEPT !.pos = x]
                d4 == [d3 EXCEPT !.stray = FALSE]
                d5 == [d4 EXCEPT !.again = z]
    <3>4. d1 \in CssT
      BY <3>3, OneField
    <3>5. d2 \in CssT
      BY <3>4, OneField
    <3>6. d3 \in CssT
      BY <2>3, <3>5, OneField
    <3>7. d4 \in CssT
      BY <3>6, OneField
    <3>8. d5 \in CssT
      BY <3>7, OneField
    <3>9. d = d5
      BY <3>2
    <3>10. /\ d.key = e.key /\ d.cache = e.cache /\ d.tried = e.tried /\ d.lib = e.lib
           /\ d.at = e.at /\ d.cur = b /\ d.ok = ok /\ d.pos = x
      BY <3>2 DEF CssT
    <3>. QED BY <3>1, <3>8, <3>9, <3>10
  <2>7. Sound(d)
    BY <2>2, <2>6, SoundElsewhere
  <2>8. Selected(d)
    BY <1>1, <2>2, <2>6 DEF Selected
  <2>9. Placed(d)
    BY <2>2, <2>6 DEF Placed, x
  <2>10. k.c.cache[b] \in {None, Zero, truth[v]}
    BY <2>2 DEF Sound, b
  <2>. QED BY <2>2, <2>6, <2>7, <2>8, <2>9, <2>10
<1>. QED BY <1>2, <1>3

(* A selection that is dropped leaves the tables.                           *)
LEMMA KeylessType ==
  ASSUME NEW c \in CssT
  PROVE  /\ Keyless(c) \in CssT /\ Keyless(c).key = c.key /\ Keyless(c).cache = c.cache /\ Keyless(c).tried = c.tried
         /\ Keyless(c).at = c.at /\ Keyless(c).ok = FALSE /\ Keyless(c).lib = c.lib
<1>. DEFINE d == [c EXCEPT !.cur = None]
<1>1. d \in CssT /\ FALSE \in BOOLEAN
  BY OneField
<1>2. [d EXCEPT !.ok = FALSE] \in CssT
  BY <1>1, OneField
<1>3. Keyless(c) = [d EXCEPT !.ok = FALSE]
  BY DEF Keyless
<1>4. /\ Keyless(c).key = c.key /\ Keyless(c).cache = c.cache /\ Keyless(c).tried = c.tried
      /\ Keyless(c).at = c.at /\ Keyless(c).ok = FALSE /\ Keyless(c).lib = c.lib
  BY DEF Keyless, CssT
<1>. QED BY <1>2, <1>3, <1>4

(* A failed chunk returns nothing.                                          *)
LEMMA FailedKept ==
  ASSUME NEW c, NEW d, Sound(d), Selected(d), c.tried \subseteq d.tried
  PROVE  Kept(c, Failed(d))
<1>. DEFINE e == [d EXCEPT !.pos = None]
<1>1. d \in CssT /\ -1 \in Int
  BY DEF Sound
<1>2. Moved(d, e) /\ e.pos = None
  BY <1>1, MovedPos
<1>3. Failed(d) = [n |-> -1, c |-> e, got |-> << >>]
  BY DEF Failed
<1>. HIDE DEF e
<1>4. e \in CssT /\ e.tried = d.tried /\ Sound(e) /\ Selected(e)
  BY <1>2, MovedKeeps DEF Moved
<1>5. Failed(d) \in ReadT /\ Failed(d).c = e /\ Failed(d).got = << >>
  BY <1>1, <1>3, <1>4 DEF ReadT
<1>. QED BY <1>2, <1>4, <1>5 DEF Kept, Fits, Placed

(* A chunk in a VOB, from selection to scan.                                *)
LEMMA VobChunkSound ==
  ASSUME TruthOK, NEW c, Sound(c), Selected(c), Placed(c), NEW v \in VobIds, NEW s \in Nat, NEW n \in Int,
         Inside(v, s, n), NEW q \in VobChunk(c, v, s, n)
  PROVE  Kept(c, q)
<1>1. PICK d \in Select(c, v) : \E p \in Place(d, s) :
        IF ~p.ok THEN q = Failed(Keyless(p.c))
        ELSE \E r \in Read(p.c, n, p.c.ok) : q \in Scan(r, v, s)
  BY DEF VobChunk
<1>0. PICK p \in Place(d, s) :
        IF ~p.ok THEN q = Failed(Keyless(p.c))
        ELSE \E r \in Read(p.c, n, p.c.ok) : q \in Scan(r, v, s)
  BY <1>1
<1>2. Sound(d) /\ Selected(d) /\ Placed(d) /\ d.tried = c.tried /\ (d.ok => d.lib \in {Zero, truth[v]})
  BY SelectSound
<1>3. d \in CssT
  BY <1>2 DEF Sound
<1>4. Moved(d, p.c) /\ (p.ok => p.c.at = s) /\ p.ok \in BOOLEAN
  BY <1>2, <1>3, PlaceMoves
<1>5. Sound(p.c) /\ Selected(p.c) /\ p.c \in CssT /\ p.c.tried = c.tried /\ (p.c.ok => p.c.lib \in {Zero, truth[v]})
  BY <1>2, <1>4, MovedKeeps DEF Moved
<1>6. CASE ~p.ok
  <2>1. /\ Keyless(p.c) \in CssT /\ Keyless(p.c).key = p.c.key /\ Keyless(p.c).cache = p.c.cache
        /\ Keyless(p.c).tried = p.c.tried /\ ~Keyless(p.c).ok
    BY <1>5, KeylessType
  <2>2. Sound(Keyless(p.c)) /\ Selected(Keyless(p.c))
    BY <1>5, <2>1, SoundElsewhere DEF Selected
  <2>3. q = Failed(Keyless(p.c))
    BY <1>0, <1>6
  <2>. QED BY <1>5, <2>1, <2>2, <2>3, FailedKept
<1>7. CASE p.ok
  <2>1. PICK r \in Read(p.c, n, p.c.ok) : q \in Scan(r, v, s)
    BY <1>0, <1>7
  <2>2. p.c.at = s /\ p.c.at \in Nat /\ Inside(v, p.c.at, n)
    BY <1>4, <1>7
  <2>3. /\ Moved(p.c, r.c) /\ r.n \in Int /\ (r.n > 0 => r.n <= n)
        /\ r.c.at = IF r.n > 0 THEN s + r.n ELSE None
    BY <1>5, <2>2, ReadMoves
  <2>4. OfVob(v, r.got) /\ (r.n > 0 => DOMAIN r.got = 1 .. r.n) /\ (r.n <= 0 => r.got = << >>)
    BY <1>5, <2>2, ReadVob
  <2>5. Sound(r.c) /\ Selected(r.c) /\ r.c.tried = c.tried /\ r.c \in CssT
    BY <1>5, <2>3, MovedKeeps DEF Moved
  <2>6. r.n > 0 => Inside(v, s, r.n)
    <3>1. Vobs[v].start \in Nat /\ Vobs[v].nsec \in Nat
      BY VobNat
    <3>. QED BY <2>3, <3>1 DEF Inside, VobEnd
  <2>7. r \in ReadT
    BY <2>1, <2>3, <2>4, <2>5 DEF ReadT, Read, OfVob
  <2>8. Kept(r.c, q)
    BY <2>1, <2>3, <2>4, <2>5, <2>6, <2>7, ScanSound
  <2>. QED BY <2>5, <2>8 DEF Kept
<1>. QED BY <1>4, <1>6, <1>7

(* Outside the VOBs a command stops short of the next one.                    *)
LEMMA BetweenVobs ==
  ASSUME NEW s \in Nat, VobAt(s) = {}, NEW n \in Int, NEW m \in Int, m <= Within(s, n)
  PROVE  \A u \in s .. s + m - 1 : u \notin VobSectors
<1>. DEFINE D == {b - s : b \in Behind(s)}
<1>1. SUFFICES ASSUME NEW u \in s .. s + m - 1, u \in VobSectors PROVE FALSE
  OBVIOUS
<1>2. PICK w \in VobIds : u \in Extent(w)
  BY <1>1 DEF VobSectors
<1>3. Vobs[w].start \in Nat /\ Vobs[w].nsec \in Nat
  BY VobNat
<1>4. Vobs[w].start > s
  <2>1. s \notin Extent(w)
    BY DEF VobAt
  <2>. QED BY <1>2, <1>3, <2>1 DEF Extent
<1>5. Vobs[w].start - s \in D
  BY <1>4 DEF Behind
<1>6. D \subseteq Nat
  <2>1. ASSUME NEW x \in VobIds, Vobs[x].start > s PROVE Vobs[x].start - s \in Nat
    <3>1. Vobs[x].start \in Nat
      BY VobNat
    <3>. QED BY <2>1, <3>1
  <2>. QED BY <2>1 DEF Behind
<1>. HIDE DEF D
<1>9. Min({n} \cup D) \in Int
  BY <1>6, MinWith
<1>10. Min({n} \cup D) \in {n} \cup D /\ \A y \in {n} \cup D : Min({n} \cup D) <= y
  BY <1>6, MinWith
<1>7. Min({n} \cup D) <= Vobs[w].start - s
  BY <1>5, <1>10
<1>8. Within(s, n) = Min({n} \cup D)
  BY DEF Within, D
<1>. QED BY <1>1, <1>2, <1>3, <1>7, <1>8, <1>9 DEF Extent

(* A chunk outside the VOBs, which is never decrypted.                      *)
LEMMA OtherChunkSound ==
  ASSUME NEW c, Sound(c), Selected(c), Placed(c), NEW s \in Nat, VobAt(s) = {}, NEW n \in Int,
         NEW q \in OtherChunk(c, s, Within(s, n))
  PROVE  Kept(c, q)
<1>. DEFINE k == Within(s, n)
<1>0. k \in Int
  <2>. DEFINE D == {b - s : b \in Behind(s)}
  <2>1. D \subseteq Nat
    <3>1. \A x \in VobIds : Vobs[x].start \in Nat
      BY VobNat
    <3>. QED BY <3>1 DEF Behind
  <2>2. Within(s, n) = Min({n} \cup D)
    BY DEF Within
  <2>. HIDE DEF D
  <2>3. Min({n} \cup D) \in Int
    BY <2>1, MinWith
  <2>. QED BY <2>2, <2>3
<1>1. PICK p \in Place(c, s) :
        IF ~p.ok THEN q = Failed(p.c) ELSE \E r \in Read(Keyless(p.c), k, FALSE) : q = Handed(r, s)
  BY DEF OtherChunk
<1>2. c \in CssT
  BY DEF Sound
<1>3. Moved(c, p.c) /\ (p.ok => p.c.at = s) /\ p.ok \in BOOLEAN
  BY <1>2, PlaceMoves
<1>4. Sound(p.c) /\ Selected(p.c) /\ p.c \in CssT /\ p.c.tried = c.tried
  BY <1>2, <1>3, MovedKeeps DEF Moved
<1>5. CASE ~p.ok
  BY <1>1, <1>4, <1>5, FailedKept
<1>6. CASE p.ok
  <2>. DEFINE d == Keyless(p.c)
  <2>1. PICK r \in Read(d, k, FALSE) : q = Handed(r, s)
    BY <1>1, <1>6
  <2>2. d \in CssT /\ d.key = c.key /\ d.cache = c.cache /\ d.tried = c.tried /\ d.at = s /\ d.ok = FALSE
    BY <1>3, <1>4, <1>6, KeylessType DEF Moved
  <2>. HIDE DEF d, k
  <2>3. Sound(d) /\ Selected(d)
    BY <2>2, SoundElsewhere DEF Selected
  <2>4. /\ Moved(d, r.c) /\ r.n \in Int /\ (r.n > 0 => r.n <= k)
        /\ r.c.at = IF r.n > 0 THEN s + r.n ELSE None
        /\ r.got = IF r.n > 0 THEN Got(s, r.n, FALSE, d.lib) ELSE << >>
    BY <1>0, <2>2, ReadMoves
  <2>5. Sound(r.c) /\ Selected(r.c) /\ r.c.tried = c.tried /\ r.c \in CssT
    BY <2>2, <2>3, <2>4, MovedKeeps DEF Moved
  <2>6. Plain(r.got)
    <3>1. CASE r.n > 0
      <4>1. \A u \in s .. s + r.n - 1 : u \notin VobSectors
        BY <2>4, <3>1, BetweenVobs DEF k
      <4>2. r.n \in Nat
        BY <2>4, <3>1
      <4>3. r.got = Got(s, r.n, FALSE, d.lib)
        BY <2>4, <3>1, Zenon
      <4>4. Plain(Got(s, r.n, FALSE, d.lib))
        BY <4>1, <4>2, GotPlain
      <4>. QED BY <4>3, <4>4, Zenon
    <3>2. CASE ~(r.n > 0)
      <4>1. r.got = << >>
        BY <2>4, <3>2
      <4>. QED BY <4>1 DEF Plain
    <3>. QED BY <3>1, <3>2
  <2>7. r \in ReadT
    <3>1. r = [n |-> r.n, c |-> r.c, got |-> r.got]
      BY ReadRecord
    <3>. QED BY <2>4, <2>5, <2>6, <3>1 DEF ReadT, Plain
  <2>8. /\ q \in ReadT /\ q.got = r.got /\ Moved(r.c, q.c) /\ q.c.at = r.c.at
        /\ q.c.pos = IF r.n > 0 THEN s + r.n ELSE None
    BY <2>1, <2>7, HandedIs
  <2>9. Sound(q.c) /\ Selected(q.c) /\ q.c.tried = c.tried
    BY <2>5, <2>8, MovedKeeps DEF Moved
  <2>10. Placed(q.c)
    BY <2>4, <2>8 DEF Placed
  <2>11. Fits(q.c.tried, q.got)
    BY <2>6, <2>8 DEF Fits, Fit, Plain
  <2>. QED BY <2>8, <2>9, <2>10, <2>11 DEF Kept
<1>. QED BY <1>3, <1>5, <1>6

-----------------------------------------------------------------------------
(* The windows: a chunk is added to what was there, or zeros are.             *)
LEMMA FitsMore ==
  ASSUME NEW S, NEW T, S \subseteq T, NEW got, Fits(S, got)
  PROVE  Fits(T, got)
BY DEF Fits, Fit

(* Two runs that fit are one.                                               *)
LEMMA FitsCat ==
  ASSUME NEW T, NEW a, NEW b, Fits(T, a), Fits(T, b)
  PROVE  Fits(T, a \o b)
<1>1. /\ a \in Seq(SlotT) /\ Len(a) \in Nat /\ DOMAIN a = 1 .. Len(a)
      /\ b \in Seq(SlotT) /\ Len(b) \in Nat /\ DOMAIN b = 1 .. Len(b)
  BY LenProperties DEF Fits
<1>2. /\ a \o b \in Seq(SlotT) /\ Len(a \o b) = Len(a) + Len(b)
      /\ \A i \in 1 .. Len(a) + Len(b) : (a \o b)[i] = IF i <= Len(a) THEN a[i] ELSE b[i - Len(a)]
  BY <1>1, ConcatProperties
<1>3. DOMAIN (a \o b) = 1 .. Len(a) + Len(b)
  BY <1>2, LenProperties
<1>4. ASSUME NEW i \in 1 .. Len(a) + Len(b) PROVE Fit(T, (a \o b)[i])
  <2>1. CASE i <= Len(a)
    BY <1>1, <1>2, <2>1 DEF Fits
  <2>2. CASE ~(i <= Len(a))
    <3>1. i - Len(a) \in DOMAIN b
      BY <1>1, <2>2
    <3>. QED BY <1>1, <1>2, <2>2, <3>1 DEF Fits
  <2>. QED BY <2>1, <2>2
<1>. QED BY <1>2, <1>3, <1>4 DEF Fits

(* An empty window fits.                                                    *)
LEMMA FitsNone ==
  ASSUME NEW T
  PROVE  Fits(T, << >>)
BY DEF Fits

(* Zeros fit.                                                               *)
LEMMA FitsZeros ==
  ASSUME NEW T, NEW n \in Int
  PROVE  Fits(T, [i \in 1 .. n |-> [lba |-> None, form |-> "zero"]])
<1>. DEFINE z == [lba |-> None, form |-> "zero"]
            g == [i \in 1 .. n |-> z]
<1>1. z \in SlotT /\ Fit(T, z)
  BY DEF SlotT, Forms, Fit
<1>. HIDE DEF z
<1>2. ASSUME n \in Nat PROVE Fits(T, g)
  <2>1. g \in [1 .. n -> SlotT] /\ \A i \in 1 .. n : g[i] = z
    BY <1>1
  <2>2. g \in Seq(SlotT) /\ DOMAIN g = 1 .. n
    BY <1>2, <2>1
  <2>. HIDE DEF g
  <2>. QED BY <1>1, <2>1, <2>2 DEF Fits
<1>3. ASSUME n \notin Nat PROVE Fits(T, g)
  <2>1. 1 .. n = 1 .. 0 /\ \A i \in 1 .. n : g[i] = z
    BY <1>3
  <2>2. g \in [1 .. 0 -> SlotT] /\ DOMAIN g = 1 .. 0
    BY <1>1, <2>1
  <2>3. g \in Seq(SlotT)
    BY <2>2
  <2>. HIDE DEF g
  <2>. QED BY <2>2, <2>3 DEF Fits
<1>5. Fits(T, g)
  BY <1>2, <1>3
<1>. QED BY <1>5 DEF z

(* A raw source knows no keys: all it returns fits.                         *)
LEMMA RawFits ==
  ASSUME NEW s \in Nat, NEW n \in Int, NEW r \in RawChunk(s, n)
  PROVE  Fits(VobIds, r.got) /\ r.c = css
<1>1. PICK m \in Lengths(s, n) :
        r = [n |-> m, c |-> css, got |-> IF m > 0 THEN Got(s, m, FALSE, Zero) ELSE << >>]
  BY DEF RawChunk
<1>2. r.c = css /\ r.got = IF m > 0 THEN Got(s, m, FALSE, Zero) ELSE << >>
  BY <1>1
<1>3. m \in Int
  BY LengthsBound
<1>4. CASE m > 0
  <2>. DEFINE f == [i \in 1 .. m |-> Form(s + i - 1, FALSE, Zero)]
              g == [i \in 1 .. m |-> [lba |-> s + i - 1, form |-> f[i]]]
  <2>1. \A i \in 1 .. m : f[i] \in {"plain", "scrambled"}
    BY FormRaw
  <2>2. Got(s, m, FALSE, Zero) = g
    BY Zenon DEF Got
  <2>. HIDE DEF f
  <2>3. \A i \in 1 .. m : [lba |-> s + i - 1, form |-> f[i]] \in SlotT
    BY <1>3, <2>1 DEF SlotT, Forms
  <2>4. g \in Seq(SlotT) /\ DOMAIN g = 1 .. m /\ \A i \in 1 .. m : g[i] \in SlotT /\ g[i].form = f[i]
    BY <1>3, <1>4, <2>3
  <2>5. \A x : VobAt(x) \subseteq VobIds
    BY DEF VobAt
  <2>6. Fits(VobIds, g)
    BY <2>1, <2>4, <2>5 DEF Fits, Fit
  <2>7. r.got = g
    BY <1>2, <1>4, <2>2, Zenon
  <2>. QED BY <1>2, <2>6, <2>7
<1>5. CASE ~(m > 0)
  <2>1. r.got = << >>
    BY <1>2, <1>5
  <2>. QED BY <1>2, <2>1, FitsNone
<1>. QED BY <1>4, <1>5

(* One chunk, whatever the source: what it hands on fits what is healed then. *)
LEMMA SrcChunkSound ==
  ASSUME IInv, src # "none", NEW s \in Nat, NEW n \in Int, NEW r \in SrcChunk(s, n)
  PROVE  /\ src = "css" => /\ Sound(r.c) /\ Selected(r.c) /\ Placed(r.c)
                           /\ css.tried \subseteq r.c.tried /\ Fits(r.c.tried, r.got)
         /\ src = "raw" => Fits(VobIds, r.got) /\ r.c = css
<1>1. CASE src = "raw"
  BY <1>1, RawFits DEF SrcChunk
<1>2. CASE src = "css"
  <2>1. TruthOK /\ Sound(css) /\ Selected(css) /\ Placed(css)
    BY <1>2 DEF IInv
  <2>2. CASE VobAt(s) = {}
    <3>1. r \in OtherChunk(css, s, Within(s, n))
      BY <1>2, <2>2 DEF SrcChunk
    <3>2. Kept(css, r)
      BY <2>1, <2>2, <3>1, OtherChunkSound
    <3>. QED BY <1>2, <3>2 DEF Kept
  <2>3. CASE VobAt(s) # {}
    <3>. DEFINE v == Min(VobAt(s))
                k == Within(s, n)
    <3>1. r \in VobChunk(css, v, s, k)
      BY <1>2, <2>3 DEF SrcChunk
    <3>2. v \in VobIds /\ s \in Extent(v) /\ VobAt(s) = {v}
      BY <2>3, TheVob
    <3>. HIDE DEF v
    <3>3. Vobs[v].start \in Nat /\ Vobs[v].nsec \in Nat
      BY <3>2, VobNat
    <3>4. {VobEnd(v) - s} \subseteq Nat
      BY <3>2, <3>3 DEF Extent, VobEnd
    <3>5. {VobEnd(w) - s : w \in VobAt(s)} = {VobEnd(v) - s}
      BY <3>2
    <3>6. k = Min({n} \cup {VobEnd(v) - s})
      BY <2>3, <3>5 DEF Within
    <3>7. /\ Min({n} \cup {VobEnd(v) - s}) \in Int
          /\ \A y \in {n} \cup {VobEnd(v) - s} : Min({n} \cup {VobEnd(v) - s}) <= y
      BY <3>4, MinWith
    <3>8. k \in Int /\ Inside(v, s, k)
      BY <3>2, <3>6, <3>7 DEF Inside
    <3>9. Kept(css, r)
      BY <2>1, <3>1, <3>2, <3>8, VobChunkSound
    <3>. QED BY <1>2, <3>9 DEF Kept
  <2>. QED BY <2>2, <2>3
<1>. QED BY <1>1, <1>2 DEF IInv

-----------------------------------------------------------------------------
(* Every sector of a pair has one twin, and is that one's.                   *)
LEMMA TwinOf ==
  ASSUME NEW p \in Pairs, Trusted(p), NEW s \in Sectors
  PROVE  /\ InIfo(p, s) => Twin(s) = p.bup + (s - p.ifo)
         /\ InBup(p, s) => Twin(s) = p.ifo + (s - p.bup)
<1>. SUFFICES ASSUME InIfo(p, s) \/ InBup(p, s)
     PROVE Twin(s) = IF InIfo(p, s) THEN p.bup + (s - p.ifo) ELSE p.ifo + (s - p.bup)
  BY PairAssumption
<1>. DEFINE q == CHOOSE x \in Pairs : Trusted(x) /\ (InIfo(x, s) \/ InBup(x, s))
<1>1. q \in Pairs /\ Trusted(q) /\ (InIfo(q, s) \/ InBup(q, s))
  OBVIOUS
<1>2. Twin(s) = IF InIfo(q, s) THEN q.bup + (s - q.ifo) ELSE q.ifo + (s - q.bup)
  BY DEF Twin
<1>. HIDE DEF q
<1>3. q = p
  BY <1>1, PairAssumption
<1>. QED BY <1>2, <1>3

(* And that one's twin is the sector again.                                 *)
LEMMA TwinBack ==
  ASSUME NEW s \in PairSectors
  PROVE  s \in Nat /\ Twin(s) \in PairSectors /\ Twin(Twin(s)) = s
<1>1. PICK p \in Pairs : Trusted(p) /\ (InIfo(p, s) \/ InBup(p, s))
  BY DEF PairSectors
<1>2. s \in Sectors /\ s \in Nat /\ Total \in Nat
  BY DiscAssumption DEF PairSectors, Sectors
<1>3. p \in [ifo : Nat, nifo : Nat, bup : Nat, nbup : Nat]
  BY DiscAssumption
<1>4. p.ifo \in Nat /\ p.nifo \in Nat /\ p.bup \in Nat /\ p.nbup \in Nat /\ p.nifo = p.nbup
  BY <1>1, <1>3 DEF Trusted
<1>5. p.ifo + p.nifo <= Total /\ p.bup + p.nbup <= Total
  BY <1>1, PairAssumption
<1>. DEFINE t == Twin(s)
<1>6. CASE InIfo(p, s)
  <2>1. t = p.bup + (s - p.ifo)
    BY <1>1, <1>2, <1>6, TwinOf
  <2>. HIDE DEF t
  <2>2. InBup(p, t) /\ t \in Sectors
    BY <1>2, <1>4, <1>5, <1>6, <2>1 DEF InIfo, InBup, Sectors
  <2>3. Twin(t) = p.ifo + (t - p.bup)
    BY <1>1, <2>2, TwinOf
  <2>4. Twin(t) = s
    BY <1>2, <1>4, <2>1, <2>3
  <2>5. t \in PairSectors
    BY <1>1, <2>2 DEF PairSectors
  <2>. QED BY <1>2, <2>4, <2>5 DEF t
<1>7. CASE InBup(p, s)
  <2>1. t = p.ifo + (s - p.bup)
    BY <1>1, <1>2, <1>7, TwinOf
  <2>. HIDE DEF t
  <2>2. InIfo(p, t) /\ t \in Sectors
    BY <1>2, <1>4, <1>5, <1>7, <2>1 DEF InIfo, InBup, Sectors
  <2>3. Twin(t) = p.bup + (t - p.ifo)
    BY <1>1, <2>2, TwinOf
  <2>4. Twin(t) = s
    BY <1>2, <1>4, <2>1, <2>3
  <2>5. t \in PairSectors
    BY <1>1, <2>2 DEF PairSectors
  <2>. QED BY <1>2, <2>4, <2>5 DEF t
<1>. QED BY <1>1, <1>6, <1>7

(* A clamped length is a number.                                            *)
LEMMA ClampedInt ==
  ASSUME NEW s \in Nat, NEW n \in Int
  PROVE  Clamped(s, n) \in Int
<1>. DEFINE D == {u - s : u \in {w \in Remembered : w > s}}
<1>1. D \subseteq Nat
  <2>1. \A u \in Remembered : u \in Nat
    BY TwinBack DEF Remembered
  <2>. QED BY <2>1
<1>2. Clamped(s, n) = Min({n} \cup D)
  BY DEF Clamped
<1>. HIDE DEF D
<1>3. Min({n} \cup D) \in Int
  BY <1>1, MinWith
<1>. QED BY <1>2, <1>3

(* And the place a window has got to.                                       *)
LEMMA AtNat ==
  ASSUME IInv
  PROVE  At \in Nat /\ Room \in Int
<1>1. req[1] \in Nat /\ req[2] \in Nat
  BY DEF IInv
<1>2. Len(win) \in Nat
  BY LenProperties DEF IInv, Fits
<1>. QED BY <1>1, <1>2 DEF At, Room

Zeros == [i \in 1 .. Room |-> [lba |-> None, form |-> "zero"]]

(* A drive command in the middle of a window keeps the invariant.             *)
LEMMA Command ==
  ASSUME IInv, src # "none", UNCHANGED << disc, req >>, NEW s \in Nat, NEW n \in Int, NEW r \in SrcChunk(s, n),
         css' = r.c, win' = win \/ win' = win \o r.got \/ win' = win \o Zeros,
         pc' \in {"idle", "loop", "twin", "again"}, pc' \in {"twin", "again"} => win' = win /\ At \in PairSectors
  PROVE  IInv'
<1>1. src' = src /\ truth' = truth /\ req' = req
  BY DEF disc
<1>2. Fits(Healed, win) /\ src \in {"css", "raw"}
  BY DEF IInv
<1>3. src = "css" => /\ Sound(r.c) /\ Selected(r.c) /\ Placed(r.c)
                     /\ css.tried \subseteq r.c.tried /\ Fits(r.c.tried, r.got)
  BY SrcChunkSound
<1>4. src = "raw" => Fits(VobIds, r.got) /\ r.c = css
  BY SrcChunkSound
<1>13. ~css'.stray
  <2>1. CASE src = "css"
    BY <1>3, <2>1 DEF Sound, CssT
  <2>2. CASE src = "raw"
    BY <1>4, <2>2 DEF IInv
  <2>. QED BY <1>2, <2>1, <2>2
<1>. DEFINE T == IF src = "css" THEN r.c.tried ELSE VobIds
<1>5. Fits(T, win) /\ Fits(T, r.got)
  BY <1>2, <1>3, <1>4, FitsMore DEF Healed
<1>6. Room \in Int
  BY AtNat
<1>7. Fits(T, Zeros)
  BY <1>6, FitsZeros DEF Zeros
<1>. HIDE DEF T
<1>8. Fits(T, win')
  BY <1>5, <1>7, FitsCat
<1>9. Healed' = T
  BY <1>1 DEF Healed, T
<1>10. src' = "css" => TruthOK' /\ Sound(css)' /\ Selected(css)' /\ Placed(css)'
  <2>1. SUFFICES ASSUME src = "css" PROVE TruthOK' /\ Sound(css)' /\ Selected(css)' /\ Placed(css)'
    BY <1>1
  <2>2. Sound(css)'
    BY <1>1, <1>3, <2>1 DEF Sound
  <2>3. Selected(css)' /\ Placed(css)'
    BY <1>3, <2>1 DEF Selected, Placed
  <2>. QED BY <1>1, <2>1, <2>2, <2>3 DEF TruthOK, IInv
<1>11. pc' \in {"twin", "again"} => At' \in PairSectors
  BY <1>1 DEF At
<1>12. Fits(Healed, win)'
  BY <1>8, <1>9 DEF Fits, Fit
<1>. QED BY <1>1, <1>10, <1>11, <1>12, <1>13 DEF IInv

(* A step that leaves the drive alone.                                       *)
LEMMA Quiet ==
  ASSUME IInv, src # "none", UNCHANGED << disc, req, css >>, win' = win \/ win' = win \o Zeros,
         pc' \in {"idle", "loop", "twin", "again"}, pc' \in {"twin", "again"} => win' = win /\ At \in PairSectors
  PROVE  IInv'
<1>1. src' = src /\ truth' = truth /\ req' = req /\ css' = css
  BY DEF disc
<1>2. Fits(Healed, win) /\ Room \in Int
  BY AtNat DEF IInv
<1>3. Fits(Healed, Zeros)
  BY <1>2, FitsZeros DEF Zeros
<1>4. Fits(Healed, win')
  BY <1>2, <1>3, FitsCat
<1>5. Fits(Healed, win)'
  BY <1>1, <1>4 DEF Fits, Fit, Healed
<1>6. src' = "css" => TruthOK' /\ Sound(css)' /\ Selected(css)' /\ Placed(css)'
  <2>1. Sound(css) => Sound(css)'
    BY <1>1 DEF Sound
  <2>2. Selected(css) => Selected(css)'
    BY <1>1 DEF Selected
  <2>3. (Placed(css) => Placed(css)') /\ (TruthOK => TruthOK')
    BY <1>1 DEF Placed, TruthOK
  <2>. QED BY <1>1, <2>1, <2>2, <2>3 DEF IInv
<1>7. pc' \in {"twin", "again"} => At' \in PairSectors
  BY <1>1 DEF At
<1>. QED BY <1>1, <1>5, <1>6, <1>7 DEF IInv

(* The tables a mount begins with.                                          *)
LEMMA OpenedSound ==
  ASSUME NEW t \in Truths, NEW c \in Primings(t)
  PROVE  /\ Opened(c) \in CssT /\ Opened(c).tried = {} /\ ~Opened(c).ok /\ Opened(c).pos = None
         /\ \A v \in VobIds : Opened(c).cache[Opened(c).key[v]] \in {None, Zero, t[v]}
         /\ \A v \in VobIds : Opened(c).key[v] \in KeyBlocks /\ KeysOf(t, Opened(c).key[v]) \subseteq {t[v]}
         /\ \A v, w \in VobIds : Opened(c).key[v] = Opened(c).key[w] => t[v] = t[w]
<1>. DEFINE d == Opened(c)
            F == {f \in [KeyBlocks -> UNION {Primed(t, b) : b \in KeyBlocks}] : \A b \in KeyBlocks : f[b] \in Primed(t, b)}
<1>1. PICK k \in F : c = [b \in VobSectors |-> IF b \in KeyBlocks THEN k[b] ELSE None]
  BY DEF Primings
<1>2. \A b \in KeyBlocks : k[b] \in {None, Zero} \cup KeysOf(t, b)
  BY <1>1 DEF Primed
<1>3. c \in [VobSectors -> Int]
  <2>1. \A b \in VobSectors : (IF b \in KeyBlocks THEN k[b] ELSE None) \in Int
    BY <1>2, KeysNat
  <2>. QED BY <1>1, <2>1
<1>4. \A v \in VobIds : KeyBlock(v) \in VobSectors /\ KeyBlock(v) \in KeyBlocks /\ KeysOf(t, KeyBlock(v)) = {t[v]}
  BY KeyBlockAt DEF KeyBlocks
<1>. DEFINE K == [v \in VobIds |-> KeyBlock(v)]
<1>5. K \in [VobIds -> VobSectors]
  BY <1>4
<1>6. d = [pos |-> None, cur |-> None, ok |-> FALSE, key |-> K, tried |-> {},
           lib |-> Zero, at |-> None, cache |-> c, again |-> FALSE, stray |-> FALSE]
  BY DEF Opened
<1>. HIDE DEF K, d
<1>7. d \in CssT /\ d.tried = {} /\ ~d.ok /\ d.pos = None /\ d.key = K /\ d.cache = c
  BY <1>3, <1>5, <1>6 DEF CssT
<1>8. \A v \in VobIds : d.key[v] = KeyBlock(v)
  BY <1>7 DEF K
<1>9. \A v \in VobIds : c[KeyBlock(v)] \in {None, Zero, t[v]}
  BY <1>1, <1>2, <1>4
<1>. QED BY <1>4, <1>7, <1>8, <1>9 DEF d

(* Without a disc nothing has been asked for.                               *)
LEMMA NoKeysType == ~NoKeys.stray
BY DEF NoKeys, Opened

(* The invariant is one of every behaviour: each drive command and each     *)
(* step of the mirror keeps the tables behind the window sound.             *)
THEOREM Inductive == Spec => []IInv
<1>1. Init => IInv
  BY FitsNone, NoKeysType DEF Init, IInv
<1>2. IInv /\ [Next]_vars => IInv'
  <2>. SUFFICES ASSUME IInv, [Next]_vars PROVE IInv'
    OBVIOUS
  <2>0. At \in Nat /\ Room \in Int
    BY AtNat
  <2>1. CASE Open
    <3>1. /\ src = "none" /\ src' \in {"css", "raw"} /\ truth' \in Truths /\ req' = req /\ pc' = pc /\ win' = win
          /\ src' = "css" => \E c \in Primings(truth') : css' = Opened(c)
          /\ src' = "raw" => css' = NoKeys
      BY <2>1 DEF Open
    <3>2. win' = << >> /\ pc' = "idle" /\ req' \in Nat \X Nat
      BY <3>1 DEF IInv
    <3>3. Fits(Healed, win)'
      BY <3>2, FitsNone DEF Fits, Fit
    <3>4. src' = "css" => TruthOK' /\ Sound(css)' /\ Selected(css)' /\ Placed(css)'
      <4>1. SUFFICES ASSUME src' = "css" PROVE TruthOK' /\ Sound(css)' /\ Selected(css)' /\ Placed(css)'
        OBVIOUS
      <4>2. PICK c \in Primings(truth') : css' = Opened(c)
        BY <3>1, <4>1
      <4>3. /\ css' \in CssT /\ ~css'.ok /\ css'.pos = None
            /\ \A v \in VobIds : css'.cache[css'.key[v]] \in {None, Zero, truth'[v]}
            /\ \A v \in VobIds : css'.key[v] \in KeyBlocks /\ KeysOf(truth', css'.key[v]) \subseteq {truth'[v]}
            /\ \A v, w \in VobIds : css'.key[v] = css'.key[w] => truth'[v] = truth'[w]
        BY <3>1, <4>2, OpenedSound
      <4>. QED BY <3>1, <4>3 DEF TruthOK, Sound, Selected, Placed
    <3>5. ~css'.stray
      <4>1. CASE src' = "css"
        BY <3>4, <4>1 DEF Sound, CssT
      <4>2. CASE src' = "raw"
        BY <3>1, <4>2, NoKeysType
      <4>. QED BY <3>1, <4>1, <4>2
    <3>. QED BY <3>1, <3>2, <3>3, <3>4, <3>5 DEF IInv
  <2>2. CASE Close
    <3>1. css' = NoKeys /\ src' = "none" /\ pc' = "idle" /\ win' = << >> /\ req' = << 0, 0 >>
      BY <2>2 DEF Close
    <3>2. Fits(Healed, win)'
      BY <3>1, FitsNone DEF Fits, Fit
    <3>. QED BY <3>1, <3>2, NoKeysType DEF IInv
  <2>3. CASE Wear
    <3>1. src # "none" /\ UNCHANGED << disc, req, css >> /\ win' = win /\ pc' = pc
      BY <2>3 DEF Wear
    <3>2. pc' \in {"idle", "loop", "twin", "again"} /\ (pc' \in {"twin", "again"} => win' = win /\ At \in PairSectors)
      BY <3>1 DEF IInv
    <3>. QED BY <3>1, <3>2, Quiet
  <2>4. CASE Call
    <3>1. PICK s \in Sectors, n \in Counts : req' = << s, n >>
      BY <2>4 DEF Call
    <3>2. req' \in Nat \X Nat
      BY <3>1, DiscAssumption DEF Sectors
    <3>3. /\ src # "none" /\ src' = src /\ truth' = truth /\ css' = css /\ win' = << >> /\ pc' = "loop"
      BY <2>4 DEF Call, disc
    <3>4. Fits(Healed, win)'
      BY <3>3, FitsNone DEF Fits, Fit
    <3>5. src' = "css" => TruthOK' /\ Sound(css)' /\ Selected(css)' /\ Placed(css)'
      BY <3>3 DEF IInv, TruthOK, Sound, Selected, Placed
    <3>. QED BY <3>2, <3>3, <3>4, <3>5 DEF IInv
  <2>5. CASE Window
    <3>. DEFINE n == Clamped(At, Room)
    <3>1. PICK r \in SrcChunk(At, n) :
            /\ css' = r.c
            /\ \/ r.n > 0 /\ Serve(r.got) /\ UNCHANGED walk
               \/ r.n < 0 /\ Overlaps(At, n) /\ walk' = TRUE /\ UNCHANGED << pc, win >>
               \/ r.n < 0 /\ ~Overlaps(At, n) /\ GiveUp /\ UNCHANGED walk
      BY <2>5 DEF Window
    <3>2. pc = "loop" /\ UNCHANGED << disc, req >>
      BY <2>5 DEF Window
    <3>3. n \in Int /\ src # "none"
      BY <2>0, <3>2, ClampedInt DEF IInv
    <3>. HIDE DEF n
    <3>4. /\ win' = win \/ win' = win \o r.got \/ win' = win \o Zeros
          /\ pc' \in {"idle", "loop"}
      BY <3>1, <3>2 DEF Serve, GiveUp, Zeros
    <3>. QED BY <2>0, <3>1, <3>2, <3>3, <3>4, Command
  <2>6. CASE Single
    <3>1. PICK r \in SrcChunk(At, 1) : css' = r.c /\ (IF r.n > 0 THEN Serve(r.got) ELSE GiveUp)
      BY <2>6 DEF Single
    <3>2. src # "none" /\ UNCHANGED << disc, req >>
      BY <2>6 DEF Single, IInv
    <3>3. (win' = win \/ win' = win \o r.got \/ win' = win \o Zeros) /\ pc' \in {"idle", "loop"}
      BY <3>1 DEF Serve, GiveUp, Zeros
    <3>. QED BY <2>0, <3>1, <3>2, <3>3, Command
  <2>7. CASE Dead
    <3>1. src # "none" /\ UNCHANGED << disc, req, css >> /\ (win' = win \/ win' = win \o Zeros) /\ pc' = "idle"
      BY <2>7 DEF Dead, GiveUp, Zeros, IInv
    <3>. QED BY <3>1, Quiet
  <2>8. CASE Own
    <3>1. PICK r \in SrcChunk(At, 1) : css' = r.c /\ (IF r.n = 1 THEN Serve(r.got) ELSE pc' = "twin" /\ UNCHANGED win)
      BY <2>8 DEF Own
    <3>2. src # "none" /\ UNCHANGED << disc, req >> /\ At \in PairSectors
      BY <2>8 DEF Own, IInv
    <3>3. \/ win' = win \o r.got /\ pc' \in {"idle", "loop"}
          \/ win' = win /\ pc' = "twin"
      BY <3>1 DEF Serve
    <3>. QED BY <2>0, <3>1, <3>2, <3>3, Command
  <2>9. CASE Skip
    <3>1. src # "none" /\ UNCHANGED << disc, req, css >> /\ win' = win /\ pc' = "twin" /\ At \in PairSectors
      BY <2>9 DEF Skip, IInv
    <3>. QED BY <3>1, Quiet
  <2>10. CASE TwinDead
    <3>1. src # "none" /\ UNCHANGED << disc, req, css >> /\ (win' = win \/ win' = win \o Zeros) /\ pc' = "idle"
      BY <2>10 DEF TwinDead, GiveUp, Zeros, IInv
    <3>. QED BY <3>1, Quiet
  <2>11. CASE FromTwin
    <3>1. PICK r \in SrcChunk(Twin(At), 1) :
            /\ css' = r.c
            /\ \/ Serve(r.got)
               \/ pc' = "again" /\ UNCHANGED win
               \/ GiveUp
      BY <2>11 DEF FromTwin
    <3>2. src # "none" /\ UNCHANGED << disc, req >> /\ At \in PairSectors
      BY <2>11 DEF FromTwin, IInv
    <3>3. Twin(At) \in Nat
      BY <3>2, TwinBack
    <3>4. \/ (win' = win \/ win' = win \o r.got \/ win' = win \o Zeros) /\ pc' \in {"idle", "loop"}
          \/ win' = win /\ pc' = "again"
      BY <3>1 DEF Serve, GiveUp, Zeros
    <3>. QED BY <3>1, <3>2, <3>3, <3>4, Command
  <2>12. CASE AfterAll
    <3>1. PICK r \in SrcChunk(At, 1) : css' = r.c /\ (Serve(r.got) \/ GiveUp)
      BY <2>12 DEF AfterAll
    <3>2. src # "none" /\ UNCHANGED << disc, req >>
      BY <2>12 DEF AfterAll, IInv
    <3>3. (win' = win \/ win' = win \o r.got \/ win' = win \o Zeros) /\ pc' \in {"idle", "loop"}
      BY <3>1 DEF Serve, GiveUp, Zeros
    <3>. QED BY <2>0, <3>1, <3>2, <3>3, Command
  <2>13. CASE UNCHANGED vars
    <3>1. /\ src' = src /\ truth' = truth /\ css' = css /\ win' = win /\ pc' = pc /\ req' = req
      BY <2>13 DEF vars, disc
    <3>. QED BY <3>1 DEF IInv, TruthOK, Sound, Selected, Placed, Fits, Fit, Healed, At
  <2>. QED BY <2>1, <2>2, <2>3, <2>4, <2>5, <2>6, <2>7, <2>8, <2>9, <2>10, <2>11, <2>12, <2>13 DEF Next
<1>. QED BY <1>1, <1>2, PTL DEF Spec

(* Nothing is ever decrypted with a key that is not its own.                 *)
THEOREM NoNoise == Spec => []NeverNoise
<1>1. IInv => NeverNoise
  BY DEF IInv, Fits, Fit, NeverNoise
<1>. QED BY <1>1, Inductive, PTL

(* No title key is asked for where none was asked for at the mount or proven.  *)
THEOREM NoneCrackedAstray == Spec => []NoStrayCrack
<1>1. IInv => NoStrayCrack
  BY DEF IInv, NoStrayCrack
<1>. QED BY <1>1, Inductive, PTL

(* What goes out scrambled goes out after its domain has been healed in vain. *)
THEOREM AllScrambledSeen == Spec => []ScrambledSeen
<1>1. IInv => ScrambledSeen
  BY DEF IInv, Fits, Fit, Healed, ScrambledSeen
<1>. QED BY <1>1, Inductive, PTL

-----------------------------------------------------------------------------
(***************************************************************************)
(* The mirror.  What is remembered of a pair is true of the disc as long as    *)
(* that does not change; a sector at a time the window is then what could be  *)
(* had.                                                                     *)
(***************************************************************************)

(* What has been put into a window at place i.                              *)
Fetched(i, x) ==
  /\ x.form # "zero"
  /\ \/ x.lba = Wanted(i)
     \/ /\ Wanted(i) \in PairSectors /\ x.lba = Twin(Wanted(i))
        /\ worn = 0 => Wanted(i) \in bad
AllFetched(n) == \A i \in 1 .. n : Fetched(i, win[i])

(* Why a window may end early at place i.                                   *)
Lost(s) == s \in bad /\ (s \in PairSectors => Twin(s) \in bad)
EndsAt(i) ==
  IF Wanted(i) \in PairSectors THEN Lost(Wanted(i)) ELSE \E j \in i .. req[2] : Lost(Wanted(j))

MirT == [PairSectors -> {"unknown", "twin", "dead"}]
Memory(m) ==
  \A s \in PairSectors : /\ m[s] = "twin" => s \in bad /\ Twin(s) \notin bad
                         /\ m[s] = "dead" => s \in bad /\ Twin(s) \in bad

(* A pair sector whose own copy failed, on its way to the other.            *)
Turned == pc \in {"twin", "again"} => At \in PairSectors /\ mir[At] # "dead"
Running == pc # "idle" => Len(win) < req[2] /\ AllFetched(Len(win))
Stopped ==
  pc = "idle" /\ req[2] > 0 =>
    \/ Len(win) = req[2] /\ AllFetched(req[2])
    \/ win = << >> /\ (worn = 0 => EndsAt(1))
    \/ /\ Len(win) = req[2]
       /\ \E k \in 2 .. req[2] : /\ AllFetched(k - 1) /\ (worn = 0 => EndsAt(k))
                                 /\ \A i \in k .. req[2] : win[i].form = "zero"

Mirrored ==
  /\ mir \in MirT /\ worn \in Nat
  /\ src = "none" => worn = 0 /\ back = {} /\ req = << 0, 0 >>
  /\ worn = 0 /\ src # "none" => Memory(mir)
  /\ worn = 0 => back = {} /\ (pc = "twin" => At \in bad) /\ pc # "again"
  /\ Turned /\ Running /\ Stopped


(* A command is never shortened to nothing.                                 *)
LEMMA MinPositive ==
  ASSUME NEW S, S \subseteq Nat \ {0}, NEW n \in Nat \ {0}
  PROVE  Min({n} \cup S) \in 1 .. n /\ \A y \in S : Min({n} \cup S) <= y
<1>1. S \subseteq Nat /\ n \in Int
  OBVIOUS
<1>2. /\ Min({n} \cup S) \in Int /\ Min({n} \cup S) \in {n} \cup S
      /\ \A y \in {n} \cup S : Min({n} \cup S) <= y
  BY <1>1, MinWith
<1>. DEFINE m == Min({n} \cup S)
<1>. HIDE DEF m
<1>3. m \in Int /\ m \in {n} \cup S /\ \A y \in {n} \cup S : m <= y
  BY <1>2 DEF m
<1>4. m \in 1 .. n /\ \A y \in S : m <= y
  BY <1>3
<1>. QED BY <1>4 DEF m

(* Nor at the edge of a key domain.                                          *)
LEMMA WithinIs ==
  ASSUME NEW s \in Nat, NEW n \in Nat \ {0}
  PROVE  Within(s, n) \in 1 .. n
<1>1. \A v \in VobIds : Vobs[v].start \in Nat /\ Vobs[v].nsec \in Nat
  BY VobNat
<1>2. CASE VobAt(s) = {}
  <2>. DEFINE D == {b - s : b \in Behind(s)}
  <2>1. D \subseteq Nat \ {0}
    BY <1>1 DEF Behind
  <2>2. Within(s, n) = Min({n} \cup D)
    BY <1>2 DEF Within
  <2>. HIDE DEF D
  <2>3. Min({n} \cup D) \in 1 .. n
    BY <2>1, MinPositive
  <2>. QED BY <2>2, <2>3
<1>3. CASE VobAt(s) # {}
  <2>. DEFINE D == {VobEnd(v) - s : v \in VobAt(s)}
  <2>1. D \subseteq Nat \ {0}
    BY <1>1 DEF VobAt, VobEnd, Extent
  <2>2. Within(s, n) = Min({n} \cup D)
    BY <1>3 DEF Within
  <2>. HIDE DEF D
  <2>3. Min({n} \cup D) \in 1 .. n
    BY <2>1, MinPositive
  <2>. QED BY <2>2, <2>3
<1>. QED BY <1>2, <1>3

(* A window stops short of the next sector that is remembered.               *)
LEMMA ClampedIs ==
  ASSUME NEW s \in Nat, NEW n \in Nat \ {0}
  PROVE  Clamped(s, n) \in 1 .. n /\ \A u \in Remembered : u > s => u \notin s .. s + Clamped(s, n) - 1
<1>. DEFINE D == {u - s : u \in {w \in Remembered : w > s}}
<1>1. \A u \in Remembered : u \in Nat
  BY TwinBack DEF Remembered
<1>2. D \subseteq Nat \ {0}
  BY <1>1
<1>3. Clamped(s, n) = Min({n} \cup D)
  BY DEF Clamped
<1>4. \A u \in Remembered : u > s => u - s \in D
  BY <1>1
<1>. HIDE DEF D
<1>9. Min({n} \cup D) \in 1 .. n /\ \A y \in D : Min({n} \cup D) <= y
  BY <1>2, MinPositive
<1>5. Clamped(s, n) \in 1 .. n /\ \A y \in D : Clamped(s, n) <= y
  BY <1>3, <1>9
<1>. DEFINE k == Clamped(s, n)
<1>6. k \in 1 .. n /\ \A y \in D : k <= y
  BY <1>5
<1>. HIDE DEF k
<1>7. \A u \in Remembered : u > s => u \notin s .. s + k - 1
  BY <1>1, <1>4, <1>6
<1>. QED BY <1>6, <1>7 DEF k

-----------------------------------------------------------------------------
(* A run of sectors read one after the other, none of them bad; and what a     *)
(* command for n sectors from s brings: the first of them, or nothing, for a  *)
(* bad one among them.                                                      *)
Upward(got, s) ==
  /\ got \in Seq(SlotT)
  /\ \A i \in 1 .. Len(got) : got[i].lba = s + i - 1 /\ s + i - 1 \notin bad /\ got[i].form # "zero"
Brings(r, s, n) ==
  \/ r.n \in 1 .. n /\ Upward(r.got, s) /\ Len(r.got) = r.n
  \/ r.n = -1 /\ \E u \in s .. s + n - 1 : u \in bad

(* The head of such a run is one.                                           *)
LEMMA UpwardHead ==
  ASSUME NEW got, NEW s \in Nat, Upward(got, s), NEW j \in 1 .. Len(got)
  PROVE  Upward(SubSeq(got, 1, j - 1), s) /\ Len(SubSeq(got, 1, j - 1)) = j - 1
<1>1. got \in Seq(SlotT) /\ DOMAIN got = 1 .. Len(got) /\ Len(got) \in Nat
  BY LenProperties DEF Upward
<1>2. /\ SubSeq(got, 1, j - 1) \in Seq(SlotT)
      /\ Len(SubSeq(got, 1, j - 1)) = j - 1
      /\ \A i \in 1 .. j - 1 : SubSeq(got, 1, j - 1)[i] = got[i]
  BY <1>1, SubSeqProperties
<1>. DEFINE h == SubSeq(got, 1, j - 1)
<1>. HIDE DEF h
<1>3. h \in Seq(SlotT) /\ Len(h) = j - 1 /\ \A i \in 1 .. j - 1 : i \in 1 .. Len(got) /\ h[i] = got[i]
  BY <1>1, <1>2 DEF h
<1>4. Upward(h, s)
  BY <1>3 DEF Upward
<1>. QED BY <1>3, <1>4 DEF h

(* So do two runs that meet.                                                 *)
LEMMA UpwardOn ==
  ASSUME NEW a, NEW b, NEW s \in Nat, Upward(a, s), Upward(b, s + Len(a))
  PROVE  Upward(a \o b, s) /\ Len(a \o b) = Len(a) + Len(b)
<1>1. /\ a \in Seq(SlotT) /\ Len(a) \in Nat /\ DOMAIN a = 1 .. Len(a)
      /\ b \in Seq(SlotT) /\ Len(b) \in Nat /\ DOMAIN b = 1 .. Len(b)
  BY LenProperties DEF Upward
<1>2. /\ a \o b \in Seq(SlotT) /\ Len(a \o b) = Len(a) + Len(b)
      /\ \A i \in 1 .. Len(a) + Len(b) : (a \o b)[i] = IF i <= Len(a) THEN a[i] ELSE b[i - Len(a)]
  BY <1>1, ConcatProperties
<1>3. ASSUME NEW i \in 1 .. Len(a) + Len(b)
      PROVE  (a \o b)[i].lba = s + i - 1 /\ s + i - 1 \notin bad /\ (a \o b)[i].form # "zero"
  <2>1. CASE i <= Len(a)
    BY <1>1, <1>2, <2>1 DEF Upward
  <2>2. CASE ~(i <= Len(a))
    <3>. DEFINE k == i - Len(a)
    <3>1. k \in 1 .. Len(b) /\ s + Len(a) + k - 1 = s + i - 1
      BY <1>1, <2>2
    <3>2. (a \o b)[i] = b[k]
      BY <1>2, <2>2
    <3>. HIDE DEF k
    <3>3. b[k].lba = s + Len(a) + k - 1 /\ s + Len(a) + k - 1 \notin bad /\ b[k].form # "zero"
      BY <3>1 DEF Upward
    <3>. QED BY <3>1, <3>2, <3>3
  <2>. QED BY <2>1, <2>2
<1>. QED BY <1>2, <1>3 DEF Upward

(* How far a command gets: to its end, or to a bad sector.                   *)
LEMMA LengthsIs ==
  ASSUME NEW s \in Nat, NEW n \in Nat \ {0}, NEW m \in Lengths(s, n)
  PROVE  /\ (m \in 1 .. n /\ \A u \in s .. s + m - 1 : u \notin bad) \/ m = -1
         /\ m # n => \E u \in s .. s + n - 1 : u \in bad
<1>. DEFINE hit == {u \in s .. s + n - 1 : u \in bad}
<1>1. CASE hit = {}
  BY <1>1 DEF Lengths
<1>2. CASE hit # {}
  <2>1. hit \subseteq Nat
    OBVIOUS
  <2>2. Min(hit) \in hit /\ \A u \in hit : Min(hit) <= u
    BY <1>2, <2>1, MinNat
  <2>3. m = -1 \/ (m = Min(hit) - s /\ m # 0)
    BY <1>2 DEF Lengths
  <2>. DEFINE h == Min(hit)
  <2>4. h \in s .. s + n - 1 /\ h \in bad /\ \A u \in s .. s + n - 1 : u \in bad => h <= u
    BY <2>2
  <2>5. m = -1 \/ (m = h - s /\ m # 0)
    BY <2>3
  <2>. HIDE DEF h, hit
  <2>. QED BY <2>4, <2>5
<1>. QED BY <1>1, <1>2

(* A sector of the disc is never the zeros of a window that gave up.         *)
LEMMA FormIn ==
  ASSUME NEW s, NEW decrypt, NEW x
  PROVE  Form(s, decrypt, x) \in Forms \ {"zero"}
BY DEF Form, Forms

(* What a command got is such a run.                                         *)
LEMMA GotUpward ==
  ASSUME NEW s \in Nat, NEW m \in Nat, NEW decrypt, NEW x, \A u \in s .. s + m - 1 : u \notin bad
  PROVE  Upward(Got(s, m, decrypt, x), s) /\ Len(Got(s, m, decrypt, x)) = m
<1>1. \A u \in s .. s + m - 1 : Form(u, decrypt, x) \in Forms
  BY FormIn
<1>. DEFINE g == Got(s, m, decrypt, x)
<1>2. /\ g \in Seq(SlotT) /\ DOMAIN g = 1 .. m
      /\ \A i \in 1 .. m : g[i].lba = s + i - 1 /\ g[i].form = Form(s + i - 1, decrypt, x)
  BY <1>1, GotSeq
<1>. HIDE DEF g
<1>3. Len(g) = m
  BY <1>2
<1>4. \A i \in 1 .. m : g[i].lba = s + i - 1 /\ g[i].form # "zero"
  BY <1>2, FormIn
<1>5. \A i \in 1 .. m : s + i - 1 \notin bad
  OBVIOUS
<1>6. Upward(g, s)
  BY <1>2, <1>3, <1>4, <1>5 DEF Upward
<1>. QED BY <1>3, <1>6 DEF g

(* A read by libdvdcss brings what it can, and stops short for a bad sector.  *)
LEMMA ReadBrings ==
  ASSUME NEW c \in CssT, c.at \in Nat, NEW n \in Nat \ {0}, NEW decrypt, NEW r \in Read(c, n, decrypt)
  PROVE  Brings(r, c.at, n) /\ (r.n # n => \E u \in c.at .. c.at + n - 1 : u \in bad)
<1>1. PICK m \in Lengths(c.at, n) :
        r = [n |-> m, c |-> [c EXCEPT !.at = IF m > 0 THEN @ + m ELSE None],
             got |-> IF m > 0 THEN Got(c.at, m, decrypt, c.lib) ELSE << >>]
  BY DEF Read
<1>2. r.n = m /\ (m > 0 => r.got = Got(c.at, m, decrypt, c.lib))
  BY <1>1, Zenon
<1>. DEFINE s == c.at
<1>3. /\ (m \in 1 .. n /\ \A u \in s .. s + m - 1 : u \notin bad) \/ m = -1
      /\ m # n => \E u \in s .. s + n - 1 : u \in bad
  BY LengthsIs
<1>4. CASE m = -1
  BY <1>2, <1>3, <1>4 DEF Brings
<1>5. CASE m \in 1 .. n /\ \A u \in s .. s + m - 1 : u \notin bad
  <2>1. m \in Nat /\ r.got = Got(s, m, decrypt, c.lib)
    BY <1>2, <1>5
  <2>2. Upward(r.got, s) /\ Len(r.got) = m
    BY <1>5, <2>1, GotUpward
  <2>. QED BY <1>2, <1>3, <1>5, <2>2 DEF Brings
<1>. QED BY <1>3, <1>4, <1>5

(* So does one by the drive alone.                                           *)
LEMMA RawBrings ==
  ASSUME NEW s \in Nat, NEW n \in Nat \ {0}, NEW r \in RawChunk(s, n)
  PROVE  Brings(r, s, n)
<1>1. PICK m \in Lengths(s, n) :
        r = [n |-> m, c |-> css, got |-> IF m > 0 THEN Got(s, m, FALSE, Zero) ELSE << >>]
  BY DEF RawChunk
<1>2. r.n = m /\ (m > 0 => r.got = Got(s, m, FALSE, Zero))
  BY <1>1, Zenon
<1>3. /\ (m \in 1 .. n /\ \A u \in s .. s + m - 1 : u \notin bad) \/ m = -1
      /\ m # n => \E u \in s .. s + n - 1 : u \in bad
  BY LengthsIs
<1>4. CASE m = -1
  BY <1>2, <1>3, <1>4 DEF Brings
<1>5. CASE m \in 1 .. n /\ \A u \in s .. s + m - 1 : u \notin bad
  <2>1. m \in Nat /\ m > 0
    BY <1>5
  <2>2. Upward(Got(s, m, FALSE, Zero), s) /\ Len(Got(s, m, FALSE, Zero)) = m
    BY <1>5, <2>1, GotUpward
  <2>3. Upward(r.got, s) /\ Len(r.got) = m
    BY <1>2, <2>1, <2>2, Zenon
  <2>. QED BY <1>2, <1>5, <2>3 DEF Brings
<1>. QED BY <1>3, <1>4, <1>5

(* A seek fails at a bad sector only.                                        *)
LEMMA PlaceFails ==
  ASSUME NEW c, NEW s, NEW p \in Place(c, s) \cup Seek(c, s), ~p.ok
  PROVE  s \in bad
BY DEF Place, Seek

(* The second read of what was scrambled brings no less.                     *)
LEMMA AgainBrings ==
  ASSUME NEW c \in CssT, NEW s \in Nat, NEW n \in Nat \ {0}, NEW r, Brings(r, s, n), r.n > 0,
         NEW j \in 1 .. r.n, NEW q \in Again(c, r, j, s)
  PROVE  Brings(q, s, n)
<1>. DEFINE rest == r.n - j + 1
            head == SubSeq(r.got, 1, j - 1)
            t    == s + j - 1
<1>1. /\ r.n \in 1 .. n /\ Upward(r.got, s) /\ Len(r.got) = r.n
      /\ rest \in Nat \ {0} /\ t \in Nat /\ t + rest = s + r.n
  BY DEF Brings
<1>2. Upward(head, s) /\ Len(head) = j - 1
  BY <1>1, UpwardHead
<1>3. ASSUME NEW d, q = UpTo(d, r, j), NEW x \in t .. t + rest - 1, x \in bad
      PROVE  Brings(q, s, n)
  <2>1. q.n = (IF j > 1 THEN j - 1 ELSE -1) /\ q.got = head
    BY <1>3 DEF UpTo
  <2>2. x \in s .. s + n - 1
    BY <1>1
  <2>. HIDE DEF head
  <2>. QED BY <1>1, <1>2, <1>3, <2>1, <2>2 DEF Brings
<1>4. PICK p \in Seek(c, t) :
        \/ ~p.ok /\ q = UpTo(p.c, r, j)
        \/ p.ok /\ \E u \in Read(p.c, rest, TRUE) :
             \/ u.n # rest /\ q = UpTo(u.c, r, j)
             \/ u.n = rest /\ q = [n |-> r.n, c |-> [u.c EXCEPT !.pos = s + r.n], got |-> head \o u.got]
  BY DEF Again
<1>. HIDE DEF rest, t
<1>5. CASE ~p.ok /\ q = UpTo(p.c, r, j)
  <2>1. t \in bad /\ t \in t .. t + rest - 1
    BY <1>1, <1>4, <1>5, PlaceFails
  <2>. QED BY <1>3, <1>5, <2>1
<1>6. ASSUME p.ok, NEW u \in Read(p.c, rest, TRUE)
      PROVE  Brings(u, t, rest) /\ (u.n # rest => \E x \in t .. t + rest - 1 : x \in bad)
  <2>1. p.c \in CssT /\ p.c.at = t /\ p.c.at \in Nat
    BY <1>1, <1>6, SeekMoves DEF Moved
  <2>. QED BY <1>1, <1>6, <2>1, ReadBrings
<1>7. CASE p.ok /\ \E u \in Read(p.c, rest, TRUE) : u.n # rest /\ q = UpTo(u.c, r, j)
  BY <1>3, <1>6, <1>7
<1>8. ASSUME p.ok, NEW u \in Read(p.c, rest, TRUE), u.n = rest,
             q = [n |-> r.n, c |-> [u.c EXCEPT !.pos = s + r.n], got |-> head \o u.got]
      PROVE  Brings(q, s, n)
  <2>0. Brings(u, t, rest)
    BY <1>6, <1>8
  <2>1. Upward(u.got, t) /\ Len(u.got) = rest
    BY <1>1, <1>8, <2>0 DEF Brings
  <2>2. q.n = r.n /\ q.got = head \o u.got
    BY <1>8
  <2>3. t = s + Len(head) /\ Len(head) + rest = r.n
    BY <1>1, <1>2 DEF t, rest
  <2>4. Upward(u.got, s + Len(head))
    BY <2>1, <2>3
  <2>. HIDE DEF head
  <2>5. Upward(head \o u.got, s) /\ Len(head \o u.got) = Len(head) + rest
    BY <1>2, <2>1, <2>4, UpwardOn
  <2>. QED BY <1>1, <2>2, <2>3, <2>5 DEF Brings
<1>. QED BY <1>4, <1>5, <1>7, <1>8

(* Neither does the look for scrambled sectors.                              *)
LEMMA ScanBrings ==
  ASSUME TruthOK, NEW v \in VobIds, NEW s \in Nat, NEW n \in Nat \ {0}, NEW r \in ReadT, Sound(r.c), Selected(r.c),
         OfVob(v, r.got), r.n <= 0 => r.got = << >>,
         r.n > 0 => DOMAIN r.got = 1 .. r.n /\ Inside(v, s, r.n) /\ r.c.at = s + r.n,
         Brings(r, s, n), NEW q \in Scan(r, v, s)
  PROVE  Brings(q, s, n)
<1>. DEFINE left == {i \in DOMAIN r.got : r.got[i].form = "scrambled"}
<1>1. CASE q = Handed(r, s)
  <2>1. q.n = r.n /\ q.got = r.got
    BY <1>1, HandedIs
  <2>. QED BY <2>1 DEF Brings
<1>2. CASE left # {} /\ \E h \in Heal(r.c, v, s + Min(left) - 1) :
             IF h.won THEN q \in Again(h.c, r, Min(left), s) ELSE q = [r EXCEPT !.c = h.c]
  <2>1. r.n > 0 /\ r.n \in Int
    BY <1>2 DEF ReadT
  <2>. DEFINE j == Min(left)
  <2>2. j \in 1 .. r.n
    <3>1. left \subseteq Nat
      BY <2>1
    <3>2. Min(left) \in left
      BY <1>2, <3>1, MinNat
    <3>. QED BY <2>1, <3>1, <3>2
  <2>. HIDE DEF left, j
  <2>3. s + j - 1 \in Extent(v) /\ s + j - 1 \in VobSectors
    <3>1. Inside(v, s + j - 1, r.n - j + 1)
      BY <2>1, <2>2, InsideLater
    <3>. QED BY <3>1, OneVob DEF Inside
  <2>4. PICK h \in Heal(r.c, v, s + j - 1) :
             IF h.won THEN q \in Again(h.c, r, j, s) ELSE q = [r EXCEPT !.c = h.c]
    BY <1>2 DEF j
  <2>5. h.c \in CssT
    BY <2>3, <2>4, HealSound DEF Sound
  <2>6. CASE h.won
    BY <2>1, <2>2, <2>4, <2>5, <2>6, AgainBrings
  <2>7. CASE ~h.won
    <3>1. q = [r EXCEPT !.c = h.c]
      BY <2>4, <2>7
    <3>2. q.n = r.n /\ q.got = r.got
      BY <3>1 DEF ReadT
    <3>. QED BY <3>2 DEF Brings
  <2>. QED BY <2>6, <2>7
<1>3. \/ q = Handed(r, s)
      \/ left # {} /\ \E h \in Heal(r.c, v, s + Min(left) - 1) :
             IF h.won THEN q \in Again(h.c, r, Min(left), s) ELSE q = [r EXCEPT !.c = h.c]
  BY DEF Scan
<1>. QED BY <1>1, <1>2, <1>3

(* One command inside a VOB,                                                *)
LEMMA VobChunkBrings ==
  ASSUME TruthOK, NEW c, Sound(c), Selected(c), Placed(c), NEW v \in VobIds, NEW s \in Nat, NEW n \in Nat \ {0},
         Inside(v, s, n), NEW q \in VobChunk(c, v, s, n)
  PROVE  Brings(q, s, n)
<1>1. PICK d \in Select(c, v) : \E p \in Place(d, s) :
        IF ~p.ok THEN q = Failed(Keyless(p.c))
        ELSE \E r \in Read(p.c, n, p.c.ok) : q \in Scan(r, v, s)
  BY DEF VobChunk
<1>0. PICK p \in Place(d, s) :
        IF ~p.ok THEN q = Failed(Keyless(p.c))
        ELSE \E r \in Read(p.c, n, p.c.ok) : q \in Scan(r, v, s)
  BY <1>1
<1>2. Sound(d) /\ Selected(d) /\ Placed(d) /\ d.tried = c.tried /\ (d.ok => d.lib \in {Zero, truth[v]})
  BY SelectSound
<1>3. d \in CssT
  BY <1>2 DEF Sound
<1>4. Moved(d, p.c) /\ (p.ok => p.c.at = s) /\ p.ok \in BOOLEAN
  BY <1>2, <1>3, PlaceMoves
<1>5. Sound(p.c) /\ Selected(p.c) /\ p.c \in CssT /\ (p.c.ok => p.c.lib \in {Zero, truth[v]})
  BY <1>2, <1>4, MovedKeeps DEF Moved
<1>6. CASE ~p.ok
  <2>1. q.n = -1
    BY <1>0, <1>6 DEF Failed
  <2>2. s \in bad /\ s \in s .. s + n - 1
    BY <1>0, <1>6, PlaceFails
  <2>. QED BY <2>1, <2>2 DEF Brings
<1>7. CASE p.ok
  <2>1. PICK r \in Read(p.c, n, p.c.ok) : q \in Scan(r, v, s)
    BY <1>0, <1>7
  <2>2. p.c.at = s /\ p.c.at \in Nat /\ Inside(v, p.c.at, n)
    BY <1>4, <1>7
  <2>3. /\ Moved(p.c, r.c) /\ r.n \in Int /\ (r.n > 0 => r.n <= n)
        /\ r.c.at = IF r.n > 0 THEN s + r.n ELSE None
    BY <1>5, <2>2, ReadMoves
  <2>4. OfVob(v, r.got) /\ (r.n > 0 => DOMAIN r.got = 1 .. r.n) /\ (r.n <= 0 => r.got = << >>)
    BY <1>5, <2>2, ReadVob
  <2>5. Sound(r.c) /\ Selected(r.c) /\ r.c \in CssT
    BY <1>5, <2>3, MovedKeeps DEF Moved
  <2>6. r.n > 0 => Inside(v, s, r.n)
    <3>1. Vobs[v].start \in Nat /\ Vobs[v].nsec \in Nat
      BY VobNat
    <3>. QED BY <2>3, <3>1 DEF Inside, VobEnd
  <2>7. r \in ReadT
    BY <2>1, <2>3, <2>4, <2>5 DEF ReadT, Read, OfVob
  <2>8. Brings(r, s, n)
    BY <1>5, <2>2, ReadBrings
  <2>. QED BY <2>1, <2>3, <2>4, <2>5, <2>6, <2>7, <2>8, ScanBrings
<1>. QED BY <1>4, <1>6, <1>7

(* one outside,                                                             *)
LEMMA OtherChunkBrings ==
  ASSUME NEW c, Sound(c), Selected(c), Placed(c), NEW s \in Nat, NEW n \in Nat \ {0}, NEW q \in OtherChunk(c, s, n)
  PROVE  Brings(q, s, n)
<1>1. PICK p \in Place(c, s) :
        IF ~p.ok THEN q = Failed(p.c) ELSE \E r \in Read(Keyless(p.c), n, FALSE) : q = Handed(r, s)
  BY DEF OtherChunk
<1>2. c \in CssT
  BY DEF Sound
<1>3. Moved(c, p.c) /\ (p.ok => p.c.at = s) /\ p.ok \in BOOLEAN /\ p.c \in CssT
  BY <1>2, PlaceMoves DEF Moved
<1>4. CASE ~p.ok
  <2>1. q.n = -1
    BY <1>1, <1>4 DEF Failed
  <2>2. s \in bad /\ s \in s .. s + n - 1
    BY <1>1, <1>4, PlaceFails
  <2>. QED BY <2>1, <2>2 DEF Brings
<1>5. CASE p.ok
  <2>. DEFINE d == Keyless(p.c)
  <2>1. PICK r \in Read(d, n, FALSE) : q = Handed(r, s)
    BY <1>1, <1>5
  <2>2. d \in CssT /\ d.at = s
    BY <1>3, <1>5, KeylessType
  <2>. HIDE DEF d
  <2>3. Brings(r, s, n)
    BY <2>2, ReadBrings
  <2>4. r = [n |-> r.n, c |-> r.c, got |-> r.got]
    BY ReadRecord
  <2>5. q.n = r.n /\ q.got = r.got
    BY <2>1, <2>4 DEF Handed
  <2>. QED BY <2>3, <2>5 DEF Brings
<1>. QED BY <1>3, <1>4, <1>5

(* Where a command for n sectors from s stops at the latest.                 *)
Reach(s, n) == IF src = "raw" THEN n ELSE Within(s, n)

(* and one whatever the source.                                             *)
LEMMA ChunkBrings ==
  ASSUME IInv, src # "none", NEW s \in Nat, NEW n \in Nat \ {0}, NEW r \in SrcChunk(s, n)
  PROVE  Reach(s, n) \in 1 .. n /\ Brings(r, s, Reach(s, n))
<1>. DEFINE k == Within(s, n)
<1>0. k \in 1 .. n /\ k \in Nat \ {0}
  BY WithinIs
<1>1. CASE src = "raw"
  BY <1>1, RawBrings DEF SrcChunk, Reach
<1>2. CASE src = "css"
  <2>1. TruthOK /\ Sound(css) /\ Selected(css) /\ Placed(css)
    BY <1>2 DEF IInv
  <2>2. CASE VobAt(s) = {}
    <3>1. r \in OtherChunk(css, s, k)
      BY <1>2, <2>2 DEF SrcChunk
    <3>. HIDE DEF k
    <3>2. Brings(r, s, k)
      BY <1>0, <2>1, <3>1, OtherChunkBrings
    <3>. QED BY <1>0, <1>2, <3>2 DEF k, Reach
  <2>3. CASE VobAt(s) # {}
    <3>. DEFINE v == Min(VobAt(s))
    <3>1. r \in VobChunk(css, v, s, k)
      BY <1>2, <2>3 DEF SrcChunk
    <3>2. v \in VobIds /\ s \in Extent(v) /\ VobAt(s) = {v}
      BY <2>3, TheVob
    <3>. HIDE DEF v
    <3>3. Vobs[v].start \in Nat /\ Vobs[v].nsec \in Nat
      BY <3>2, VobNat
    <3>4. {VobEnd(v) - s} \subseteq Nat
      BY <3>2, <3>3 DEF Extent, VobEnd
    <3>5. {VobEnd(w) - s : w \in VobAt(s)} = {VobEnd(v) - s}
      BY <3>2
    <3>6. k = Min({n} \cup {VobEnd(v) - s})
      BY <2>3, <3>5 DEF Within
    <3>7. /\ Min({n} \cup {VobEnd(v) - s}) \in Int
          /\ \A y \in {n} \cup {VobEnd(v) - s} : Min({n} \cup {VobEnd(v) - s}) <= y
      <4>1. n \in Int
        OBVIOUS
      <4>. QED BY <3>4, <4>1, MinWith
    <3>8. Inside(v, s, k)
      BY <3>2, <3>6, <3>7 DEF Inside
    <3>. HIDE DEF k
    <3>9. Brings(r, s, k)
      BY <1>0, <2>1, <3>1, <3>2, <3>8, VobChunkBrings
    <3>. QED BY <1>0, <1>2, <3>9 DEF k, Reach
  <2>. QED BY <2>2, <2>3
<1>. QED BY <1>1, <1>2 DEF IInv

-----------------------------------------------------------------------------
(* Where a window has got to.                                               *)
LEMMA Onward ==
  ASSUME IInv, Mirrored, pc # "idle"
  PROVE  /\ src # "none" /\ At \in Nat /\ Room \in Nat \ {0}
         /\ Len(win) \in Nat /\ win \in Seq(SlotT) /\ DOMAIN win = 1 .. Len(win)
         /\ req[1] \in Nat /\ req[2] \in Nat /\ Len(win) + Room = req[2]
         /\ At = Wanted(Len(win) + 1) /\ At = req[1] + Len(win)
         /\ AllFetched(Len(win))
<1>1. win \in Seq(SlotT) /\ req \in Nat \X Nat /\ src # "none"
  BY DEF IInv, Fits
<1>2. Len(win) \in Nat /\ DOMAIN win = 1 .. Len(win)
  BY <1>1, LenProperties
<1>3. req[1] \in Nat /\ req[2] \in Nat
  BY <1>1
<1>4. Len(win) < req[2] /\ AllFetched(Len(win))
  BY DEF Mirrored, Running
<1>. QED BY <1>1, <1>2, <1>3, <1>4 DEF At, Room, Wanted

(* A window that goes on: sectors that are served are the ones it lacks.      *)
LEMMA Served ==
  ASSUME IInv, Mirrored, pc # "idle", req' = req, worn' = worn, bad' = bad,
         NEW got, Serve(got), got \in Seq(SlotT), Len(got) \in 1 .. Room,
         \A i \in 1 .. Len(got) : Fetched(Len(win) + i, got[i])
  PROVE  Running' /\ Stopped' /\ pc' \in {"idle", "loop"}
<1>1. /\ Room \in Nat \ {0} /\ Len(win) \in Nat /\ win \in Seq(SlotT) /\ req[2] \in Nat /\ Len(win) + Room = req[2]
      /\ AllFetched(Len(win))
  BY Onward
<1>2. /\ win' = win \o got /\ pc' = IF Len(got) = Room THEN "idle" ELSE "loop"
  BY DEF Serve
<1>3. /\ win' \in Seq(SlotT) /\ Len(win') = Len(win) + Len(got)
      /\ \A i \in 1 .. Len(win) + Len(got) : win'[i] = IF i <= Len(win) THEN win[i] ELSE got[i - Len(win)]
  BY <1>1, <1>2, ConcatProperties
<1>4. ASSUME NEW i \in 1 .. Len(win) + Len(got) PROVE Fetched(i, win'[i])
  <2>1. CASE i <= Len(win)
    BY <1>1, <1>3, <2>1 DEF AllFetched
  <2>2. CASE ~(i <= Len(win))
    <3>. DEFINE k == i - Len(win)
    <3>1. k \in 1 .. Len(got) /\ Len(win) + k = i /\ win'[i] = got[k]
      BY <1>1, <1>3, <2>2
    <3>. HIDE DEF k
    <3>2. Fetched(Len(win) + k, got[k])
      BY <3>1
    <3>. QED BY <3>1, <3>2
  <2>. QED BY <2>1, <2>2
<1>5. AllFetched(Len(win))'
  BY <1>3, <1>4 DEF AllFetched, Fetched, Wanted
<1>6. Len(got) = Room => Len(win') = req[2]
  BY <1>1, <1>3
<1>7. Len(got) # Room => Len(win') < req[2]
  BY <1>1, <1>3
<1>. QED BY <1>2, <1>5, <1>6, <1>7 DEF Running, Stopped

(* One that gives up: nothing at all, or zeros from the first it lacks.       *)
LEMMA GivenUp ==
  ASSUME IInv, Mirrored, pc # "idle", req' = req, worn' = worn, bad' = bad, GiveUp,
         worn = 0 => EndsAt(Len(win) + 1)
  PROVE  Running' /\ Stopped' /\ pc' = "idle"
<1>1. /\ Room \in Nat \ {0} /\ Len(win) \in Nat /\ win \in Seq(SlotT) /\ req[2] \in Nat /\ Len(win) + Room = req[2]
      /\ AllFetched(Len(win))
  BY Onward
<1>2. pc' = "idle" /\ win' = IF win = << >> THEN win ELSE win \o Zeros
  BY DEF GiveUp, Zeros
<1>3. \A k : EndsAt(k)' <=> EndsAt(k)
  BY DEF EndsAt, Lost, Wanted
<1>4. CASE win = << >>
  <2>1. Len(win) = 0 /\ win' = << >>
    BY <1>2, <1>4
  <2>2. worn' = 0 => EndsAt(1)'
    BY <1>3, <2>1
  <2>. QED BY <1>2, <2>1, <2>2 DEF Running, Stopped
<1>5. CASE win # << >>
  <2>1. Len(win) # 0
    BY <1>1, <1>5, EmptySeq
  <2>0. PICK k \in 2 .. req[2] : k = Len(win) + 1
    BY <1>1, <2>1
  <2>2. Zeros \in Seq(SlotT) /\ Len(Zeros) = Room /\ \A i \in 1 .. Room : Zeros[i].form = "zero"
    <3>1. [lba |-> None, form |-> "zero"] \in SlotT
      BY DEF SlotT, Forms
    <3>. QED BY <1>1, <3>1 DEF Zeros
  <2>3. /\ Len(win') = Len(win) + Room
        /\ \A i \in 1 .. Len(win) + Room : win'[i] = IF i <= Len(win) THEN win[i] ELSE Zeros[i - Len(win)]
    <3>. HIDE DEF Zeros
    <3>. QED BY <1>1, <1>2, <1>5, <2>2, ConcatProperties
  <2>4. k - 1 = Len(win) /\ 1 .. k - 1 = 1 .. Len(win)
    BY <1>1, <2>0
  <2>5. AllFetched(k - 1)'
    <3>1. \A i \in 1 .. Len(win) : win'[i] = win[i]
      BY <1>1, <2>3
    <3>. QED BY <1>1, <2>4, <3>1 DEF AllFetched, Fetched, Wanted
  <2>6. \A i \in k .. req[2] : win'[i].form = "zero"
    <3>1. SUFFICES ASSUME NEW i \in k .. req[2] PROVE win'[i].form = "zero"
      OBVIOUS
    <3>2. i \in 1 .. Len(win) + Room /\ ~(i <= Len(win)) /\ i - Len(win) \in 1 .. Room
      BY <1>1, <2>0
    <3>. QED BY <2>2, <2>3, <3>2
  <2>7. worn' = 0 => EndsAt(k)'
    BY <1>3, <2>0
  <2>8. Len(win') = req'[2]
    BY <1>1, <2>3
  <2>9. k \in 2 .. req'[2] /\ \A i \in k .. req'[2] : win'[i].form = "zero"
    BY <2>4, <2>6
  <2>. QED BY <1>2, <2>5, <2>7, <2>8, <2>9 DEF Running, Stopped
<1>. QED BY <1>4, <1>5

(* One that looks elsewhere for its next sector.                             *)
LEMMA Waiting ==
  ASSUME Mirrored, pc # "idle", pc' # "idle", req' = req, worn' = worn, bad' = bad, win' = win
  PROVE  Running' /\ Stopped'
BY DEF Mirrored, Running, Stopped, AllFetched, Fetched, Wanted

-----------------------------------------------------------------------------
(* What is remembered.                                                      *)
LEMMA NoteType ==
  ASSUME NEW m \in MirT, NEW s \in PairSectors, NEW what \in {"twin", "dead"}
  PROVE  Note(m, s, what) \in MirT /\ Note(m, s, what) \in {m, [m EXCEPT ![s] = what]}
BY DEF Note, MirT

(* What is added to the table is true if the sector is what it says.          *)
LEMMA NoteTrue ==
  ASSUME NEW m \in MirT, Memory(m), NEW s \in PairSectors, NEW what \in {"twin", "dead"}, s \in bad,
         what = "twin" => Twin(s) \notin bad, what = "dead" => Twin(s) \in bad
  PROVE  Memory(Note(m, s, what))
<1>1. Note(m, s, what) \in {m, [m EXCEPT ![s] = what]}
  BY NoteType
<1>2. Memory([m EXCEPT ![s] = what])
  BY DEF Memory, MirT
<1>. QED BY <1>1, <1>2

(* A failure of both copies is one of each.                                  *)
LEMMA BothDeadIs ==
  ASSUME mir \in MirT, At \in PairSectors
  PROVE  BothDead \in MirT /\ (Memory(mir) /\ At \in bad /\ Twin(At) \in bad => Memory(BothDead))
<1>. DEFINE t == Twin(At)
            m == Note(mir, At, "dead")
<1>1. t \in PairSectors /\ Twin(t) = At
  BY TwinBack
<1>2. m \in MirT /\ (Memory(mir) /\ At \in bad /\ t \in bad => Memory(m))
  BY NoteType, NoteTrue
<1>3. BothDead = Note(m, t, "dead")
  BY DEF BothDead
<1>. HIDE DEF m, t
<1>4. Note(m, t, "dead") \in MirT /\ (Memory(m) /\ t \in bad /\ At \in bad => Memory(Note(m, t, "dead")))
  BY <1>1, <1>2, NoteType, NoteTrue
<1>. QED BY <1>2, <1>3, <1>4 DEF t

(* A command that spares what is remembered.                                 *)
LEMMA Spared ==
  ASSUME NEW s, NEW n, Commanded(s, n), back = {}, \A u \in Remembered : u \notin s .. s + Reach(s, n) - 1
  PROVE  back' = {}
BY DEF Commanded, Reach

(* A command for one sector.                                                *)
LEMMA OneSector ==
  ASSUME IInv, src # "none", NEW s \in Nat, NEW r \in SrcChunk(s, 1)
  PROVE  /\ Reach(s, 1) = 1
         /\ \/ /\ r.n = 1 /\ r.got \in Seq(SlotT) /\ Len(r.got) = 1 /\ s \notin bad
               /\ r.got[1].lba = s /\ r.got[1].form # "zero"
            \/ r.n = -1 /\ s \in bad
<1>1. Reach(s, 1) \in 1 .. 1 /\ Brings(r, s, Reach(s, 1))
  BY ChunkBrings
<1>2. Reach(s, 1) = 1 /\ Brings(r, s, 1)
  BY <1>1
<1>3. CASE r.n \in 1 .. 1 /\ Upward(r.got, s) /\ Len(r.got) = r.n
  BY <1>2, <1>3 DEF Upward
<1>. QED BY <1>2, <1>3 DEF Brings

-----------------------------------------------------------------------------
(* A step within a window, from what it does to the window, to what is         *)
(* remembered and to the sectors the drive was sent back to.                 *)
LEMMA InWindow ==
  ASSUME IInv, Mirrored, pc # "idle", src' = src, worn' = worn, bad' = bad, req' = req,
         mir' \in MirT, worn = 0 => Memory(mir'), worn = 0 => back' = {}, Running', Stopped',
         \/ pc' \in {"idle", "loop"}
         \/ /\ pc' \in {"twin", "again"} /\ win' = win /\ At \in PairSectors /\ mir'[At] # "dead"
            /\ worn = 0 => pc' = "twin" /\ At \in bad
  PROVE  Mirrored'
<1>1. src # "none"
  BY DEF IInv
<1>2. worn = 0 => Memory(mir)'
  BY DEF Memory
<1>3. win' = win => At' = At
  BY DEF At
<1>4. Turned'
  BY <1>3 DEF Turned
<1>5. worn' = 0 => back' = {} /\ (pc' = "twin" => At' \in bad') /\ pc' # "again"
  BY <1>3
<1>. QED BY <1>1, <1>2, <1>4, <1>5 DEF Mirrored

(* The first sector a window lacks is one that no copy gives.                *)
LEMMA LostAt ==
  ASSUME IInv, Mirrored, pc # "idle", At \in bad, At \in PairSectors => Twin(At) \in bad
  PROVE  EndsAt(Len(win) + 1)
<1>. DEFINE k == Len(win) + 1
<1>1. At = Wanted(k) /\ k \in k .. req[2]
  BY Onward
<1>2. Lost(Wanted(k))
  BY <1>1 DEF Lost
<1>. QED BY <1>1, <1>2 DEF EndsAt

(* The sector a window lacks, from its own copy or from the other.           *)
LEMMA ServedOne ==
  ASSUME IInv, Mirrored, pc # "idle", req' = req, worn' = worn, bad' = bad,
         NEW got, Serve(got), got \in Seq(SlotT), Len(got) = 1, got[1].form # "zero",
         \/ got[1].lba = At
         \/ At \in PairSectors /\ got[1].lba = Twin(At) /\ (worn = 0 => At \in bad)
  PROVE  Running' /\ Stopped' /\ pc' \in {"idle", "loop"}
<1>1. At = Wanted(Len(win) + 1) /\ Room \in Nat \ {0}
  BY Onward
<1>2. Fetched(Len(win) + 1, got[1])
  BY <1>1 DEF Fetched
<1>3. Len(got) \in 1 .. Room /\ \A i \in 1 .. Len(got) : Fetched(Len(win) + i, got[i])
  BY <1>1, <1>2
<1>. QED BY <1>3, Served

(* Before a mount nothing is remembered,                                    *)
LEMMA MirroredInit == Init => Mirrored
<1>. SUFFICES ASSUME Init PROVE Mirrored
  OBVIOUS
<1>1. mir \in MirT
  BY DEF Init, Blank, MirT
<1>. QED BY <1>1 DEF Init, Mirrored, Turned, Running, Stopped

(* nor at one;                                                              *)
LEMMA MirroredOpen == IInv /\ Mirrored /\ Open => Mirrored'
<1>. SUFFICES ASSUME IInv, Mirrored, Open PROVE Mirrored'
  OBVIOUS
<1>1. /\ src = "none" /\ src' \in {"css", "raw"} /\ mir' = Blank
      /\ worn' = worn /\ back' = back /\ pc' = pc /\ req' = req /\ win' = win
  BY DEF Open
<1>2. pc = "idle" /\ worn = 0 /\ back = {} /\ req[2] = 0
  BY <1>1 DEF IInv, Mirrored
<1>3. mir' \in MirT /\ Memory(mir)'
  BY <1>1 DEF Blank, MirT, Memory
<1>. QED BY <1>1, <1>2, <1>3 DEF Mirrored, Turned, Running, Stopped

(* what is remembered of a disc that is gone is not asked.                  *)
LEMMA MirroredClose == Mirrored /\ Close => Mirrored'
BY DEF Close, Mirrored, Turned, Running, Stopped

(* A disc that has changed is promised less.                                *)
LEMMA MirroredWear == Mirrored /\ Wear => Mirrored'
<1>. SUFFICES ASSUME Mirrored, Wear PROVE Mirrored'
  OBVIOUS
<1>1. /\ src # "none" /\ worn' = worn + 1 /\ src' = src
      /\ mir' = mir /\ pc' = pc /\ req' = req /\ win' = win
  BY DEF Wear, disc
<1>2. worn' \in Nat /\ worn' # 0
  BY <1>1 DEF Mirrored
<1>3. \A i, x : Fetched(i, x) => Fetched(i, x)'
  BY <1>1, <1>2 DEF Fetched, Wanted
<1>4. \A n : AllFetched(n) => AllFetched(n)'
  BY <1>1, <1>3 DEF AllFetched, Fetched, Wanted
<1>5. Turned'
  BY <1>1 DEF Mirrored, Turned, At
<1>6. Running'
  BY <1>1, <1>4 DEF Mirrored, Running
<1>7. Stopped'
  <2>1. SUFFICES ASSUME pc' = "idle", req'[2] > 0
        PROVE  \/ Len(win') = req'[2] /\ AllFetched(req[2])'
               \/ win' = << >>
               \/ /\ Len(win') = req'[2]
                  /\ \E k \in 2 .. req'[2] : AllFetched(k - 1)' /\ \A i \in k .. req'[2] : win'[i].form = "zero"
    BY <1>2 DEF Stopped
  <2>2. \/ Len(win) = req[2] /\ AllFetched(req[2])
        \/ win = << >>
        \/ /\ Len(win) = req[2]
           /\ \E k \in 2 .. req[2] : AllFetched(k - 1) /\ \A i \in k .. req[2] : win[i].form = "zero"
    BY <1>1, <2>1 DEF Mirrored, Stopped
  <2>. QED BY <1>1, <1>4, <2>2
<1>. QED BY <1>1, <1>2, <1>5, <1>6, <1>7 DEF Mirrored

(* A window begins empty.                                                  *)
LEMMA MirroredCall == IInv /\ Mirrored /\ Call => Mirrored'
<1>. SUFFICES ASSUME IInv, Mirrored, Call PROVE Mirrored'
  OBVIOUS
<1>1. PICK s \in Sectors, n \in Counts : req' = << s, n >>
  BY DEF Call
<1>2. /\ src # "none" /\ src' = src /\ worn' = worn /\ bad' = bad /\ mir' = mir /\ back' = back
      /\ pc' = "loop" /\ win' = << >>
  BY DEF Call, disc
<1>3. n \in Nat /\ n > 0
  BY DiscAssumption
<1>4. Running'
  BY <1>1, <1>2, <1>3 DEF Running, AllFetched
<1>5. Memory(mir) => Memory(mir)'
  BY <1>2 DEF Memory
<1>. QED BY <1>2, <1>4, <1>5 DEF Mirrored, Turned, Stopped

(* A command for the rest of the window, short of what is remembered.        *)
LEMMA MirroredWindow == IInv /\ Mirrored /\ Window => Mirrored'
<1>. SUFFICES ASSUME IInv, Mirrored, Window PROVE Mirrored'
  OBVIOUS
<1>. DEFINE n == Clamped(At, Room)
<1>1. /\ pc = "loop" /\ ~Known(At) /\ Commanded(At, n)
      /\ src' = src /\ worn' = worn /\ bad' = bad /\ req' = req /\ mir' = mir
  BY DEF Window, disc
<1>2. PICK r \in SrcChunk(At, n) :
        \/ r.n > 0 /\ Serve(r.got)
        \/ r.n < 0 /\ Overlaps(At, n) /\ pc' = pc /\ win' = win
        \/ r.n < 0 /\ ~Overlaps(At, n) /\ GiveUp
  BY DEF Window
<1>3. /\ src # "none" /\ At \in Nat /\ Room \in Nat \ {0} /\ Len(win) \in Nat
      /\ At = req[1] + Len(win) /\ At = Wanted(Len(win) + 1) /\ req[1] \in Nat /\ req[2] \in Nat
      /\ Len(win) + Room = req[2]
  BY <1>1, Onward
<1>4. n \in 1 .. Room /\ \A u \in Remembered : u > At => u \notin At .. At + n - 1
  BY <1>3, ClampedIs
<1>. HIDE DEF n
<1>5. Reach(At, n) \in 1 .. n /\ Brings(r, At, Reach(At, n))
  BY <1>3, <1>4, ChunkBrings
<1>6. worn = 0 => back' = {}
  <2>1. ASSUME NEW u \in Remembered PROVE u \notin At .. At + Reach(At, n) - 1
    <3>1. u # At /\ u \in Nat
      BY <1>1, TwinBack DEF Remembered
    <3>2. u > At => u \notin At .. At + n - 1
      BY <1>4
    <3>. DEFINE a == At
                k == Reach(At, n)
    <3>3. u # a /\ u \in Nat /\ a \in Nat /\ n \in Nat /\ k \in 1 .. n /\ (u > a => u \notin a .. a + n - 1)
      BY <1>3, <1>4, <1>5, <3>1, <3>2
    <3>. HIDE DEF a, k
    <3>4. u \notin a .. a + k - 1
      BY <3>3
    <3>. QED BY <3>4 DEF a, k
  <2>. QED BY <1>1, <2>1, Spared DEF Mirrored
<1>7. CASE r.n > 0 /\ Serve(r.got)
  <2>1. r.got \in Seq(SlotT) /\ Len(r.got) \in 1 .. Room /\ Upward(r.got, At)
    BY <1>3, <1>4, <1>5, <1>7 DEF Brings, Upward
  <2>2. ASSUME NEW i \in 1 .. Len(r.got) PROVE Fetched(Len(win) + i, r.got[i])
    <3>1. r.got[i].lba = At + i - 1 /\ r.got[i].form # "zero"
      BY <2>1 DEF Upward
    <3>2. Wanted(Len(win) + i) = At + i - 1
      BY <1>3, <2>1 DEF Wanted
    <3>. QED BY <3>1, <3>2 DEF Fetched
  <2>3. Running' /\ Stopped' /\ pc' \in {"idle", "loop"}
    BY <1>1, <1>7, <2>1, <2>2, Served
  <2>. QED BY <1>1, <1>6, <2>3, InWindow DEF Mirrored, IInv
<1>8. CASE pc' = pc /\ win' = win
  <2>1. Running' /\ Stopped'
    BY <1>1, <1>8, Waiting
  <2>. QED BY <1>1, <1>6, <1>8, <2>1, InWindow DEF Mirrored, IInv
<1>9. CASE r.n < 0 /\ ~Overlaps(At, n) /\ GiveUp
  <2>1. PICK u \in At .. At + Reach(At, n) - 1 : u \in bad
    BY <1>5, <1>9 DEF Brings
  <2>2. \A x \in At .. At + n - 1 : x \notin PairSectors
    BY <1>9 DEF Overlaps
  <2>3. u \in Nat /\ u \in At .. At + n - 1 /\ At \in At .. At + n - 1
    BY <1>3, <1>4, <1>5
  <2>4. Lost(u) /\ At \notin PairSectors
    BY <2>1, <2>2, <2>3 DEF Lost
  <2>. DEFINE j == u - req[1] + 1
  <2>5. j \in Len(win) + 1 .. req[2] /\ Wanted(j) = u
    <3>. DEFINE l == Len(win)
                a == req[1]
                b == req[2]
                m == Room
    <3>1. /\ l \in Nat /\ a \in Nat /\ b \in Nat /\ m \in Nat /\ l + m = b /\ n \in 1 .. m
          /\ u \in Nat /\ u \in a + l .. a + l + n - 1
      BY <1>3, <1>4, <2>3
    <3>. HIDE DEF l, a, b, m
    <3>2. u - a + 1 \in l + 1 .. b /\ a + (u - a + 1) - 1 = u
      BY <3>1
    <3>. QED BY <3>2 DEF l, a, b, Wanted
  <2>. HIDE DEF j
  <2>6. EndsAt(Len(win) + 1)
    BY <1>3, <2>4, <2>5 DEF EndsAt
  <2>7. Running' /\ Stopped' /\ pc' = "idle"
    BY <1>1, <1>9, <2>6, GivenUp
  <2>. QED BY <1>1, <1>6, <2>7, InWindow DEF Mirrored, IInv
<1>. QED BY <1>2, <1>7, <1>8, <1>9

(* The walk outside a pair.                                                *)
LEMMA MirroredSingle == IInv /\ Mirrored /\ Single => Mirrored'
<1>. SUFFICES ASSUME IInv, Mirrored, Single PROVE Mirrored'
  OBVIOUS
<1>1. /\ pc = "loop" /\ At \notin PairSectors /\ Commanded(At, 1)
      /\ src' = src /\ worn' = worn /\ bad' = bad /\ req' = req /\ mir' = mir
  BY DEF Single, disc
<1>2. PICK r \in SrcChunk(At, 1) : IF r.n > 0 THEN Serve(r.got) ELSE GiveUp
  BY DEF Single
<1>3. src # "none" /\ At \in Nat
  BY <1>1, Onward
<1>4. /\ Reach(At, 1) = 1
      /\ \/ /\ r.n = 1 /\ r.got \in Seq(SlotT) /\ Len(r.got) = 1
            /\ r.got[1].lba = At /\ r.got[1].form # "zero"
         \/ r.n = -1 /\ At \in bad
  BY <1>3, OneSector
<1>5. worn = 0 => back' = {}
  <2>1. \A u \in Remembered : u \notin At .. At + Reach(At, 1) - 1
    BY <1>1, <1>3, <1>4, TwinBack DEF Remembered
  <2>. QED BY <1>1, <2>1, Spared DEF Mirrored
<1>6. Running' /\ Stopped' /\ pc' \in {"idle", "loop"}
  <2>1. CASE r.n = 1
    BY <1>1, <1>2, <1>4, <2>1, ServedOne
  <2>2. CASE r.n = -1
    <3>1. EndsAt(Len(win) + 1)
      BY <1>1, <1>4, <2>2, LostAt
    <3>. QED BY <1>1, <1>2, <2>2, <3>1, GivenUp
  <2>. QED BY <1>4, <2>1, <2>2
<1>. QED BY <1>1, <1>3, <1>5, <1>6, InWindow DEF Mirrored

(* A sector known to be lost on both sides.                                 *)
LEMMA MirroredDead == IInv /\ Mirrored /\ Dead => Mirrored'
<1>. SUFFICES ASSUME IInv, Mirrored, Dead PROVE Mirrored'
  OBVIOUS
<1>1. /\ pc = "loop" /\ At \in PairSectors /\ mir[At] = "dead" /\ GiveUp
      /\ src' = src /\ worn' = worn /\ bad' = bad /\ req' = req /\ mir' = mir /\ back' = back
  BY DEF Dead, disc
<1>2. src # "none"
  BY <1>1 DEF IInv
<1>3. worn = 0 => EndsAt(Len(win) + 1)
  BY <1>1, <1>2, LostAt DEF Mirrored, Memory
<1>4. Running' /\ Stopped' /\ pc' = "idle"
  BY <1>1, <1>3, GivenUp
<1>. QED BY <1>1, <1>2, <1>4, InWindow DEF Mirrored

(* A sector's own copy.                                                     *)
LEMMA MirroredOwn == IInv /\ Mirrored /\ Own => Mirrored'
<1>. SUFFICES ASSUME IInv, Mirrored, Own PROVE Mirrored'
  OBVIOUS
<1>1. /\ pc = "loop" /\ At \in PairSectors /\ mir[At] = "unknown" /\ Commanded(At, 1)
      /\ src' = src /\ worn' = worn /\ bad' = bad /\ req' = req /\ mir' = mir
  BY DEF Own, disc
<1>2. PICK r \in SrcChunk(At, 1) : IF r.n = 1 THEN Serve(r.got) ELSE pc' = "twin" /\ win' = win
  BY DEF Own
<1>3. src # "none" /\ At \in Nat
  BY <1>1, Onward
<1>4. /\ Reach(At, 1) = 1
      /\ \/ /\ r.n = 1 /\ r.got \in Seq(SlotT) /\ Len(r.got) = 1
            /\ r.got[1].lba = At /\ r.got[1].form # "zero"
         \/ r.n = -1 /\ At \in bad
  BY <1>3, OneSector
<1>5. worn = 0 => back' = {}
  <2>1. \A u \in Remembered : u \notin At .. At + Reach(At, 1) - 1
    BY <1>1, <1>3, <1>4, TwinBack DEF Remembered, Known
  <2>. QED BY <1>1, <2>1, Spared DEF Mirrored
<1>6. CASE r.n = 1
  <2>1. Running' /\ Stopped' /\ pc' \in {"idle", "loop"}
    BY <1>1, <1>2, <1>4, <1>6, ServedOne
  <2>. QED BY <1>1, <1>3, <1>5, <2>1, InWindow DEF Mirrored
<1>7. CASE r.n = -1
  <2>1. pc' = "twin" /\ win' = win /\ At \in bad
    BY <1>2, <1>4, <1>7
  <2>2. Running' /\ Stopped'
    BY <1>1, <2>1, Waiting
  <2>. QED BY <1>1, <1>3, <1>5, <2>1, <2>2, InWindow DEF Mirrored
<1>. QED BY <1>4, <1>6, <1>7

(* One known to be bad is not tried.                                         *)
LEMMA MirroredSkip == IInv /\ Mirrored /\ Skip => Mirrored'
<1>. SUFFICES ASSUME IInv, Mirrored, Skip PROVE Mirrored'
  OBVIOUS
<1>1. /\ pc = "loop" /\ At \in PairSectors /\ mir[At] = "twin" /\ pc' = "twin" /\ win' = win
      /\ src' = src /\ worn' = worn /\ bad' = bad /\ req' = req /\ mir' = mir /\ back' = back
  BY DEF Skip, disc
<1>2. src # "none"
  BY <1>1 DEF IInv
<1>3. worn = 0 => At \in bad
  BY <1>1, <1>2 DEF Mirrored, Memory
<1>4. Running' /\ Stopped'
  BY <1>1, Waiting
<1>. QED BY <1>1, <1>2, <1>3, <1>4, InWindow DEF Mirrored

(* A twin known to be lost means both are.                                  *)
LEMMA MirroredTwinDead == IInv /\ Mirrored /\ TwinDead => Mirrored'
<1>. SUFFICES ASSUME IInv, Mirrored, TwinDead PROVE Mirrored'
  OBVIOUS
<1>1. /\ pc = "twin" /\ mir[Twin(At)] = "dead" /\ GiveUp
      /\ mir' = IF Known(At) THEN mir ELSE Note(mir, At, "dead")
      /\ src' = src /\ worn' = worn /\ bad' = bad /\ req' = req /\ back' = back
  BY DEF TwinDead, disc
<1>2. src # "none" /\ At \in PairSectors /\ mir \in MirT
  BY <1>1 DEF IInv, Mirrored, Turned
<1>3. worn = 0 => At \in bad /\ Twin(At) \in bad
  BY <1>1, <1>2, TwinBack DEF Mirrored, Memory
<1>4. mir' \in MirT
  BY <1>1, <1>2, NoteType
<1>5. worn = 0 => Memory(mir')
  BY <1>1, <1>2, <1>3, NoteTrue DEF Mirrored
<1>6. Running' /\ Stopped' /\ pc' = "idle"
  BY <1>1, <1>3, LostAt, GivenUp
<1>. QED BY <1>1, <1>4, <1>5, <1>6, InWindow DEF Mirrored

(* The other copy: it serves and is remembered, or both are lost.            *)
LEMMA MirroredFromTwin == IInv /\ Mirrored /\ FromTwin => Mirrored'
<1>. SUFFICES ASSUME IInv, Mirrored, FromTwin PROVE Mirrored'
  OBVIOUS
<1>. DEFINE t == Twin(At)
<1>1. /\ pc = "twin" /\ mir[t] # "dead" /\ Commanded(t, 1)
      /\ src' = src /\ worn' = worn /\ bad' = bad /\ req' = req
  BY DEF FromTwin, disc
<1>2. PICK r \in SrcChunk(t, 1) :
        \/ r.n = 1 /\ Serve(r.got) /\ mir' = IF Known(At) THEN mir ELSE Note(mir, At, "twin")
        \/ r.n < 0 /\ Known(At) /\ pc' = "again" /\ win' = win /\ mir' = mir
        \/ r.n < 0 /\ ~Known(At) /\ GiveUp /\ mir' = BothDead
  BY DEF FromTwin
<1>3. src # "none" /\ At \in PairSectors /\ mir \in MirT /\ mir[At] # "dead" /\ (worn = 0 => At \in bad /\ Memory(mir))
  BY <1>1 DEF IInv, Mirrored, Turned
<1>4. t \in PairSectors /\ t \in Nat /\ Twin(t) = At
  BY <1>3, TwinBack
<1>. HIDE DEF t
<1>5. /\ Reach(t, 1) = 1
      /\ \/ /\ r.n = 1 /\ r.got \in Seq(SlotT) /\ Len(r.got) = 1 /\ t \notin bad
            /\ r.got[1].lba = t /\ r.got[1].form # "zero"
         \/ r.n = -1 /\ t \in bad
  BY <1>3, <1>4, OneSector
<1>6. worn = 0 => back' = {}
  <2>1. SUFFICES ASSUME worn = 0 PROVE back' = {}
    OBVIOUS
  <2>2. mir[t] = "unknown"
    BY <1>1, <1>3, <1>4, <2>1 DEF Memory, MirT
  <2>3. \A u \in Remembered : u \notin t .. t + Reach(t, 1) - 1
    BY <1>4, <1>5, <2>2, TwinBack DEF Remembered, Known
  <2>. QED BY <1>1, <2>1, <2>3, Spared DEF Mirrored
<1>7. CASE r.n = 1 /\ Serve(r.got) /\ mir' = IF Known(At) THEN mir ELSE Note(mir, At, "twin")
  <2>1. Running' /\ Stopped' /\ pc' \in {"idle", "loop"}
    BY <1>1, <1>3, <1>5, <1>7, ServedOne DEF t
  <2>2. mir' \in MirT
    BY <1>3, <1>7, NoteType
  <2>3. worn = 0 => Memory(mir')
    BY <1>3, <1>5, <1>7, NoteTrue DEF t
  <2>. QED BY <1>1, <1>6, <2>1, <2>2, <2>3, InWindow
<1>8. CASE r.n < 0 /\ Known(At) /\ pc' = "again" /\ win' = win /\ mir' = mir
  <2>1. mir[At] = "twin"
    BY <1>3, <1>8 DEF Known, MirT
  <2>2. worn # 0
    BY <1>3, <1>5, <1>8, <2>1 DEF Memory, t
  <2>3. Running' /\ Stopped'
    BY <1>1, <1>8, Waiting
  <2>. QED BY <1>1, <1>3, <1>6, <1>8, <2>2, <2>3, InWindow
<1>9. CASE r.n < 0 /\ ~Known(At) /\ GiveUp /\ mir' = BothDead
  <2>1. t \in bad
    BY <1>5, <1>9
  <2>2. mir' \in MirT /\ (worn = 0 => Memory(mir'))
    BY <1>3, <1>9, <2>1, BothDeadIs DEF t
  <2>3. Running' /\ Stopped' /\ pc' = "idle"
    BY <1>1, <1>3, <1>9, <2>1, LostAt, GivenUp DEF t
  <2>. QED BY <1>1, <1>6, <2>2, <2>3, InWindow
<1>. QED BY <1>2, <1>7, <1>8, <1>9

(* The sector's own copy after all, on a disc that has changed.              *)
LEMMA MirroredAfterAll == IInv /\ Mirrored /\ AfterAll => Mirrored'
<1>. SUFFICES ASSUME IInv, Mirrored, AfterAll PROVE Mirrored'
  OBVIOUS
<1>1. /\ pc = "again" /\ src' = src /\ worn' = worn /\ bad' = bad /\ req' = req
  BY DEF AfterAll, disc
<1>2. PICK r \in SrcChunk(At, 1) :
        IF r.n = 1 THEN Serve(r.got) /\ mir' = mir ELSE GiveUp /\ mir' = BothDead
  BY DEF AfterAll
<1>3. src # "none" /\ At \in PairSectors /\ mir \in MirT /\ At \in Nat /\ worn # 0
  BY <1>1, Onward DEF Mirrored, Turned
<1>4. \/ /\ r.n = 1 /\ r.got \in Seq(SlotT) /\ Len(r.got) = 1
         /\ r.got[1].lba = At /\ r.got[1].form # "zero"
      \/ r.n = -1 /\ At \in bad
  BY <1>3, OneSector
<1>5. mir' \in MirT
  BY <1>2, <1>3, BothDeadIs
<1>6. Running' /\ Stopped' /\ pc' \in {"idle", "loop"}
  <2>1. CASE r.n = 1
    BY <1>1, <1>2, <1>4, <2>1, ServedOne
  <2>2. CASE r.n = -1
    BY <1>1, <1>2, <1>3, <2>2, GivenUp
  <2>. QED BY <1>4, <2>1, <2>2
<1>. QED BY <1>1, <1>3, <1>5, <1>6, InWindow

(* What is remembered stays true, and every window is what could be had, in    *)
(* every behaviour.                                                         *)
LEMMA MirrorAlways == Spec => []Mirrored
<1>1. IInv /\ Mirrored /\ [Next]_vars => Mirrored'
  <2>. SUFFICES ASSUME IInv, Mirrored, [Next]_vars PROVE Mirrored'
    OBVIOUS
  <2>1. CASE UNCHANGED vars
    <3>1. /\ src' = src /\ worn' = worn /\ bad' = bad /\ mir' = mir /\ back' = back
          /\ pc' = pc /\ req' = req /\ win' = win
      BY <2>1 DEF vars, disc
    <3>. QED BY <3>1 DEF Mirrored, Memory, Turned, Running, Stopped, AllFetched, Fetched, EndsAt, Lost, Wanted, At
  <2>. QED BY <2>1, MirroredOpen, MirroredClose, MirroredWear, MirroredCall, MirroredWindow, MirroredSingle,
              MirroredDead, MirroredOwn, MirroredSkip, MirroredTwinDead, MirroredFromTwin, MirroredAfterAll DEF Next
<1>. QED BY <1>1, MirroredInit, Inductive, PTL DEF Spec

(* What css_src_read() answers is a failure or the whole window, each sector   *)
(* at its place, and zeros only behind the last that could be had.           *)
THEOREM WindowsServed == Spec => []WindowServed
<1>1. IInv /\ Mirrored => WindowServed
  <2>. SUFFICES ASSUME IInv, Mirrored, Returned, win # << >> PROVE WindowServed
    BY DEF WindowServed
  <2>1. pc = "idle" /\ req[2] > 0 /\ req[2] \in Nat
    BY DEF Returned, IInv
  <2>2. CASE Len(win) = req[2] /\ AllFetched(req[2])
    <3>1. \A i \in 1 .. req[2] : Fetched(i, win[i]) /\ ~Unserved(i)
      BY <2>2 DEF AllFetched, Fetched, Unserved
    <3>. QED BY <2>1, <2>2, <3>1 DEF WindowServed, Fetched
  <2>3. ASSUME Len(win) = req[2], NEW k \in 2 .. req[2], AllFetched(k - 1),
               \A i \in k .. req[2] : win[i].form = "zero"
        PROVE  WindowServed
    <3>1. \A i \in 1 .. k - 1 : Fetched(i, win[i]) /\ ~Unserved(i)
      BY <2>1, <2>3 DEF AllFetched, Fetched, Unserved
    <3>2. \A i \in k .. req[2] : Unserved(i)
      BY <2>1, <2>3 DEF Unserved
    <3>3. ~Unserved(1)
      BY <3>1
    <3>4. ASSUME NEW i \in 1 .. req[2]
          PROVE  \/ Unserved(i) /\ \A j \in i .. req[2] : Unserved(j)
                 \/ Fetched(i, win[i])
      <4>1. CASE i \in 1 .. k - 1
        BY <3>1, <4>1
      <4>2. CASE i \in k .. req[2]
        BY <3>2, <4>2
      <4>. QED BY <2>1, <4>1, <4>2
    <3>. QED BY <2>3, <3>3, <3>4 DEF WindowServed, Fetched
  <2>. QED BY <2>1, <2>2, <2>3 DEF Mirrored, Stopped
<1>. QED BY <1>1, Inductive, MirrorAlways, PTL

(* On a disc that does not change, a window ends early only for what no copy   *)
(* of a sector gives.                                                       *)
THEOREM MirrorsServe == Spec => []MirrorServes
<1>1. IInv /\ Mirrored => MirrorServes
  <2>. SUFFICES ASSUME IInv, Mirrored, Returned, worn = 0, NEW i \in 1 .. req[2],
                       Unserved(i), i > 1 => ~Unserved(i - 1)
                PROVE  EndsAt(i)
    BY DEF MirrorServes, EndsAt, Lost
  <2>1. pc = "idle" /\ req[2] > 0 /\ req[2] \in Nat
    BY DEF Returned, IInv
  <2>2. CASE Len(win) = req[2] /\ AllFetched(req[2])
    BY <2>2 DEF AllFetched, Fetched, Unserved
  <2>3. CASE win = << >> /\ EndsAt(1)
    <3>1. Len(win) = 0
      BY <2>3
    <3>2. i > 1 => Unserved(i - 1)
      BY <2>1, <3>1 DEF Unserved
    <3>3. i = 1
      BY <2>1, <3>2
    <3>. QED BY <2>3, <3>3
  <2>4. ASSUME Len(win) = req[2], NEW k \in 2 .. req[2], AllFetched(k - 1), EndsAt(k),
               \A j \in k .. req[2] : win[j].form = "zero"
        PROVE  EndsAt(i)
    <3>1. \A j \in 1 .. k - 1 : ~Unserved(j)
      BY <2>1, <2>4 DEF AllFetched, Fetched, Unserved
    <3>2. \A j \in k .. req[2] : Unserved(j)
      BY <2>1, <2>4 DEF Unserved
    <3>3. ~(i < k)
      BY <2>1, <3>1
    <3>4. ~(i > k)
      BY <2>1, <3>2
    <3>5. i = k
      BY <2>1, <3>3, <3>4
    <3>. QED BY <2>4, <3>5
  <2>. QED BY <2>1, <2>2, <2>3, <2>4 DEF Mirrored, Stopped
<1>. QED BY <1>1, Inductive, MirrorAlways, PTL

(* "so a window never sends the drive back to it".                           *)
THEOREM NeverSentBack == Spec => []NeverBack
<1>1. Mirrored => NeverBack
  BY DEF Mirrored, NeverBack
<1>. QED BY <1>1, MirrorAlways, PTL
=============================================================================
