----------------------------- MODULE MainProofs -----------------------------
(***************************************************************************)
(* The two parts that live in Main: the script that patches Main's sources   *)
(* (Integration), and the optical drive's hold on slot 0 in what it builds   *)
(* (PhysDisc).  They share no state; the proofs about them follow one         *)
(* another.                                                                 *)
(***************************************************************************)
EXTENDS PhysDisc, Integration, WellFoundedInduction, TLAPS

(***************************************************************************)
(* Integration, for any number of starts, kills and kills within a write.    *)
(*                                                                         *)
(* Text first: a search finds a line, an edit puts a block in the place of    *)
(* one line, and by what the script is made like (ScriptAssumption) that      *)
(* undoes no other edit and keeps the text whole.                            *)
(***************************************************************************)

(* A search finds a place, if there is one.                                  *)
LEMMA SmallestPlace ==
  ASSUME NEW S \in SUBSET Nat, S # {}
  PROVE  Min(S) \in S
<1>1. PICK m \in S : \A y \in S : ~ (<< y, m >> \in OpToRel(<, Nat))
  BY WFMin, NatLessThanWellFounded, Zenon
<1>2. \A y \in S : ~(y < m)
  BY <1>1, Zenon DEF OpToRel
<1>3. \A y \in S : m =< y
  BY <1>2
<1> QED BY <1>3 DEF Min

LEMMA FindsIt ==
  ASSUME NEW X, NEW text \in Seq(X), NEW p, Carries(text, p)
  PROVE  Find(text, p) \in 1 .. Len(text) /\ p \in text[Find(text, p)]
<1> DEFINE I == {i \in 1 .. Len(text) : p \in text[i]}
<1>1. I # {} /\ I \in SUBSET Nat
  BY DEF Carries
<1>2. Min(I) \in I
  BY <1>1, SmallestPlace
<1>3. Find(text, p) = Min(I)
  BY <1>1 DEF Find, SelectInSeq
<1> QED BY <1>2, <1>3

LEMMA FindsNothing ==
  ASSUME NEW X, NEW text \in Seq(X), NEW p, ~Carries(text, p)
  PROVE  Find(text, p) = 0
<1> DEFINE I == {i \in 1 .. Len(text) : p \in text[i]}
<1>1. I = {}
  BY DEF Carries
<1> QED BY <1>1 DEF Find, SelectInSeq

(* u is t with the lines b in the place of its line a.                       *)
Replaced(t, a, b, u) ==
  /\ u \in Seq(Range(t) \union Range(b)) /\ Len(u) = Len(t) + Len(b) - 1
  /\ \A n \in 1 .. a - 1 : u[n] = t[n]
  /\ \A n \in 1 .. Len(b) : u[a + n - 1] = b[n]
  /\ \A n \in a + 1 .. Len(t) : u[n + Len(b) - 1] = t[n]

(* A sequence is one over its own members, and these are in any set it is   *)
(* over.                                                                    *)
LEMMA OfRange ==
  ASSUME NEW X, NEW s \in Seq(X)
  PROVE  s \in Seq(Range(s))
  BY DEF Range

LEMMA RangeIn ==
  ASSUME NEW X, NEW s \in Seq(X)
  PROVE  Range(s) \subseteq X
  BY DEF Range

(* z is p and then q.                                                        *)
Joins(p, q, z) ==
  /\ Len(z) = Len(p) + Len(q)
  /\ \A n \in 1 .. Len(p) : z[n] = p[n]
  /\ \A n \in 1 .. Len(q) : z[Len(p) + n] = q[n]

(* A concatenation.                                                         *)
LEMMA Joined ==
  ASSUME NEW Z, NEW p \in Seq(Z), NEW q \in Seq(Z)
  PROVE  p \o q \in Seq(Z) /\ Joins(p, q, p \o q)
  BY DEF Joins

(* The parts before and behind a place.                                     *)
LEMMA Pieces ==
  ASSUME NEW Z, NEW t \in Seq(Z), NEW i \in 0 .. Len(t), NEW j \in 1 .. Len(t) + 1
  PROVE  /\ SubSeq(t, 1, i) \in Seq(Z) /\ Len(SubSeq(t, 1, i)) = i
         /\ \A n \in 1 .. i : SubSeq(t, 1, i)[n] = t[n]
         /\ SubSeq(t, j, Len(t)) \in Seq(Z) /\ Len(SubSeq(t, j, Len(t))) = Len(t) - j + 1
         /\ \A n \in 1 .. Len(t) - j + 1 : SubSeq(t, j, Len(t))[n] = t[j + n - 1]
  OBVIOUS

Laid(t, i, put, j, u) ==
  /\ Len(u) = i + Len(put) + (Len(t) - j + 1)
  /\ \A n \in 1 .. i : u[n] = t[n]
  /\ \A n \in 1 .. Len(put) : u[i + n] = put[n]
  /\ \A n \in j .. Len(t) : u[i + Len(put) + (n - j + 1)] = t[n]

(* What the slices of the script's helpers do.                              *)
LEMMA Spliced ==
  ASSUME NEW Z, NEW t \in Seq(Z), NEW put \in Seq(Z), NEW i \in 0 .. Len(t), NEW j \in 1 .. Len(t) + 1
  PROVE  Splice(t, i, put, j) \in Seq(Z) /\ Laid(t, i, put, j, Splice(t, i, put, j))
<1> DEFINE u == Splice(t, i, put, j)
           p == SubSeq(t, 1, i)
           r == SubSeq(t, j, Len(t))
           v == p \o put
<1>1. /\ p \in Seq(Z) /\ Len(p) = i /\ \A n \in 1 .. i : p[n] = t[n]
      /\ r \in Seq(Z) /\ Len(r) = Len(t) - j + 1 /\ \A n \in 1 .. Len(t) - j + 1 : r[n] = t[j + n - 1]
  BY Pieces
<1>2. u = v \o r
  BY DEF Splice
<1>a. Len(put) \in Nat /\ Len(t) \in Nat
  OBVIOUS
<1> HIDE DEF p, r, u
<1>3. /\ v \in Seq(Z) /\ Len(v) = i + Len(put)
      /\ \A n \in 1 .. i : v[n] = p[n]
      /\ \A n \in 1 .. Len(put) : v[i + n] = put[n]
  <2>1. /\ v \in Seq(Z) /\ Len(v) = Len(p) + Len(put)
        /\ \A n \in 1 .. Len(p) : v[n] = p[n]
        /\ \A n \in 1 .. Len(put) : v[Len(p) + n] = put[n]
    <3>1. v \in Seq(Z) /\ Joins(p, put, v)
      BY <1>1, Joined, Zenon
    <3> QED BY <3>1 DEF Joins
  <2> QED BY <1>1, <2>1
<1> HIDE DEF v
<1>4. /\ u \in Seq(Z) /\ Len(u) = Len(v) + Len(r)
      /\ \A n \in 1 .. Len(v) : u[n] = v[n]
      /\ \A n \in 1 .. Len(r) : u[Len(v) + n] = r[n]
  <2>1. u \in Seq(Z) /\ Joins(v, r, u)
    BY <1>1, <1>2, <1>3, Joined, Zenon
  <2> QED BY <2>1 DEF Joins
<1>5. \A n \in 1 .. i : u[n] = t[n]
  BY <1>a, <1>1, <1>3, <1>4
<1>6. \A n \in 1 .. Len(put) : u[i + n] = put[n]
  <2> TAKE n \in 1 .. Len(put)
  <2>1. i + n \in 1 .. Len(v)
    BY <1>a, <1>3
  <2> QED BY <1>3, <1>4, <2>1
<1>7. \A n \in j .. Len(t) : u[i + Len(put) + (n - j + 1)] = t[n]
  <2> TAKE n \in j .. Len(t)
  <2>1. n - j + 1 \in 1 .. Len(r) /\ j + (n - j + 1) - 1 = n /\ n - j + 1 \in 1 .. Len(t) - j + 1
    BY <1>a, <1>1
  <2>2. u[Len(v) + (n - j + 1)] = r[n - j + 1] /\ r[n - j + 1] = t[n]
    BY <1>1, <1>4, <2>1
  <2> QED BY <1>3, <2>2
<1>8. u \in Seq(Z) /\ Laid(t, i, put, j, u)
  BY <1>1, <1>3, <1>4, <1>5, <1>6, <1>7 DEF Laid
<1> QED BY <1>8 DEF u

(* The members of a sequence.                                               *)
LEMMA InRange ==
  ASSUME NEW X, NEW s \in Seq(X)
  PROVE  /\ \A n \in 1 .. Len(s) : s[n] \in Range(s)
         /\ \A x \in Range(s) : \E n \in 1 .. Len(s) : s[n] = x
  BY DEF Range

(* The members of a block with its line first, or last.                     *)
LEMMA RangeAfter ==
  ASSUME NEW X, NEW x \in X, NEW s \in Seq(X)
  PROVE  Range(<< x >> \o s) = {x} \union Range(s) /\ Len(<< x >> \o s) = Len(s) + 1
<1> DEFINE b == << x >> \o s
<1>1. << x >> \in Seq(X) /\ Len(<< x >>) = 1 /\ << x >>[1] = x /\ Len(s) \in Nat
  OBVIOUS
<1>2. b \in Seq(X) /\ Len(b) = Len(s) + 1 /\ b[1] = x /\ \A n \in 1 .. Len(s) : b[1 + n] = s[n]
  BY <1>1, Joined DEF Joins
<1> HIDE DEF b
<1>3. ASSUME NEW y \in Range(b) PROVE y = x \/ y \in Range(s)
  <2>1. PICK n \in 1 .. Len(b) : b[n] = y
    BY <1>2, InRange
  <2>2. CASE n = 1
    BY <1>2, <2>1, <2>2
  <2>3. CASE n # 1
    <3>1. n - 1 \in 1 .. Len(s) /\ 1 + (n - 1) = n
      BY <1>1, <1>2, <2>3
    <3>2. b[n] = s[n - 1]
      BY <1>2, <3>1
    <3> QED BY <2>1, <3>1, <3>2, InRange
  <2> QED BY <2>2, <2>3
<1>4. x \in Range(b)
  <2>1. 1 \in 1 .. Len(b)
    BY <1>1, <1>2
  <2> QED BY <1>2, <2>1, InRange
<1>5. ASSUME NEW y \in Range(s) PROVE y \in Range(b)
  <2>1. PICK n \in 1 .. Len(s) : s[n] = y
    BY InRange
  <2>2. 1 + n \in 1 .. Len(b) /\ b[1 + n] = y
    BY <1>1, <1>2, <2>1
  <2> QED BY <1>2, <2>2, InRange
<1>6. Range(b) = {x} \union Range(s)
  BY <1>3, <1>4, <1>5
<1> QED BY <1>2, <1>6 DEF b

LEMMA RangeBefore ==
  ASSUME NEW X, NEW x \in X, NEW s \in Seq(X)
  PROVE  Range(s \o << x >>) = {x} \union Range(s) /\ Len(s \o << x >>) = Len(s) + 1
<1> DEFINE b == s \o << x >>
<1>1. << x >> \in Seq(X) /\ Len(<< x >>) = 1 /\ << x >>[1] = x /\ Len(s) \in Nat
  OBVIOUS
<1>2. b \in Seq(X) /\ Len(b) = Len(s) + 1 /\ b[Len(s) + 1] = x /\ \A n \in 1 .. Len(s) : b[n] = s[n]
  BY <1>1, Joined DEF Joins
<1> HIDE DEF b
<1>3. ASSUME NEW y \in Range(b) PROVE y = x \/ y \in Range(s)
  <2>1. PICK n \in 1 .. Len(b) : b[n] = y
    BY <1>2, InRange
  <2>2. CASE n = Len(s) + 1
    BY <1>2, <2>1, <2>2
  <2>3. CASE n # Len(s) + 1
    <3>1. n \in 1 .. Len(s)
      BY <1>1, <1>2, <2>3
    <3> QED BY <1>2, <2>1, <3>1, InRange
  <2> QED BY <2>2, <2>3
<1>4. x \in Range(b)
  <2>1. Len(s) + 1 \in 1 .. Len(b)
    BY <1>1, <1>2
  <2> QED BY <1>2, <2>1, InRange
<1>5. ASSUME NEW y \in Range(s) PROVE y \in Range(b)
  <2>1. PICK n \in 1 .. Len(s) : s[n] = y
    BY InRange
  <2>2. n \in 1 .. Len(b) /\ b[n] = y
    BY <1>1, <1>2, <2>1
  <2> QED BY <1>2, <2>2, InRange
<1>6. Range(b) = {x} \union Range(s)
  BY <1>3, <1>4, <1>5
<1> QED BY <1>2, <1>6 DEF b

(* The three ways to edit put lines in the place of one: it and they, they  *)
(* and it, they.                                                            *)
LEMMA SpliceAfter ==
  ASSUME NEW X, NEW t \in Seq(X), NEW Y, NEW put \in Seq(Y), NEW a \in 1 .. Len(t)
  PROVE  Replaced(t, a, << t[a] >> \o put, Splice(t, a, put, a + 1))
<1> DEFINE b == << t[a] >> \o put
           u == Splice(t, a, put, a + 1)
           Z == Range(t) \union Range(b)
<1>0. /\ t \in Seq(Range(t)) /\ put \in Seq(Range(put)) /\ t[a] \in Range(t)
      /\ Len(put) \in Nat /\ Len(t) \in Nat
  BY OfRange, InRange
<1>1. /\ t \in Seq(Z) /\ put \in Seq(Z) /\ Len(b) = Len(put) + 1 /\ Len(put) \in Nat /\ Len(t) \in Nat
      /\ << t[a] >> \in Seq(Z) /\ Len(<< t[a] >>) = 1 /\ << t[a] >>[1] = t[a]
  <2>1. t[a] \in X \union Y /\ put \in Seq(X \union Y)
    OBVIOUS
  <2>2. Len(b) = Len(put) + 1 /\ Range(b) = {t[a]} \union Range(put)
    BY <2>1, RangeAfter
  <2> HIDE DEF b
  <2> QED BY <1>0, <2>2
<1>2. b[1] = t[a] /\ \A n \in 1 .. Len(put) : b[1 + n] = put[n]
  <2> HIDE DEF Z
  <2> QED BY <1>1, Joined DEF Joins
<1> HIDE DEF b, u, Z
<1>3. /\ u \in Seq(Z) /\ Len(u) = a + Len(put) + (Len(t) - (a + 1) + 1)
      /\ \A n \in 1 .. a : u[n] = t[n]
      /\ \A n \in 1 .. Len(put) : u[a + n] = put[n]
      /\ \A n \in a + 1 .. Len(t) : u[a + Len(put) + (n - (a + 1) + 1)] = t[n]
  <2> DEFINE j == a + 1
  <2>1. a \in 0 .. Len(t) /\ j \in 1 .. Len(t) + 1 /\ Splice(t, a, put, j) = u
    BY <1>1 DEF u
  <2> HIDE DEF j
  <2>2. u \in Seq(Z) /\ Laid(t, a, put, j, u)
    BY <1>1, <2>1, Spliced
  <2> QED BY <2>2 DEF Laid, j
<1>4. \A n \in a + 1 .. Len(t) : u[n + Len(b) - 1] = t[n]
  <2> TAKE n \in a + 1 .. Len(t)
  <2>1. a + Len(put) + (n - (a + 1) + 1) = n + Len(b) - 1
    BY <1>1
  <2> QED BY <1>3, <2>1
<1>5. \A n \in 1 .. Len(b) : u[a + n - 1] = b[n]
  <2> TAKE n \in 1 .. Len(b)
  <2>1. CASE n = 1
    <3>1. a + n - 1 = a /\ a \in 1 .. a
      BY <2>1
    <3> QED BY <1>2, <1>3, <2>1, <3>1
  <2>2. CASE n > 1
    <3>1. n - 1 \in 1 .. Len(put) /\ a + (n - 1) = a + n - 1 /\ 1 + (n - 1) = n
      BY <1>1, <2>2
    <3>2. u[a + (n - 1)] = put[n - 1] /\ b[1 + (n - 1)] = put[n - 1]
      BY <1>2, <1>3, <3>1
    <3> QED BY <3>1, <3>2
  <2> QED BY <1>1, <2>1, <2>2
<1>6. Len(u) = Len(t) + Len(b) - 1 /\ \A n \in 1 .. a - 1 : u[n] = t[n]
  <2>1. Len(u) = Len(t) + Len(b) - 1
    BY <1>1, <1>3
  <2>2. \A n \in 1 .. a - 1 : n \in 1 .. a
    OBVIOUS
  <2> QED BY <1>3, <2>1, <2>2
<1>7. Replaced(t, a, b, u)
  BY <1>3, <1>4, <1>5, <1>6 DEF Replaced, Z
<1> QED BY <1>7 DEF b, u

LEMMA SpliceBefore ==
  ASSUME NEW X, NEW t \in Seq(X), NEW Y, NEW put \in Seq(Y), NEW a \in 1 .. Len(t)
  PROVE  Replaced(t, a, put \o << t[a] >>, Splice(t, a - 1, put, a))
<1> DEFINE b == put \o << t[a] >>
           u == Splice(t, a - 1, put, a)
           Z == Range(t) \union Range(b)
<1>0. /\ t \in Seq(Range(t)) /\ put \in Seq(Range(put)) /\ t[a] \in Range(t)
      /\ Len(put) \in Nat /\ Len(t) \in Nat
  BY OfRange, InRange
<1>1. /\ t \in Seq(Z) /\ put \in Seq(Z) /\ Len(b) = Len(put) + 1 /\ Len(put) \in Nat /\ Len(t) \in Nat
      /\ << t[a] >> \in Seq(Z) /\ Len(<< t[a] >>) = 1 /\ << t[a] >>[1] = t[a]
  <2>1. t[a] \in X \union Y /\ put \in Seq(X \union Y)
    OBVIOUS
  <2>2. Len(b) = Len(put) + 1 /\ Range(b) = {t[a]} \union Range(put)
    BY <2>1, RangeBefore
  <2> HIDE DEF b
  <2> QED BY <1>0, <2>2
<1>2. b[Len(put) + 1] = t[a] /\ \A n \in 1 .. Len(put) : b[n] = put[n]
  <2> HIDE DEF Z
  <2> QED BY <1>1, Joined DEF Joins
<1> HIDE DEF b, u, Z
<1>3. /\ u \in Seq(Z) /\ Len(u) = (a - 1) + Len(put) + (Len(t) - a + 1)
      /\ \A n \in 1 .. a - 1 : u[n] = t[n]
      /\ \A n \in 1 .. Len(put) : u[(a - 1) + n] = put[n]
      /\ \A n \in a .. Len(t) : u[(a - 1) + Len(put) + (n - a + 1)] = t[n]
  <2> DEFINE i == a - 1
  <2>1. i \in 0 .. Len(t) /\ a \in 1 .. Len(t) + 1 /\ Splice(t, i, put, a) = u
    BY <1>1 DEF u
  <2> HIDE DEF i
  <2>2. u \in Seq(Z) /\ Laid(t, i, put, a, u)
    BY <1>1, <2>1, Spliced
  <2> QED BY <2>2 DEF Laid, i
<1>4. \A n \in a .. Len(t) : u[n + Len(b) - 1] = t[n]
  <2> TAKE n \in a .. Len(t)
  <2>1. (a - 1) + Len(put) + (n - a + 1) = n + Len(b) - 1
    BY <1>1
  <2> QED BY <1>3, <2>1
<1>5. \A n \in 1 .. Len(b) : u[a + n - 1] = b[n]
  <2> TAKE n \in 1 .. Len(b)
  <2>1. CASE n = Len(put) + 1
    <3>1. a + n - 1 = a + Len(b) - 1 /\ a \in a .. Len(t)
      BY <1>1, <2>1
    <3> QED BY <1>2, <1>4, <2>1, <3>1
  <2>2. CASE n # Len(put) + 1
    <3>1. n \in 1 .. Len(put) /\ (a - 1) + n = a + n - 1
      BY <1>1, <2>2
    <3> QED BY <1>2, <1>3, <3>1
  <2> QED BY <2>1, <2>2
<1>6. Len(u) = Len(t) + Len(b) - 1
  BY <1>1, <1>3
<1>7. Replaced(t, a, b, u)
  BY <1>1, <1>3, <1>4, <1>5, <1>6 DEF Replaced, Z
<1> QED BY <1>7 DEF b, u

LEMMA SpliceInstead ==
  ASSUME NEW X, NEW t \in Seq(X), NEW Y, NEW put \in Seq(Y), NEW a \in 1 .. Len(t)
  PROVE  Replaced(t, a, put, Splice(t, a - 1, put, a + 1))
<1> DEFINE u == Splice(t, a - 1, put, a + 1)
           Z == Range(t) \union Range(put)
<1>1. t \in Seq(Z) /\ put \in Seq(Z) /\ Len(put) \in Nat /\ Len(t) \in Nat
  BY OfRange
<1> HIDE DEF u, Z
<1>3. /\ u \in Seq(Z) /\ Len(u) = (a - 1) + Len(put) + (Len(t) - (a + 1) + 1)
      /\ \A n \in 1 .. a - 1 : u[n] = t[n]
      /\ \A n \in 1 .. Len(put) : u[(a - 1) + n] = put[n]
      /\ \A n \in a + 1 .. Len(t) : u[(a - 1) + Len(put) + (n - (a + 1) + 1)] = t[n]
  <2> DEFINE i == a - 1
             j == a + 1
  <2>1. i \in 0 .. Len(t) /\ j \in 1 .. Len(t) + 1 /\ Splice(t, i, put, j) = u
    BY <1>1 DEF u
  <2> HIDE DEF i, j
  <2>2. u \in Seq(Z) /\ Laid(t, i, put, j, u)
    BY <1>1, <2>1, Spliced
  <2> QED BY <2>2 DEF Laid, i, j
<1>4. \A n \in a + 1 .. Len(t) : u[n + Len(put) - 1] = t[n]
  <2> TAKE n \in a + 1 .. Len(t)
  <2>1. (a - 1) + Len(put) + (n - (a + 1) + 1) = n + Len(put) - 1
    BY <1>1
  <2> QED BY <1>3, <2>1
<1>5. \A n \in 1 .. Len(put) : u[a + n - 1] = put[n]
  <2> TAKE n \in 1 .. Len(put)
  <2>1. (a - 1) + n = a + n - 1
    BY <1>1
  <2> QED BY <1>3, <2>1
<1>6. Len(u) = Len(t) + Len(put) - 1
  BY <1>1, <1>3
<1>7. Replaced(t, a, put, u)
  BY <1>3, <1>4, <1>5, <1>6 DEF Replaced, Z
<1> QED BY <1>7 DEF u

(* Where line n of u comes from.                                             *)
ComesFrom(t, a, b, u, n) ==
  \/ n \in 1 .. a - 1 /\ u[n] = t[n]
  \/ \E k \in 1 .. Len(b) : n = a + k - 1 /\ u[n] = b[k]
  \/ \E k \in a + 1 .. Len(t) : n = k + Len(b) - 1 /\ u[n] = t[k]

(* Every line of u comes from t or from b.                                  *)
LEMMA WhereFrom ==
  ASSUME NEW X, NEW t \in Seq(X), NEW Y, NEW b \in Seq(Y), NEW a \in 1 .. Len(t),
         NEW u, Replaced(t, a, b, u), NEW n \in 1 .. Len(u)
  PROVE  ComesFrom(t, a, b, u, n)
<1>1. Len(t) \in Nat /\ Len(b) \in Nat /\ Len(u) = Len(t) + Len(b) - 1
  BY DEF Replaced
<1>2. CASE n < a
  BY <1>1, <1>2 DEF Replaced, ComesFrom
<1>3. CASE a <= n /\ n <= a + Len(b) - 1
  <2>1. n - a + 1 \in 1 .. Len(b) /\ n = a + (n - a + 1) - 1
    BY <1>1, <1>3
  <2> QED BY <2>1 DEF Replaced, ComesFrom
<1>4. CASE n > a + Len(b) - 1
  <2>1. n - Len(b) + 1 \in a + 1 .. Len(t) /\ n = (n - Len(b) + 1) + Len(b) - 1
    BY <1>1, <1>4
  <2> QED BY <2>1 DEF Replaced, ComesFrom
<1> QED BY <1>1, <1>2, <1>3, <1>4

(* The lines of t but l, and those of b, are in u.                           *)
Turns(t, l, b, u) ==
  /\ u \in Seq(Range(u)) /\ Range(u) \subseteq Range(t) \union Range(b)
  /\ Range(b) \subseteq Range(u)
  /\ \A x \in Range(t) : x # l => x \in Range(u)

LEMMA LinesStay ==
  ASSUME NEW X, NEW t \in Seq(X), NEW Y, NEW b \in Seq(Y), NEW a \in 1 .. Len(t),
         NEW u, Replaced(t, a, b, u)
  PROVE  Turns(t, t[a], b, u)
<1>0. /\ u \in Seq(Range(t) \union Range(b)) /\ Len(u) = Len(t) + Len(b) - 1
      /\ Len(t) \in Nat /\ Len(b) \in Nat
  BY DEF Replaced
<1>1. u \in Seq(Range(u)) /\ Range(u) \subseteq Range(t) \union Range(b)
  BY <1>0, OfRange, RangeIn, Zenon
<1>2. ASSUME NEW x \in Range(b) PROVE x \in Range(u)
  <2>1. PICK k \in 1 .. Len(b) : b[k] = x
    BY InRange
  <2>2. a + k - 1 \in 1 .. Len(u) /\ u[a + k - 1] = x
    BY <1>0, <2>1 DEF Replaced
  <2> QED BY <1>0, <2>2, InRange
<1>3. ASSUME NEW x \in Range(t), x # t[a] PROVE x \in Range(u)
  <2>1. PICK k \in 1 .. Len(t) : t[k] = x
    BY InRange
  <2>2. CASE k < a
    <3>1. k \in 1 .. Len(u) /\ u[k] = x
      BY <1>0, <2>1, <2>2 DEF Replaced
    <3> QED BY <1>0, <3>1, InRange
  <2>3. CASE k > a
    <3>1. k + Len(b) - 1 \in 1 .. Len(u) /\ u[k + Len(b) - 1] = x
      BY <1>0, <2>1, <2>3 DEF Replaced
    <3> QED BY <1>0, <3>1, InRange
  <2> QED BY <1>3, <2>1, <2>2, <2>3
<1> QED BY <1>1, <1>2, <1>3 DEF Turns

(* The script is a sequence of steps.                                       *)
LEMMA Order == Script \in Seq(Range(Script)) /\ Len(Script) \in Nat \ {0} /\ DOMAIN Script = 1 .. Len(Script)
<1>1. Script \in Seq(Range(Script)) /\ Script # << >>
  BY ScriptAssumption DEF WellMade, BuffersAreKept
<1> QED BY <1>1

(* An edit of a file.                                                       *)
LEMMA OfEdit ==
  ASSUME NEW f \in Files, NEW i \in EditsIn(f)
  PROVE  /\ i \in 1 .. Len(Script) /\ Script[i].op \in Edits /\ FileOf(Script[i].buf) = f
         /\ Script[i].put \in Seq(Known(f)) /\ Range(Script[i].put) \subseteq Known(f)
<1>1. i \in 1 .. Len(Script) /\ Script[i].op \in Edits /\ FileOf(Script[i].buf) = f
  BY Order DEF EditsIn, EditsOf
<1>2. Script[i].put \in Seq(Known(f))
  BY ScriptAssumption DEF WellMade, EditsKeepApart
<1>3. Range(Script[i].put) \subseteq Known(f)
  BY <1>2, RangeIn, Zenon
<1> QED BY <1>1, <1>2, <1>3

(* An edit puts its block in the place of one line.                          *)
LEMMA EditPlaced ==
  ASSUME NEW f \in Files, NEW i \in EditsIn(f), NEW t \in Seq(Known(f)),
         ~Already(t, Script[i]), Anchored(t, Script[i])
  PROVE  \E a \in 1 .. Len(t) :
           /\ t[a] \in Places(f, Script[i])
           /\ Replaced(t, a, Block(t[a], Script[i]), Patched(t, Script[i]))
<1> DEFINE e == Script[i]
           a == Find(t, e.at)
<1>1. e.op \in Edits /\ e.put \in Seq(Known(f))
  BY OfEdit
<1> HIDE DEF e
<1>2. ~Carries(t, e.mark) /\ Carries(t, e.at)
  BY DEF e, Already, Anchored
<1>3. a \in 1 .. Len(t) /\ e.at \in t[a]
  BY <1>2, FindsIt
<1>a. a = Find(t, e.at) /\ a \in Nat /\ Len(t) \in Nat
  BY <1>3
<1> HIDE DEF a
<1>4. ASSUME NEW k \in 1 .. Len(t) PROVE t[k] \in Known(f) /\ e.mark \notin t[k]
  BY <1>2 DEF Carries
<1>5. e.op # "function" => t[a] \in Places(f, e)
  BY <1>3, <1>4, <1>a DEF Places
<1> SUFFICES \E k \in 1 .. Len(t) : /\ t[k] \in Places(f, e)
                                    /\ Replaced(t, k, Block(t[k], e), Patched(t, e))
  BY DEF e
<1>6. CASE e.op = "after"
  <2>1. Patched(t, e) = Splice(t, a, e.put, a + 1) /\ Block(t[a], e) = << t[a] >> \o e.put
    BY <1>6, <1>a DEF Patched, InsertAfter, Block
  <2>2. Replaced(t, a, << t[a] >> \o e.put, Splice(t, a, e.put, a + 1))
    BY <1>1, <1>3, SpliceAfter
  <2> QED BY <1>3, <1>5, <1>6, <2>1, <2>2
<1>7. CASE e.op = "before"
  <2>1. Patched(t, e) = Splice(t, a - 1, e.put, a) /\ Block(t[a], e) = e.put \o << t[a] >>
    BY <1>7, <1>a DEF Patched, InsertBefore, Block
  <2>2. Replaced(t, a, e.put \o << t[a] >>, Splice(t, a - 1, e.put, a))
    BY <1>1, <1>3, SpliceBefore
  <2> QED BY <1>3, <1>5, <1>7, <2>1, <2>2
<1>8. CASE e.op \in {"replace", "sub"}
  <2>1. Patched(t, e) = Splice(t, a - 1, e.put, a + 1) /\ Block(t[a], e) = e.put
    BY <1>8, <1>a DEF Patched, ReplaceOnce, Block
  <2>2. Replaced(t, a, e.put, Splice(t, a - 1, e.put, a + 1))
    BY <1>1, <1>3, SpliceInstead
  <2> QED BY <1>3, <1>5, <1>8, <2>1, <2>2
<1>9. CASE e.op = "function"
  <2> DEFINE s == SubSeq(t, a + 1, Len(t))
             c == CloseOf(t, e)
  <2>1. Patched(t, e) = Splice(t, c, e.put, c + 1) /\ c > a
    BY <1>9, <1>a DEF Patched, Anchored, e
  <2>2. c = a + Find(s, "}")
    BY <1>a DEF CloseOf, Find
  <2>4. s \in Seq(Known(f)) /\ Len(s) = Len(t) - (a + 1) + 1
        /\ \A n \in 1 .. Len(t) - (a + 1) + 1 : s[n] = t[(a + 1) + n - 1]
    <3> DEFINE j == a + 1
    <3>1. j \in 1 .. Len(t) + 1 /\ Len(t) \in 0 .. Len(t)
      BY <1>3
    <3> HIDE DEF j
    <3>2. SubSeq(t, j, Len(t)) \in Seq(Known(f)) /\ Len(SubSeq(t, j, Len(t))) = Len(t) - j + 1
          /\ \A n \in 1 .. Len(t) - j + 1 : SubSeq(t, j, Len(t))[n] = t[j + n - 1]
      BY <3>1, Pieces
    <3> QED BY <3>2 DEF j
  <2> HIDE DEF s, c
  <2>5. Carries(s, "}")
    <3>1. ASSUME ~Carries(s, "}") PROVE FALSE
      <4>1. Find(s, "}") = 0
        BY <2>4, <3>1, FindsNothing, Zenon
      <4>2. c = a + 0
        BY <2>2, <4>1
      <4>3. a \in Nat /\ c > a
        BY <2>1, <1>a
      <4> QED BY <4>2, <4>3
    <3> QED BY <3>1
  <2>6. Find(s, "}") \in 1 .. Len(s) /\ "}" \in s[Find(s, "}")]
    BY <2>4, <2>5, FindsIt, Zenon
  <2>7. c \in 1 .. Len(t) /\ "}" \in t[c]
    <3> DEFINE k == Find(s, "}")
    <3>1. k \in 1 .. Len(t) - (a + 1) + 1 /\ c = a + k
      BY <2>2, <2>4, <2>6
    <3>2. "}" \in t[(a + 1) + k - 1]
      BY <2>4, <2>6, <3>1
    <3> HIDE DEF k
    <3>3. c = a + k /\ a \in Nat /\ Len(t) \in Nat
      BY <1>a, <3>1
    <3>4. c \in 1 .. Len(t) /\ (a + 1) + k - 1 = c
      BY <3>1, <3>3
    <3> QED BY <3>2, <3>4
  <2>8. t[c] \in Places(f, e) /\ Block(t[c], e) = << t[c] >> \o e.put
    BY <1>4, <1>9, <2>7 DEF Places, Block
  <2>9. Replaced(t, c, << t[c] >> \o e.put, Splice(t, c, e.put, c + 1))
    BY <1>1, <2>7, SpliceAfter, Zenon
  <2> QED BY <2>1, <2>7, <2>8, <2>9
<1> QED BY <1>1, <1>6, <1>7, <1>8, <1>9 DEF Edits

(* What an edit leaves in the place of a line: its own lines, the line or not. *)
LEMMA BlockLines ==
  ASSUME NEW f \in Files, NEW i \in EditsIn(f), NEW l \in Known(f)
  PROVE  /\ Block(l, Script[i]) \in Seq(Known(f))
         /\ Range(Script[i].put) \subseteq Range(Block(l, Script[i]))
         /\ Range(Block(l, Script[i])) \subseteq {l} \union Range(Script[i].put)
<1> DEFINE e == Script[i]
<1>1. e.op \in Edits /\ e.put \in Seq(Known(f))
  BY OfEdit
<1> HIDE DEF e
<1>2. CASE e.op \in {"after", "function"}
  <2>1. Block(l, e) = << l >> \o e.put
    BY <1>2 DEF Block
  <2>2. Range(<< l >> \o e.put) = {l} \union Range(e.put)
    BY <1>1, RangeAfter
  <2>3. << l >> \o e.put \in Seq(Known(f))
    BY <1>1
  <2> QED BY <2>1, <2>2, <2>3 DEF e
<1>3. CASE e.op = "before"
  <2>1. Block(l, e) = e.put \o << l >>
    BY <1>3 DEF Block
  <2>2. Range(e.put \o << l >>) = {l} \union Range(e.put)
    BY <1>1, RangeBefore
  <2>3. e.put \o << l >> \in Seq(Known(f))
    BY <1>1
  <2> QED BY <2>1, <2>2, <2>3 DEF e
<1>4. CASE e.op \in {"replace", "sub"}
  <2>1. Block(l, e) = e.put
    BY <1>4 DEF Block
  <2> QED BY <1>1, <2>1 DEF e
<1> QED BY <1>1, <1>2, <1>3, <1>4 DEF Edits

(* The edit's lines are there, or its marker is.                             *)
Passed(j, t) == Carries(t, Script[j].mark) \/ Range(Script[j].put) \subseteq Range(t)

(* Markers and lines of a file, looked for in the lines of a text.           *)
LEMMA CarriedBy ==
  ASSUME NEW X, NEW t \in Seq(X), NEW p
  PROVE  Carries(t, p) <=> \E l \in Range(t) : p \in l
  BY DEF Carries, Range

(* What an edit replaces is nobody's marker and nobody else's line.          *)
LEMMA Spared ==
  ASSUME NEW f \in Files, NEW i \in EditsIn(f), NEW j \in EditsIn(f), NEW l \in Places(f, Script[i])
  PROVE  /\ Script[i].mark \notin l
         /\ l \in Range(Block(l, Script[i])) \/ Script[j].mark \notin l
         /\ l \in Range(Block(l, Script[i])) \/ i = j \/ l \notin Range(Script[j].put)
  BY ScriptAssumption DEF WellMade, EditsKeepApart, Places

(* t is a text of file f in which edit i has found its place a.              *)
Worked(f, i, t, a, u) ==
  /\ t \in Seq(Known(f)) /\ a \in 1 .. Len(t) /\ t[a] \in Places(f, Script[i])
  /\ Replaced(t, a, Block(t[a], Script[i]), u)

LEMMA WorkedLines ==
  ASSUME NEW f \in Files, NEW i \in EditsIn(f), NEW t, NEW a, NEW u, Worked(f, i, t, a, u)
  PROVE  LET b == Block(t[a], Script[i])
         IN  /\ b \in Seq(Known(f)) /\ Range(Script[i].put) \subseteq Range(b)
             /\ Range(b) \subseteq {t[a]} \union Range(Script[i].put)
             /\ u \in Seq(Known(f)) /\ Range(u) \subseteq Range(t) \union Range(Script[i].put)
             /\ Range(Script[i].put) \subseteq Range(u)
             /\ t[a] \in Range(t) /\ Range(t) \subseteq Known(f)
             /\ \A x \in Range(t) : x # t[a] \/ t[a] \in Range(b) => x \in Range(u)
<1> DEFINE l == t[a]
           b == Block(l, Script[i])
<1>1. t \in Seq(Known(f)) /\ a \in 1 .. Len(t) /\ l \in Places(f, Script[i]) /\ Replaced(t, a, b, u)
  BY DEF Worked
<1>2. l \in Known(f)
  BY <1>1 DEF Places
<1> HIDE DEF b
<1>3. /\ b \in Seq(Known(f)) /\ Range(Script[i].put) \subseteq Range(b)
      /\ Range(b) \subseteq {l} \union Range(Script[i].put)
  BY <1>2, BlockLines DEF b
<1>4. /\ u \in Seq(Range(u)) /\ Range(u) \subseteq Range(t) \union Range(b)
      /\ Range(b) \subseteq Range(u)
      /\ \A x \in Range(t) : x # t[a] => x \in Range(u)
  <2>1. Turns(t, l, b, u)
    BY <1>1, <1>3, LinesStay, Zenon
  <2> QED BY <2>1 DEF Turns
<1>5. l \in Range(t) /\ Range(t) \subseteq Known(f)
  BY <1>1, InRange, RangeIn
<1>6. Range(b) \subseteq Known(f)
  BY <1>3, RangeIn, Zenon
<1>7. u \in Seq(Known(f))
  BY <1>4, <1>5, <1>6
<1> QED BY <1>3, <1>4, <1>5, <1>7 DEF b

(* No edit undoes an edit, and the one that is made is made.                 *)
LEMMA PassedStays ==
  ASSUME NEW f \in Files, NEW i \in EditsIn(f), NEW t, NEW a, NEW u, Worked(f, i, t, a, u),
         NEW j \in EditsIn(f), Passed(j, t)
  PROVE  Passed(j, u)
<1> DEFINE b == Block(t[a], Script[i])
<1>1. /\ Range(Script[i].put) \subseteq Range(u)
      /\ \A x \in Range(t) : x # t[a] \/ t[a] \in Range(b) => x \in Range(u)
      /\ t \in Seq(Known(f)) /\ u \in Seq(Known(f)) /\ t[a] \in Places(f, Script[i])
  BY WorkedLines DEF Worked
<1>2. /\ t[a] \in Range(b) \/ Script[j].mark \notin t[a]
      /\ t[a] \in Range(b) \/ i = j \/ t[a] \notin Range(Script[j].put)
  BY <1>1, Spared
<1> HIDE DEF b
<1>3. CASE i = j
  BY <1>1, <1>3 DEF Passed
<1>4. CASE Carries(t, Script[j].mark)
  <2>1. PICK x \in Range(t) : Script[j].mark \in x
    BY <1>1, <1>4, CarriedBy
  <2>2. x \in Range(u)
    BY <1>1, <1>2, <2>1
  <2> QED BY <1>1, <2>1, <2>2, CarriedBy DEF Passed
<1>5. CASE i # j /\ Range(Script[j].put) \subseteq Range(t)
  BY <1>1, <1>2, <1>5 DEF Passed
<1> QED BY <1>3, <1>4, <1>5 DEF Passed

LEMMA PassedNow ==
  ASSUME NEW f \in Files, NEW i \in EditsIn(f), NEW t, NEW a, NEW u, Worked(f, i, t, a, u)
  PROVE  Passed(i, u)
  BY WorkedLines DEF Passed

(* What the closing edits promise of the lines an edit puts down.            *)
LEMMA BlocksClose ==
  ASSUME NEW f \in Files, NEW i \in EditsIn(f), NEW l \in Places(f, Script[i]),
         NEW b \in Seq(Known(f)), b = Block(l, Script[i])
  PROVE  /\ l \in Rear(f) => Range(b) \subseteq Rear(f)
         /\ \A k, m \in 1 .. Len(b) : k < m /\ Closes(f, b[k]) => b[m] \in Rear(f)
         /\ \A k \in 1 .. Len(b) : Closes(f, b[k]) => Closes(f, l)
<1>1. DOMAIN b = 1 .. Len(b)
  OBVIOUS
<1> QED BY <1>1, ScriptAssumption DEF WellMade, FilesAreClosed

(* Behind a closing line an edit puts rear lines only.                      *)
LEMMA StaysTrailing ==
  ASSUME NEW f \in Files, NEW i \in EditsIn(f), NEW t, NEW a, NEW u, Worked(f, i, t, a, u),
         Trailing(t, f)
  PROVE  Trailing(u, f)
<1> DEFINE b == Block(t[a], Script[i])
<1>1. /\ t \in Seq(Known(f)) /\ a \in 1 .. Len(t) /\ t[a] \in Places(f, Script[i])
      /\ Replaced(t, a, b, u)
  BY DEF Worked
<1>2. b \in Seq(Known(f)) /\ u \in Seq(Known(f))
  BY WorkedLines
<1>3. /\ t[a] \in Rear(f) => Range(b) \subseteq Rear(f)
      /\ \A k, m \in 1 .. Len(b) : k < m /\ Closes(f, b[k]) => b[m] \in Rear(f)
      /\ \A k \in 1 .. Len(b) : Closes(f, b[k]) => Closes(f, t[a])
  BY <1>1, <1>2, BlocksClose
<1> HIDE DEF b
<1>4. \A n, m \in 1 .. Len(t) : n < m /\ Closes(f, t[n]) => t[m] \in Rear(f)
  BY <1>1 DEF Trailing
<1>5. t[a] \in Rear(f) => \A k \in 1 .. Len(b) : b[k] \in Rear(f)
  BY <1>2, <1>3, InRange
<1>a. a \in 1 .. Len(t) /\ a \in Nat
  BY <1>1
<1>6. Len(t) \in Nat /\ Len(b) \in Nat /\ Len(u) \in Nat /\ DOMAIN u = 1 .. Len(u)
  BY <1>1, <1>2
<1>7. ASSUME NEW n \in 1 .. Len(u), NEW m \in 1 .. Len(u), n < m, Closes(f, u[n])
      PROVE  u[m] \in Rear(f)
  <2>1. ComesFrom(t, a, b, u, n) /\ ComesFrom(t, a, b, u, m)
    BY <1>1, <1>2, WhereFrom
  <2>2. CASE n \in 1 .. a - 1 /\ u[n] = t[n]
    <3>0. Closes(f, t[n]) /\ n \in 1 .. Len(t) /\ n < a /\ a \in 1 .. Len(t)
      BY <1>a, <1>6, <1>7, <2>2
    <3>1. t[a] \in Rear(f) /\ \A k \in n + 1 .. Len(t) : t[k] \in Rear(f)
      <4>1. \A k \in n + 1 .. Len(t) : k \in 1 .. Len(t) /\ n < k
        BY <1>6
      <4> QED BY <1>4, <3>0, <4>1
    <3>2. CASE m \in 1 .. a - 1 /\ u[m] = t[m]
      BY <1>a, <1>6, <1>7, <3>1, <3>2
    <3>3. CASE \E k \in 1 .. Len(b) : m = a + k - 1 /\ u[m] = b[k]
      BY <1>5, <3>1, <3>3
    <3>4. ASSUME NEW k \in a + 1 .. Len(t), u[m] = t[k] PROVE u[m] \in Rear(f)
      <4>1. k \in n + 1 .. Len(t)
        BY <1>a, <1>6, <2>2
      <4> QED BY <3>1, <3>4, <4>1
    <3> QED BY <2>1, <3>2, <3>3, <3>4 DEF ComesFrom
  <2>3. CASE \E k \in 1 .. Len(b) : n = a + k - 1 /\ u[n] = b[k]
    <3>0. PICK k \in 1 .. Len(b) : n = a + k - 1 /\ u[n] = b[k]
      BY <2>3
    <3>1. Closes(f, b[k]) /\ Closes(f, t[a]) /\ \A h \in a + 1 .. Len(t) : t[h] \in Rear(f)
      <4>1. Closes(f, b[k]) /\ Closes(f, t[a])
        BY <1>3, <1>7, <3>0
      <4>2. \A h \in a + 1 .. Len(t) : h \in 1 .. Len(t) /\ a < h
        BY <1>a, <1>6
      <4> QED BY <1>4, <1>a, <4>1, <4>2
    <3>2. CASE m \in 1 .. a - 1 /\ u[m] = t[m]
      BY <1>a, <1>6, <1>7, <3>0, <3>2
    <3>3. ASSUME NEW h \in 1 .. Len(b), m = a + h - 1, u[m] = b[h] PROVE u[m] \in Rear(f)
      <4>1. k < h
        BY <1>a, <1>6, <1>7, <3>0, <3>3
      <4> QED BY <1>3, <3>1, <3>3, <4>1
    <3>4. CASE \E h \in a + 1 .. Len(t) : m = h + Len(b) - 1 /\ u[m] = t[h]
      BY <3>1, <3>4
    <3> QED BY <2>1, <3>2, <3>3, <3>4 DEF ComesFrom
  <2>4. CASE \E k \in a + 1 .. Len(t) : n = k + Len(b) - 1 /\ u[n] = t[k]
    <3>0. PICK k \in a + 1 .. Len(t) : n = k + Len(b) - 1 /\ u[n] = t[k]
      BY <2>4
    <3>1. \E h \in a + 1 .. Len(t) : m = h + Len(b) - 1 /\ u[m] = t[h]
      <4>1. CASE m \in 1 .. a - 1 /\ u[m] = t[m]
        BY <1>a, <1>6, <1>7, <3>0, <4>1
      <4>2. CASE \E h \in 1 .. Len(b) : m = a + h - 1 /\ u[m] = b[h]
        BY <1>a, <1>6, <1>7, <3>0, <4>2
      <4> QED BY <2>1, <4>1, <4>2 DEF ComesFrom
    <3>2. PICK h \in a + 1 .. Len(t) : m = h + Len(b) - 1 /\ u[m] = t[h]
      BY <3>1
    <3>3. k \in 1 .. Len(t) /\ h \in 1 .. Len(t) /\ k < h
      BY <1>a, <1>6, <1>7, <3>0, <3>2
    <3>4. Closes(f, t[k])
      BY <1>7, <3>0
    <3> QED BY <1>4, <3>2, <3>3, <3>4
  <2> QED BY <2>1, <2>2, <2>3, <2>4 DEF ComesFrom
<1> QED BY <1>6, <1>7 DEF Trailing

(* A file that is closed behind an edit was closed before it: by the anchor, *)
(* if not by the marker.                                                    *)
LEMMA ClosedBefore ==
  ASSUME NEW f \in Files, NEW i \in EditsIn(f), NEW t, NEW a, NEW u, Worked(f, i, t, a, u),
         Closed(u, f)
  PROVE  Closed(t, f)
<1> DEFINE b == Block(t[a], Script[i])
<1>1. /\ t \in Seq(Known(f)) /\ a \in 1 .. Len(t) /\ t[a] \in Places(f, Script[i])
      /\ Replaced(t, a, b, u)
  BY DEF Worked
<1>2. b \in Seq(Known(f)) /\ u \in Seq(Known(f))
  BY WorkedLines
<1>3. \A k \in 1 .. Len(b) : Closes(f, b[k]) => Closes(f, t[a])
  BY <1>1, <1>2, BlocksClose
<1> HIDE DEF b
<1>4. PICK n \in 1 .. Len(u) : Closes(f, u[n])
  BY <1>2 DEF Closed
<1>5. ComesFrom(t, a, b, u, n)
  BY <1>1, <1>2, WhereFrom
<1>6. \E k \in 1 .. Len(t) : Closes(f, t[k])
  BY <1>1, <1>3, <1>4, <1>5 DEF ComesFrom
<1> QED BY <1>1, <1>6 DEF Closed

(* What has the marker of an edit in S has its lines: an edit keeps that up, if *)
(* the edits before it are passed.                                           *)
LEMMA CompleteStays ==
  ASSUME NEW f \in Files, NEW i \in EditsIn(f), NEW t, NEW a, NEW u, Worked(f, i, t, a, u),
         NEW S \in SUBSET EditsIn(f), Complete(t, S), \A j \in EditsIn(f) : j < i => Passed(j, t)
  PROVE  Complete(u, S)
<1> DEFINE b == Block(t[a], Script[i])
<1>1. /\ Range(Script[i].put) \subseteq Range(u)
      /\ Range(u) \subseteq Range(t) \union Range(Script[i].put)
      /\ \A x \in Range(t) : x # t[a] \/ t[a] \in Range(b) => x \in Range(u)
      /\ t \in Seq(Known(f)) /\ u \in Seq(Known(f)) /\ t[a] \in Places(f, Script[i])
  BY WorkedLines DEF Worked
<1> SUFFICES ASSUME NEW j \in S, Carries(u, Script[j].mark)
             PROVE  Range(Script[j].put) \subseteq Range(u)
  BY DEF Complete
<1>0. j \in EditsIn(f)
  OBVIOUS
<1>2. t[a] \in Range(b) \/ i = j \/ t[a] \notin Range(Script[j].put)
  BY <1>0, <1>1, Spared
<1> HIDE DEF b
<1>3. CASE i = j
  BY <1>1, <1>3
<1>4. CASE i # j
  <2>1. PICK x \in Range(u) : Script[j].mark \in x
    BY <1>1, CarriedBy
  <2>2. x \in Range(t) => Range(Script[j].put) \subseteq Range(t)
    <3> HAVE x \in Range(t)
    <3>1. Carries(t, Script[j].mark)
      BY <1>1, <2>1, CarriedBy
    <3> QED BY <3>1 DEF Complete
  <2>3. x \in Range(Script[i].put) => Range(Script[j].put) \subseteq Range(t)
    <3> HAVE x \in Range(Script[i].put)
    <3>1. j < i
      BY <1>0, <1>4, <2>1, ScriptAssumption DEF WellMade, EditsKeepApart
    <3> QED BY <1>0, <3>1 DEF Passed, Complete
  <2>4. Range(Script[j].put) \subseteq Range(t)
    BY <1>1, <2>1, <2>2, <2>3
  <2> QED BY <1>1, <1>2, <1>4, <2>4
<1> QED BY <1>3, <1>4

(* An edit made after those before it keeps a text whole.                    *)
LEMMA WholeStays ==
  ASSUME NEW f \in Files, NEW i \in EditsIn(f), NEW t, NEW a, NEW u, Worked(f, i, t, a, u),
         Whole(t, f), \A j \in EditsIn(f) : j < i => Passed(j, t)
  PROVE  Whole(u, f)
<1> DEFINE S == EditsIn(f) \ AtRear(f)
<1>1. u \in Seq(Known(f))
  BY WorkedLines
<1>2. ASSUME Closed(u, f) PROVE Complete(u, S) /\ Trailing(u, f)
  <2>1. Complete(t, S) /\ Trailing(t, f)
    BY <1>2, ClosedBefore DEF Whole
  <2> HIDE DEF S
  <2>2. S \in SUBSET EditsIn(f)
    BY DEF S
  <2> QED BY <2>1, <2>2, CompleteStays, StaysTrailing
<1> QED BY <1>1, <1>2 DEF Whole

(* What a kill leaves of a file is whole: what it loses from a closed file is *)
(* at its rear.                                                              *)
LEMMA PartIsWhole ==
  ASSUME NEW f \in Files, NEW t, Whole(t, f), NEW k \in Int, k <= Len(t)
  PROVE  Whole(SubSeq(t, 1, k), f)
<1> DEFINE p == SubSeq(t, 1, k)
<1>1. t \in Seq(Known(f)) /\ Len(t) \in Nat /\ DOMAIN t = 1 .. Len(t)
  BY DEF Whole
<1>2. CASE k < 1
  <2>1. p = << >>
    BY <1>2
  <2> QED BY <2>1 DEF Whole, Closed
<1>3. CASE k >= 1
  <2>1. p \in Seq(Known(f)) /\ DOMAIN p = 1 .. k /\ \A n \in 1 .. k : p[n] = t[n]
    BY <1>1, <1>3
  <2> HIDE DEF p
  <2> DEFINE S == EditsIn(f) \ AtRear(f)
  <2> SUFFICES ASSUME Closed(p, f) PROVE Complete(p, S) /\ Trailing(p, f)
    BY <2>1 DEF Whole, p
  <2>2. PICK c \in 1 .. k : Closes(f, t[c])
    BY <2>1 DEF Closed
  <2>3. Complete(t, S) /\ Trailing(t, f)
    BY <1>1, <2>2 DEF Whole, Closed
  <2>4. Trailing(p, f)
    BY <1>1, <2>1, <2>3 DEF Trailing
  <2>5. ASSUME NEW j \in S, Carries(p, Script[j].mark), NEW x \in Range(Script[j].put)
        PROVE  x \in Range(p)
    <3>1. PICK h \in 1 .. k : Script[j].mark \in p[h]
      BY <2>1, <2>5 DEF Carries
    <3>2. Carries(t, Script[j].mark)
      BY <1>1, <2>1, <3>1 DEF Carries
    <3>3. PICK m \in 1 .. Len(t) : t[m] = x
      BY <1>1, <2>3, <2>5, <3>2, InRange DEF Complete
    <3>4. CASE m <= k
      BY <2>1, <3>3, <3>4, InRange DEF Range
    <3>5. CASE m > k
      <4>1. x \in Rear(f)
        BY <1>1, <2>2, <2>3, <3>3, <3>5 DEF Trailing
      <4> QED BY <2>5, <4>1 DEF AtRear
    <3> QED BY <3>3, <3>4, <3>5
  <2> QED BY <2>4, <2>5 DEF Complete
<1> QED BY <1>2, <1>3

----------------------------------------------------------------------------
(* The process.  Sound: what may be missing is missing from files that were   *)
(* cut, at their rear.  LoadedAt: at step p every edit that a buffer has seen is     *)
(* passed in it; StoredAt: every edit behind which its file was written, in   *)
(* the file.                                                                 *)
Sound(text, f, cut) == Whole(text, f) /\ (f \notin cut => Complete(text, EditsIn(f)))
Texts ==
  /\ \A f \in Files : Sound(disk[f], f, torn)
  /\ \A v \in Buffers : Sound(buf[v], FileOf(v), torn)
LoadedAt(p, b) ==
  \A v \in Buffers : \A j \in EditsIn(FileOf(v)) : j < p /\ Seen(j, v, p) => Passed(j, b[v])
StoredAt(p, d) ==
  \A j \in EditsOf : \A w \in WritesOf(FileOf(Script[j].buf)) :
    j < w /\ w < p => Passed(j, d[FileOf(Script[j].buf)])
Finished ==
  ended = "done" => todo = 0 /\ \A j \in EditsOf : Passed(j, disk[FileOf(Script[j].buf)])

Applying == ScriptTypes /\ Texts /\ LoadedAt(todo, buf) /\ StoredAt(todo, disk) /\ Finished

(* The step in progress.                                                     *)
LEMMA AtStep ==
  ASSUME NEW p \in 1 .. Len(Script)
  PROVE  /\ Script[p].buf \in Buffers /\ FileOf(Script[p].buf) \in Files
         /\ Script[p].op \in Edits => p \in EditsIn(FileOf(Script[p].buf))
         /\ Script[p].op \notin Edits => Script[p].file = FileOf(Script[p].buf)
         /\ Script[p].op = "read" => p \in ReadsOf(Script[p].buf)
         /\ \A i \in EditsIn(FileOf(Script[p].buf)) :
              Script[p].op # "read" /\ i < p => Seen(i, Script[p].buf, p)
<1>1. p \in DOMAIN Script
  BY Order
<1>2. Script[p].buf \in Buffers
  BY <1>1 DEF Buffers
<1>3. \/ p \in EditsOf /\ FileOf(Script[p].buf) \in Files
      \/ /\ Script[p].op \in {"read", "write", "write_changed"}
         /\ Script[p].file = FileOf(Script[p].buf) /\ Script[p].file \in Files
  BY <1>1, ScriptAssumption DEF WellMade, BuffersAreKept
<1>4. Script[p].op \in Edits <=> p \in EditsOf
  BY <1>1 DEF EditsOf
<1>5. \A i \in EditsIn(FileOf(Script[p].buf)) :
        Script[p].op # "read" /\ i < p => Seen(i, Script[p].buf, p)
  BY <1>1, ScriptAssumption DEF WellMade, BuffersAreKept
<1> QED BY <1>1, <1>2, <1>3, <1>4, <1>5 DEF EditsIn, ReadsOf

(* What a step can add to what a buffer has seen, or to what is stored.       *)
LEMMA SeenNext ==
  ASSUME NEW p \in 1 .. Len(Script), NEW v \in Buffers, NEW j \in EditsIn(FileOf(v)),
         j < p + 1, Seen(j, v, p + 1)
  PROVE  \/ j < p /\ Seen(j, v, p)
         \/ j = p /\ Script[p].buf = v /\ Script[p].op \in Edits
         \/ Script[p].op = "read" /\ Script[p].buf = v
<1>1. j \in 1 .. Len(Script) /\ Script[j].op \in Edits /\ Len(Script) \in Nat
  BY Order DEF EditsIn, EditsOf
<1>2. CASE Script[j].buf = v
  BY <1>1, <1>2 DEF Seen
<1>3. CASE \E r \in ReadsOf(v) : j < r /\ r < p + 1
  <2>1. PICK r \in ReadsOf(v) : j < r /\ r < p + 1
    BY <1>3
  <2>2. r \in 1 .. Len(Script) /\ Script[r].op = "read" /\ Script[r].buf = v
    BY Order DEF ReadsOf
  <2>3. CASE r = p
    BY <2>2, <2>3
  <2>4. CASE r < p
    BY <1>1, <2>1, <2>2, <2>4 DEF Seen
  <2> QED BY <2>1, <2>2, <2>3, <2>4
<1> QED BY <1>2, <1>3 DEF Seen

LEMMA WrittenNext ==
  ASSUME NEW p \in 1 .. Len(Script), NEW f, NEW w \in WritesOf(f), w < p + 1
  PROVE  \/ w < p
         \/ w = p /\ Script[p].op \in {"write", "write_changed"} /\ Script[p].file = f
<1>1. w \in 1 .. Len(Script) /\ Script[w].op \in {"write", "write_changed"} /\ Script[w].file = f
  BY Order DEF WritesOf
<1> QED BY <1>1

(* An empty text is open and has no marker.                                 *)
LEMMA NothingIsSound ==
  ASSUME NEW f, NEW cut
  PROVE  Sound(<< >>, f, cut)
  BY DEF Sound, Whole, Closed, Complete, Carries

(* Before the first step nothing is seen or stored.                         *)
LEMMA NoneYet ==
  ASSUME NEW b, NEW d
  PROVE  LoadedAt(0, b) /\ StoredAt(0, d) /\ LoadedAt(1, b) /\ StoredAt(1, d)
<1>1. \A f \in Files : \A j \in EditsIn(f) : j \in 1 .. Len(Script)
  BY Order DEF EditsIn, EditsOf
<1>2. \A j \in EditsOf : j \in 1 .. Len(Script)
  BY Order DEF EditsOf
<1>3. \A v \in Buffers : \A j \in EditsIn(FileOf(v)) : j \in EditsOf
  BY DEF EditsIn
<1>4. \A f : \A w \in WritesOf(f) : w \in 1 .. Len(Script)
  BY Order DEF WritesOf
<1>5. LoadedAt(0, b) /\ LoadedAt(1, b)
  BY <1>2, <1>3, Order DEF LoadedAt
<1>6. StoredAt(0, d) /\ StoredAt(1, d)
  BY <1>2, <1>4, Order DEF StoredAt
<1> QED BY <1>5, <1>6

(* The process goes on to its next step, or is done.                         *)
LEMMA GoesOn ==
  ASSUME Applying, todo \in 1 .. Len(Script), NEW texts, Proceed(texts), DOMAIN texts = Buffers,
         DOMAIN disk' = Files, \A f \in Files : Sound(disk'[f], f, torn),
         \A v \in Buffers : Sound(texts[v], FileOf(v), torn),
         LoadedAt(todo + 1, texts), StoredAt(todo + 1, disk')
  PROVE  Applying'
<1>1. Len(Script) \in Nat
  BY Order
<1>2. /\ tree' = tree /\ runs' = runs /\ torn' = torn
      /\ todo = Len(Script) => buf' = Empty /\ todo' = 0 /\ ended' = "done"
      /\ todo # Len(Script) => buf' = texts /\ todo' = todo + 1 /\ ended' = ended
  BY DEF Proceed
<1>3. DOMAIN Empty = Buffers /\ \A v \in Buffers : Empty[v] = << >>
  BY DEF Empty
<1>4. ScriptTypes'
  <2>1. ScriptTypes
    BY DEF Applying
  <2>2. todo' \in 0 .. Len(Script) /\ ended' \in {"never", "running", "done", "failed", "killed"}
    BY <1>1, <1>2, <2>1 DEF ScriptTypes
  <2>3. DOMAIN buf' = Buffers
    BY <1>2, <1>3
  <2>4. DOMAIN tree' = Files /\ runs' \in 0 .. MaxRuns /\ torn' \subseteq Files
    BY <1>2, <2>1 DEF ScriptTypes
  <2> QED BY <2>2, <2>3, <2>4 DEF ScriptTypes
<1>5. Texts'
  BY <1>2, <1>3, NothingIsSound DEF Texts
<1>6. CASE todo = Len(Script)
  <2>1. LoadedAt(todo, buf)' /\ StoredAt(todo, disk)'
    BY <1>2, <1>6, NoneYet
  <2>2. ASSUME NEW j \in EditsOf PROVE Passed(j, disk'[FileOf(Script[j].buf)])
    <3>1. PICK w \in WritesOf(FileOf(Script[j].buf)) : j < w
      BY ScriptAssumption DEF WellMade, BuffersAreKept
    <3>2. w \in 1 .. Len(Script)
      BY Order DEF WritesOf
    <3> QED BY <1>1, <1>6, <3>1, <3>2 DEF StoredAt
  <2> QED BY <1>2, <1>4, <1>5, <1>6, <2>1, <2>2 DEF Applying, Finished
<1>7. CASE todo # Len(Script)
  <2>1. LoadedAt(todo, buf)' /\ StoredAt(todo, disk)'
    BY <1>2, <1>7
  <2>2. ended' # "done"
    BY <1>2, <1>7 DEF Applying, Finished
  <2> QED BY <1>4, <1>5, <2>1, <2>2 DEF Applying, Finished
<1> QED BY <1>6, <1>7

(* The process ends before its last step.                                    *)
LEMMA EndsEarly ==
  ASSUME Applying, NEW how \in {"failed", "killed"}, Stop(how), torn' \subseteq Files,
         DOMAIN disk' = Files, \A f \in Files : Sound(disk'[f], f, torn')
  PROVE  Applying'
<1>1. /\ tree' = tree /\ runs' = runs /\ buf' = Empty /\ todo' = 0 /\ ended' = how
  BY DEF Stop
<1>2. DOMAIN Empty = Buffers /\ \A v \in Buffers : Empty[v] = << >>
  BY DEF Empty
<1>3. ScriptTypes'
  <2>1. ScriptTypes
    BY DEF Applying
  <2>2. todo' \in 0 .. Len(Script) /\ ended' \in {"never", "running", "done", "failed", "killed"}
    BY <1>1, Order
  <2>3. DOMAIN buf' = Buffers
    BY <1>1, <1>2
  <2>4. DOMAIN tree' = Files /\ runs' \in 0 .. MaxRuns
    BY <1>1, <2>1 DEF ScriptTypes
  <2> QED BY <2>2, <2>3, <2>4 DEF ScriptTypes
<1>4. Texts'
  BY <1>1, <1>2, NothingIsSound DEF Texts
<1>5. LoadedAt(todo, buf)' /\ StoredAt(todo, disk)'
  BY <1>1, NoneYet
<1> QED BY <1>1, <1>3, <1>4, <1>5 DEF Applying, Finished

(* What the buffers have seen, and what is stored, one step on.               *)
LEMMA LoadedNext ==
  ASSUME Applying, todo \in 1 .. Len(Script), NEW texts,
         \A v \in Buffers : v # Now.buf => texts[v] = buf[v],
         \A j \in EditsIn(FileOf(Now.buf)) :
           \/ Now.op = "read" /\ j < todo
           \/ j < todo /\ Seen(j, Now.buf, todo)
           \/ j = todo /\ Now.op \in Edits
           => Passed(j, texts[Now.buf])
  PROVE  LoadedAt(todo + 1, texts)
<1> SUFFICES ASSUME NEW v \in Buffers, NEW j \in EditsIn(FileOf(v)), j < todo + 1, Seen(j, v, todo + 1)
             PROVE  Passed(j, texts[v])
  BY DEF LoadedAt
<1>1. LoadedAt(todo, buf)
  BY DEF Applying
<1>2. j \in Int /\ todo \in Int /\ Script[j].op \in Edits
  BY Order DEF EditsIn, EditsOf
<1>3. \/ j < todo /\ Seen(j, v, todo)
      \/ j = todo /\ Now.buf = v /\ Now.op \in Edits
      \/ Now.op = "read" /\ Now.buf = v
  BY SeenNext DEF Now
<1>4. CASE v # Now.buf
  BY <1>1, <1>3, <1>4 DEF LoadedAt
<1>5. CASE v = Now.buf
  <2>1. Now.op = "read" => j < todo
    BY <1>2 DEF Now, Edits
  <2> QED BY <1>3, <1>5, <2>1
<1> QED BY <1>4, <1>5

LEMMA StoredNext ==
  ASSUME Applying, todo \in 1 .. Len(Script), NEW d,
         \A f \in Files : (Now.op \in {"write", "write_changed"} => f # FileOf(Now.buf)) => d[f] = disk[f],
         Now.op \in {"write", "write_changed"} => d[FileOf(Now.buf)] = buf[Now.buf]
  PROVE  StoredAt(todo + 1, d)
<1> SUFFICES ASSUME NEW j \in EditsOf, NEW w \in WritesOf(FileOf(Script[j].buf)), j < w, w < todo + 1
             PROVE  Passed(j, d[FileOf(Script[j].buf)])
  BY DEF StoredAt
<1> DEFINE f == FileOf(Script[j].buf)
<1>1. LoadedAt(todo, buf) /\ StoredAt(todo, disk)
  BY DEF Applying
<1>2. /\ j \in 1 .. Len(Script) /\ w \in 1 .. Len(Script) /\ todo \in Int /\ Script[j].op \in Edits
      /\ j \in EditsIn(f)
  BY Order DEF EditsIn, EditsOf, WritesOf
<1>3. f \in Files
  BY <1>2, AtStep
<1>4. CASE Now.op \in {"write", "write_changed"} /\ f = FileOf(Now.buf)
  <2>1. j < todo /\ Now.op # "read" /\ Now.buf \in Buffers
    BY <1>2, <1>4, AtStep DEF Now
  <2>2. Seen(j, Now.buf, todo)
    BY <1>2, <1>4, <2>1, AtStep DEF Now
  <2>3. Passed(j, buf[Now.buf])
    BY <1>1, <1>2, <1>4, <2>1, <2>2 DEF LoadedAt
  <2> QED BY <1>4, <2>3
<1>5. CASE ~(Now.op \in {"write", "write_changed"} /\ f = FileOf(Now.buf))
  <2>1. d[f] = disk[f]
    BY <1>3, <1>5
  <2>2. w < todo
    <3>1. w = todo => Now.op \in {"write", "write_changed"} /\ Now.file = f
      BY <1>2, WrittenNext DEF Now
    <3>2. Now.op \in {"write", "write_changed"} => Now.op \notin Edits
      BY DEF Edits
    <3>3. Now.op \notin Edits => Now.file = FileOf(Now.buf)
      BY AtStep DEF Now
    <3> QED BY <1>2, <1>5, <3>1, <3>2, <3>3
  <2> QED BY <1>1, <2>1, <2>2 DEF StoredAt
<1> QED BY <1>4, <1>5

----------------------------------------------------------------------------
(* A stock tree that no process has touched.                                 *)
LEMMA InitApplying == ScriptInit => Applying
<1> SUFFICES ASSUME ScriptInit PROVE Applying
  OBVIOUS
<1>1. /\ tree \in Trees /\ disk = tree /\ buf = Empty /\ todo = 0 /\ ended = "never"
      /\ runs = 0 /\ torn = {}
  BY DEF ScriptInit
<1>2. DOMAIN Empty = Buffers /\ \A v \in Buffers : Empty[v] = << >>
  BY DEF Empty
<1>3. DOMAIN tree = Files
  BY <1>1 DEF Trees, Files
<1>4. ScriptTypes
  BY <1>1, <1>2, <1>3, BoundAssumption, Order DEF ScriptTypes
<1>5. \A f \in Files : Sound(disk[f], f, torn)
  BY <1>1, ScriptAssumption DEF WellMade, Sound
<1>6. Texts
  BY <1>1, <1>2, <1>5, NothingIsSound DEF Texts
<1> QED BY <1>1, <1>4, <1>6, NoneYet DEF Applying, Finished

(* A start, on what the runs before have left.                              *)
LEMMA StartApplies ==
  ASSUME Applying, Start
  PROVE  Applying'
<1>1. /\ todo' = 1 /\ runs' = runs + 1 /\ runs < MaxRuns /\ ended' = "running"
      /\ tree' = tree /\ disk' = disk /\ buf' = buf /\ torn' = torn
  BY DEF Start
<1>2. Len(Script) >= 1
  BY Order
<1>3. ScriptTypes'
  BY <1>1, <1>2, Order, BoundAssumption DEF Applying, ScriptTypes
<1> QED BY <1>1, <1>3, NoneYet DEF Applying, Texts, Finished

(* The step in progress, and what its buffer has by now.                    *)
LEMMA Current ==
  ASSUME Applying, todo > 0
  PROVE  /\ todo \in 1 .. Len(Script) /\ Now.buf \in Buffers /\ FileOf(Now.buf) \in Files
         /\ Now.op \in Edits => todo \in EditsIn(FileOf(Now.buf))
         /\ Now.op \notin Edits => Now.file = FileOf(Now.buf)
         /\ \A j \in EditsIn(FileOf(Now.buf)) :
              Now.op # "read" /\ j < todo => Seen(j, Now.buf, todo) /\ Passed(j, buf[Now.buf])
<1>1. todo \in 1 .. Len(Script) /\ LoadedAt(todo, buf)
  BY Order DEF Applying, ScriptTypes
<1>2. /\ Now.buf \in Buffers /\ FileOf(Now.buf) \in Files
      /\ Now.op \in Edits => todo \in EditsIn(FileOf(Now.buf))
      /\ Now.op \notin Edits => Now.file = FileOf(Now.buf)
      /\ \A j \in EditsIn(FileOf(Now.buf)) :
           Now.op # "read" /\ j < todo => Seen(j, Now.buf, todo)
  BY <1>1, AtStep DEF Now
<1> QED BY <1>1, <1>2 DEF LoadedAt

(* A file that is read has every edit that was made before.                 *)
LEMMA ReadApplies ==
  ASSUME Applying, ReadFile
  PROVE  Applying'
<1> DEFINE v == Now.buf
           texts == [buf EXCEPT ![v] = disk[Now.file]]
<1>1. todo > 0 /\ Now.op = "read" /\ Proceed(texts) /\ disk' = disk
  BY DEF ReadFile
<1>2. todo \in 1 .. Len(Script) /\ v \in Buffers /\ FileOf(v) \in Files /\ Now.file = FileOf(v)
  BY <1>1, Current DEF Edits
<1>3. DOMAIN disk = Files /\ DOMAIN buf = Buffers /\ Texts /\ StoredAt(todo, disk)
  BY DEF Applying, ScriptTypes
<1>4. /\ DOMAIN texts = Buffers /\ texts[v] = disk[FileOf(v)]
      /\ \A x \in Buffers : x # v => texts[x] = buf[x]
  BY <1>2, <1>3
<1> HIDE DEF texts
<1>5. ASSUME NEW j \in EditsIn(FileOf(v)), j < todo PROVE Passed(j, texts[v])
  <2>1. todo \in ReadsOf(v)
    BY <1>1, <1>2, AtStep DEF Now
  <2>2. PICK w \in WritesOf(FileOf(v)) : j < w /\ w < todo
    BY <1>2, <1>5, <2>1, ScriptAssumption DEF WellMade, BuffersAreKept
  <2>3. j \in EditsOf /\ FileOf(Script[j].buf) = FileOf(v)
    BY DEF EditsIn
  <2> QED BY <1>3, <1>4, <2>2, <2>3 DEF StoredAt
<1>6. LoadedAt(todo + 1, texts)
  <2>1. Now.op \notin Edits
    BY <1>1 DEF Edits
  <2>2. \A j \in EditsIn(FileOf(v)) : j < todo => Passed(j, texts[v])
    BY <1>5
  <2> QED BY <1>2, <1>4, <2>1, <2>2, LoadedNext
<1>7. StoredAt(todo + 1, disk)
  BY <1>1, <1>2, StoredNext
<1>8. \A x \in Buffers : Sound(texts[x], FileOf(x), torn)
  BY <1>2, <1>3, <1>4 DEF Texts
<1> QED BY <1>1, <1>2, <1>3, <1>4, <1>6, <1>7, <1>8, GoesOn DEF Texts

(* An edit keeps the text whole and the edits before it passed.             *)
LEMMA EditApplies ==
  ASSUME Applying, EditText
  PROVE  Applying'
<1> DEFINE v == Now.buf
           f == FileOf(v)
           t == buf[v]
           u == Patched(t, Now)
           texts == [buf EXCEPT ![v] = u]
<1>1. /\ todo > 0 /\ Now.op \in Edits /\ ~Already(t, Now) /\ Anchored(t, Now)
      /\ Proceed([buf EXCEPT ![v] = Patched(@, Now)]) /\ disk' = disk
  BY DEF EditText
<1>2. /\ todo \in 1 .. Len(Script) /\ v \in Buffers /\ f \in Files /\ todo \in EditsIn(f)
      /\ \A j \in EditsIn(f) : j < todo => Passed(j, t)
  BY <1>1, Current DEF Edits
<1>3. DOMAIN disk = Files /\ DOMAIN buf = Buffers /\ Texts
  BY DEF Applying, ScriptTypes
<1>4. /\ DOMAIN texts = Buffers /\ texts[v] = u
      /\ \A x \in Buffers : x # v => texts[x] = buf[x]
      /\ Proceed(texts)
  BY <1>1, <1>2, <1>3
<1>5. Sound(t, f, torn) /\ Whole(t, f) /\ t \in Seq(Known(f))
  BY <1>2, <1>3 DEF Texts, Sound, Whole
<1>6. \E a : Worked(f, todo, t, a, u)
  <2>1. ~Already(t, Script[todo]) /\ Anchored(t, Script[todo])
    BY <1>1 DEF Now
  <2>2. \E a \in 1 .. Len(t) : /\ t[a] \in Places(f, Script[todo])
                               /\ Replaced(t, a, Block(t[a], Script[todo]), Patched(t, Script[todo]))
    BY <1>2, <1>5, <2>1, EditPlaced
  <2> QED BY <1>5, <2>2 DEF Worked, Now
<1> HIDE DEF texts, u, t, f
<1>7. PICK a : Worked(f, todo, t, a, u)
  BY <1>6
<1>8. Sound(u, f, torn)
  <2>1. Whole(u, f)
    BY <1>2, <1>5, <1>7, WholeStays
  <2>2. f \notin torn => Complete(u, EditsIn(f))
    BY <1>2, <1>5, <1>7, CompleteStays DEF Sound
  <2> QED BY <2>1, <2>2 DEF Sound
<1>9. \A j \in EditsIn(f) : j < todo \/ j = todo => Passed(j, u)
  BY <1>2, <1>7, PassedStays, PassedNow
<1>10. LoadedAt(todo + 1, texts)
  <2>1. Now.op # "read"
    BY <1>1 DEF Edits
  <2> QED BY <1>2, <1>4, <1>9, <2>1, LoadedNext DEF f
<1>11. StoredAt(todo + 1, disk)
  <2>1. Now.op \notin {"write", "write_changed"}
    BY <1>1 DEF Edits
  <2> QED BY <1>2, <2>1, StoredNext
<1>12. \A x \in Buffers : Sound(texts[x], FileOf(x), torn)
  BY <1>2, <1>3, <1>4, <1>8 DEF Texts, f
<1> QED BY <1>1, <1>2, <1>3, <1>4, <1>10, <1>11, <1>12, GoesOn DEF Texts

(* A step that changes no text.                                              *)
LEMMA SkipApplies ==
  ASSUME Applying, SkipEdit
  PROVE  Applying'
<1>1. todo > 0 /\ Now.op \in Edits /\ Already(buf[Now.buf], Now) /\ Proceed(buf) /\ disk' = disk
  BY DEF SkipEdit
<1>2. /\ todo \in 1 .. Len(Script) /\ todo \in EditsIn(FileOf(Now.buf))
      /\ Now.op # "read" /\ Now.op \notin {"write", "write_changed"}
      /\ \A j \in EditsIn(FileOf(Now.buf)) : j < todo => Passed(j, buf[Now.buf])
  BY <1>1, Current DEF Edits
<1>3. DOMAIN disk = Files /\ DOMAIN buf = Buffers /\ Texts
  BY DEF Applying, ScriptTypes
<1>4. Passed(todo, buf[Now.buf])
  BY <1>1 DEF Passed, Already, Now
<1>5. LoadedAt(todo + 1, buf)
  BY <1>2, <1>4, LoadedNext
<1>6. StoredAt(todo + 1, disk)
  BY <1>2, StoredNext
<1> QED BY <1>1, <1>2, <1>3, <1>5, <1>6, GoesOn DEF Texts

(* A step behind which the file is the buffer's text.                        *)
LEMMA Saved ==
  ASSUME Applying, todo > 0, Now.op \in {"write", "write_changed"}, Proceed(buf),
         DOMAIN disk' = DOMAIN disk, disk'[Now.file] = buf[Now.buf],
         \A f \in Files : f # Now.file => disk'[f] = disk[f]
  PROVE  Applying'
<1>1. /\ todo \in 1 .. Len(Script) /\ Now.buf \in Buffers /\ FileOf(Now.buf) \in Files
      /\ Now.op \notin Edits /\ Now.op # "read" /\ Now.file = FileOf(Now.buf)
      /\ \A j \in EditsIn(FileOf(Now.buf)) : j < todo => Passed(j, buf[Now.buf])
  BY Current DEF Edits
<1>2. DOMAIN disk = Files /\ DOMAIN buf = Buffers /\ Texts
  BY DEF Applying, ScriptTypes
<1>3. /\ DOMAIN disk' = Files /\ disk'[FileOf(Now.buf)] = buf[Now.buf]
      /\ \A f \in Files : f # FileOf(Now.buf) => disk'[f] = disk[f]
  BY <1>1, <1>2
<1>4. LoadedAt(todo + 1, buf)
  BY <1>1, LoadedNext
<1>5. StoredAt(todo + 1, disk')
  BY <1>1, <1>3, StoredNext
<1>6. \A f \in Files : Sound(disk'[f], f, torn)
  BY <1>1, <1>2, <1>3 DEF Texts
<1> QED BY <1>1, <1>2, <1>3, <1>4, <1>5, <1>6, GoesOn DEF Texts

(* A write, or a write that finds nothing changed.                          *)
LEMMA WriteApplies ==
  ASSUME Applying, WriteFile
  PROVE  Applying'
<1>1. /\ todo > 0 /\ Now.op \in {"write", "write_changed"} /\ Proceed(buf)
      /\ disk' = [disk EXCEPT ![Now.file] = buf[Now.buf]]
  BY DEF WriteFile, Writes
<1>2. Now.file \in DOMAIN disk /\ DOMAIN disk = Files
  BY <1>1, Current DEF Applying, ScriptTypes, Edits
<1> QED BY <1>1, <1>2, Saved

LEMMA KeepApplies ==
  ASSUME Applying, KeepFile
  PROVE  Applying'
<1>1. /\ todo > 0 /\ Now.op = "write_changed" /\ buf[Now.buf] = disk[Now.file]
      /\ Proceed(buf) /\ disk' = disk
  BY DEF KeepFile, Writes
<1> QED BY <1>1, Saved

(* A process that ends between two steps leaves the files as they are.      *)
LEMMA FailApplies ==
  ASSUME Applying, Fail \/ Kill
  PROVE  Applying'
<1>1. \E how \in {"failed", "killed"} : Stop(how)
  BY DEF Fail, Kill
<1>2. disk' = disk /\ torn' = torn
  BY DEF Fail, Kill
<1>3. torn \subseteq Files /\ DOMAIN disk = Files /\ Texts
  BY DEF Applying, ScriptTypes
<1> QED BY <1>1, <1>2, <1>3, EndsEarly DEF Texts

(* A process killed within a write leaves a part of one.                    *)
LEMMA TornApplies ==
  ASSUME Applying, KillInWrite
  PROVE  Applying'
<1>1. todo > 0 /\ Writes /\ torn' = torn \union {Now.file} /\ Stop("killed")
  BY DEF KillInWrite
<1>2. PICK n \in 0 .. Len(buf[Now.buf]) - 1 : disk' = [disk EXCEPT ![Now.file] = SubSeq(buf[Now.buf], 1, n)]
  BY DEF KillInWrite
<1>3. Now.op \notin Edits
  BY <1>1 DEF Writes, Edits
<1>4. Now.buf \in Buffers /\ FileOf(Now.buf) \in Files /\ Now.file = FileOf(Now.buf)
  BY <1>1, <1>3, Current
<1>5. torn \subseteq Files /\ DOMAIN disk = Files /\ Texts
  BY DEF Applying, ScriptTypes
<1>6. Whole(buf[Now.buf], Now.file)
  BY <1>4, <1>5 DEF Texts, Sound
<1>7. n \in Int /\ n <= Len(buf[Now.buf])
  <2>1. Len(buf[Now.buf]) \in Nat
    BY <1>6 DEF Whole
  <2> QED BY <2>1
<1>8. Whole(SubSeq(buf[Now.buf], 1, n), Now.file)
  BY <1>4, <1>6, <1>7, PartIsWhole
<1>9. DOMAIN disk' = Files /\ \A f \in Files : Sound(disk'[f], f, torn')
  BY <1>1, <1>2, <1>4, <1>5, <1>8 DEF Texts, Sound
<1> QED BY <1>1, <1>4, <1>5, <1>9, EndsEarly

(* Every step.                                                              *)
LEMMA StepApplies ==
  ASSUME Applying, [ScriptNext]_scriptVars
  PROVE  Applying'
<1>1. CASE UNCHANGED scriptVars
  BY <1>1 DEF scriptVars, Applying, ScriptTypes, Texts, Finished
<1>2. CASE ScriptNext
  BY <1>2, StartApplies, ReadApplies, EditApplies, SkipApplies, FailApplies, WriteApplies,
     KeepApplies, TornApplies DEF ScriptNext
<1> QED BY <1>1, <1>2

(* A finished script leaves no file open, and what a file carries the marker  *)
(* of, it has, unless it was cut and that is at its rear.                    *)
LEMMA FinishedApplied ==
  ASSUME Applying
  PROVE  DoneMeansApplied
<1> SUFFICES ASSUME ended = "done", NEW i \in EditsOf,
                    LET f == FileOf(Script[i].buf) IN f \notin torn \/ i \notin AtRear(f)
             PROVE  Made(i)
  BY DEF DoneMeansApplied
<1> DEFINE f == FileOf(Script[i].buf)
           t == disk[f]
<1>1. i \in EditsIn(f) /\ f \in Files
  <2>1. i \in EditsIn(f) /\ i \in 1 .. Len(Script)
    BY Order DEF EditsIn, EditsOf
  <2> QED BY <2>1, AtStep
<1>2. Whole(t, f) /\ (f \notin torn => Complete(t, EditsIn(f)))
  BY <1>1 DEF Applying, Texts, Sound
<1>3. \A j \in EditsIn(f) : Passed(j, t)
  BY DEF Applying, Finished, EditsIn
<1>4. t \in Seq(Known(f)) /\ DOMAIN t = 1 .. Len(t)
  BY <1>2 DEF Whole
<1>5. Closed(t, f)
  <2>1. PICK c \in EditsIn(f) : /\ Script[c].mark = Closing[f].mark
                                /\ \E l \in Range(Script[c].put) : Script[c].mark \in l
    BY <1>1, ScriptAssumption DEF WellMade, FilesAreClosed
  <2>2. \E l \in Range(t) : Script[c].mark \in l
    BY <1>3, <1>4, <2>1, CarriedBy DEF Passed
  <2> QED BY <1>4, <2>1, <2>2 DEF Closed, Closes, Range
<1>6. Range(Script[i].put) \subseteq Range(t)
  <2>1. CASE f \notin torn
    BY <1>1, <1>2, <1>3, <2>1 DEF Passed, Complete
  <2>2. CASE i \notin AtRear(f)
    BY <1>1, <1>2, <1>3, <1>5, <2>2 DEF Passed, Whole, Complete
  <2> QED BY <2>1, <2>2
<1> QED BY <1>6 DEF Range, Made

(* The invariant of the script.                                             *)
LEMMA ApplyingHolds == ScriptSpec => []Applying
  BY InitApplying, StepApplies, PTL DEF ScriptSpec

(* The process and the tree it works on keep their types.                    *)
THEOREM ScriptTyped == ScriptSpec => []ScriptTypes
<1>1. Applying => ScriptTypes
  BY DEF Applying
<1> QED BY <1>1, ApplyingHolds, PTL

(* A script that reports done has left every edit in its file, however often  *)
(* it was started, failed or was killed; of a file that a kill cut short while *)
(* it was written, every edit but those at its rear.                         *)
THEOREM DoneIsApplied == ScriptSpec => []DoneMeansApplied
  BY FinishedApplied, ApplyingHolds, PTL

(***************************************************************************)
(* PhysDisc: slot ownership, for all periods, spin-up times and numbers of   *)
(* ejects.                                                                  *)
(***************************************************************************)

(* What keeps a set-aside disc out: the latch is up, and the scans have seen *)
(* the disc, so that no edge can take the latch down while it stays.         *)
Shut == refused => prevReady /\ spun /\ foreign /\ pc \in {"idle", "scan"}

(* Beyond the ioctl nothing stands in the way of a mount, and the device is  *)
(* recorded before it.                                                       *)
Cleared ==
  /\ pc \in {"probe", "mount"} => ~mounted /\ ~foreign
  /\ pc = "mount" => dev

SlotInv == TypeOK /\ Ownership /\ Shut /\ Cleared

USE DEF None, Greater, Lesser

(* The slot invariant holds when the core is loaded. *)
LEMMA InitSlot == Init => SlotInv
<1> SUFFICES ASSUME Init PROVE SlotInv  OBVIOUS
<1> USE PeriodsAssumption DEF Init
<1>1. FlagTypes /\ HistoryTypes  BY DEF FlagTypes, HistoryTypes
<1>2. RangeTypes /\ PlaceTypes  BY DEF RangeTypes, PlaceTypes
<1>3. Ownership /\ Shut /\ Cleared  BY DEF Ownership, Shut, Cleared
<1> QED  BY <1>1, <1>2, <1>3 DEF SlotInv, TypeOK

(* Every action keeps the types. *)
LEMMA TypeStep == TypeOK /\ [Next]_vars => TypeOK'
<1> SUFFICES ASSUME TypeOK, [Next]_vars PROVE TypeOK'  OBVIOUS
<1> USE PeriodsAssumption DEF TypeOK, flags, timers, core, world, history
<1>1. CASE TickTop
  <2>1. FlagTypes'  BY <1>1 DEF FlagTypes, TickTop, ReleaseDue, ScanDue
  <2>2. HistoryTypes'  BY <1>1 DEF HistoryTypes, TickTop, ReleaseDue, ScanDue
  <2>3. RangeTypes'  BY <1>1 DEF RangeTypes, TickTop, ReleaseDue, ScanDue
  <2>4. PlaceTypes'  BY <1>1 DEF PlaceTypes, TickTop, ReleaseDue, ScanDue
  <2> QED  BY <2>1, <2>2, <2>3, <2>4
<1>2. CASE ScanEmpty
  <2>1. FlagTypes'  BY <1>2 DEF FlagTypes, ScanEmpty, Backoff, Gone, Teardown, SlotBecomes
  <2>2. HistoryTypes'  BY <1>2 DEF HistoryTypes, ScanEmpty, Backoff, Gone, Teardown, SlotBecomes
  <2>3. RangeTypes'  BY <1>2 DEF RangeTypes, ScanEmpty, Backoff, Gone, Teardown, SlotBecomes
  <2>4. PlaceTypes'  BY <1>2 DEF PlaceTypes, ScanEmpty, Backoff, Gone, Teardown, SlotBecomes
  <2> QED  BY <2>1, <2>2, <2>3, <2>4
<1>3. CASE ScanReady
  <2>1. FlagTypes'  BY <1>3 DEF FlagTypes, ScanReady, Backoff, Edge
  <2>2. HistoryTypes'  BY <1>3 DEF HistoryTypes, ScanReady, Backoff, Edge
  <2>3. RangeTypes'  BY <1>3 DEF RangeTypes, ScanReady, Backoff, Edge
  <2>4. PlaceTypes'  BY <1>3 DEF PlaceTypes, ScanReady, Backoff, Edge
  <2> QED  BY <2>1, <2>2, <2>3, <2>4
<1>4. CASE Probe
  <2>1. FlagTypes'  BY <1>4 DEF FlagTypes, Probe
  <2>2. HistoryTypes'  BY <1>4 DEF HistoryTypes, Probe
  <2>3. RangeTypes'  BY <1>4 DEF RangeTypes, Probe
  <2>4. PlaceTypes'  BY <1>4 DEF PlaceTypes, Probe
  <2> QED  BY <2>1, <2>2, <2>3, <2>4
<1>5. CASE Mount
  <2>1. FlagTypes'  BY <1>5 DEF FlagTypes, Mount, SlotBecomes
  <2>2. HistoryTypes'  BY <1>5 DEF HistoryTypes, Mount, SlotBecomes
  <2>3. RangeTypes'  BY <1>5 DEF RangeTypes, Mount, SlotBecomes
  <2>4. PlaceTypes'  BY <1>5 DEF PlaceTypes, Mount, SlotBecomes
  <2> QED  BY <2>1, <2>2, <2>3, <2>4
<1>6. CASE MountFile
  <2>1. FlagTypes'  BY <1>6 DEF FlagTypes, MountFile, NoteFile, SlotBecomes
  <2>2. HistoryTypes'  BY <1>6 DEF HistoryTypes, MountFile, NoteFile, SlotBecomes
  <2>3. RangeTypes'  BY <1>6 DEF RangeTypes, MountFile, NoteFile, SlotBecomes
  <2>4. PlaceTypes'  BY <1>6 DEF PlaceTypes, MountFile, NoteFile, SlotBecomes
  <2> QED  BY <2>1, <2>2, <2>3, <2>4
<1>7. CASE Unmount
  <2>1. FlagTypes'  BY <1>7 DEF FlagTypes, Unmount, SlotBecomes
  <2>2. HistoryTypes'  BY <1>7 DEF HistoryTypes, Unmount, SlotBecomes
  <2>3. RangeTypes'  BY <1>7 DEF RangeTypes, Unmount, SlotBecomes
  <2>4. PlaceTypes'  BY <1>7 DEF PlaceTypes, Unmount, SlotBecomes
  <2> QED  BY <2>1, <2>2, <2>3, <2>4
<1>8. CASE Eject
  <2>1. FlagTypes'  BY <1>8 DEF FlagTypes, Eject, Teardown, SlotBecomes, Latch
  <2>2. HistoryTypes'  BY <1>8 DEF HistoryTypes, Eject, Teardown, SlotBecomes, Latch
  <2>3. RangeTypes'  BY <1>8 DEF RangeTypes, Eject, Teardown, SlotBecomes, Latch
  <2>4. PlaceTypes'  BY <1>8 DEF PlaceTypes, Eject, Teardown, SlotBecomes, Latch
  <2> QED  BY <2>1, <2>2, <2>3, <2>4
<1>9. CASE InsertDisc \/ RemoveDisc
  <2>1. FlagTypes'  BY <1>9 DEF FlagTypes, InsertDisc, RemoveDisc
  <2>2. HistoryTypes'  BY <1>9 DEF HistoryTypes, InsertDisc, RemoveDisc
  <2>3. RangeTypes'  BY <1>9 DEF RangeTypes, InsertDisc, RemoveDisc
  <2>4. PlaceTypes'  BY <1>9 DEF PlaceTypes, InsertDisc, RemoveDisc
  <2> QED  BY <2>1, <2>2, <2>3, <2>4
<1>10. CASE Read \/ LaunchSettles
  <2>1. FlagTypes'  BY <1>10 DEF FlagTypes, Read, LaunchSettles
  <2>2. HistoryTypes'  BY <1>10 DEF HistoryTypes, Read, LaunchSettles
  <2>3. RangeTypes'  BY <1>10 DEF RangeTypes, Read, LaunchSettles
  <2>4. PlaceTypes'  BY <1>10 DEF PlaceTypes, Read, LaunchSettles
  <2> QED  BY <2>1, <2>2, <2>3, <2>4
<1>11. CASE Second
  <2>1. FlagTypes'  BY <1>11 DEF FlagTypes, Second
  <2>2. HistoryTypes'  BY <1>11 DEF HistoryTypes, Second
  <2>3. RangeTypes'  BY <1>11 DEF RangeTypes, Second
  <2>4. PlaceTypes'  BY <1>11 DEF PlaceTypes, Second
  <2> QED  BY <2>1, <2>2, <2>3, <2>4
<1>12. CASE UNCHANGED vars
  <2>1. FlagTypes'  BY <1>12 DEF FlagTypes, vars
  <2>2. HistoryTypes'  BY <1>12 DEF HistoryTypes, vars
  <2>3. RangeTypes'  BY <1>12 DEF RangeTypes, vars
  <2>4. PlaceTypes'  BY <1>12 DEF PlaceTypes, vars
  <2> QED  BY <2>1, <2>2, <2>3, <2>4
<1> QED
  BY <1>1, <1>2, <1>3, <1>4, <1>5, <1>6, <1>7, <1>8, <1>9, <1>10, <1>11, <1>12 DEF Next, Tick

(* Every action keeps ownership and the two facts that hold it up. *)
LEMMA SlotStep == SlotInv /\ [Next]_vars => (Ownership /\ Shut /\ Cleared)'
<1> SUFFICES ASSUME SlotInv, [Next]_vars PROVE (Ownership /\ Shut /\ Cleared)'  OBVIOUS
<1> USE PeriodsAssumption DEF SlotInv, TypeOK, RangeTypes, PlaceTypes, Ownership, Shut, Cleared, spun
<1>1. CASE TickTop
  BY <1>1 DEF TickTop, flags, core, world, history
<1>2. CASE ScanEmpty
  BY <1>2 DEF ScanEmpty, Gone, Teardown, SlotBecomes, core, history
<1>3. CASE ScanReady
  BY <1>3 DEF ScanReady, Edge, StandDown, core, world
<1>4. CASE Probe
  BY <1>4 DEF Probe, timers, core, world, history
<1>5. CASE Mount
  <2>1. ~mounted /\ ~foreign /\ ~refused /\ slot \notin {"drive", "vacated"} /\ dev
    BY <1>5 DEF Mount
  <2>2. foreign' = FALSE /\ refused' = refused /\ pc' = "idle"
    BY <1>5 DEF Mount, history
  <2>3. (mounted <=> slot \in {"drive", "vacated"})' /\ (dev <=> mounted)'
    <3>1. CASE slot' = "drive" /\ mounted' = TRUE /\ dev' = dev
      BY <2>1, <3>1
    <3>2. CASE slot' = "empty" /\ dev' = FALSE /\ mounted' = mounted
      BY <2>1, <3>2
    <3> QED  BY <1>5, <3>1, <3>2 DEF Mount, SlotBecomes
  <2> QED  BY <2>1, <2>2, <2>3
<1>6. CASE MountFile
  BY <1>6 DEF MountFile, NoteFile, SlotBecomes, timers
<1>7. CASE Unmount
  BY <1>7 DEF Unmount, SlotBecomes, timers
<1>8. CASE Eject
  BY <1>8 DEF Eject, Teardown, SlotBecomes, Latch
<1>9. CASE InsertDisc \/ RemoveDisc \/ Read \/ LaunchSettles
  BY <1>9 DEF InsertDisc, RemoveDisc, Read, LaunchSettles, flags, timers, core, history
<1>10. CASE Second
  <2>1. refused => spin' = SpinTime
    BY <1>10 DEF Second
  <2> QED  BY <1>10, <2>1 DEF Second, flags, core, history
<1>11. CASE UNCHANGED vars
  BY <1>11 DEF vars, flags, timers, core, world, history
<1> QED
  BY <1>1, <1>2, <1>3, <1>4, <1>5, <1>6, <1>7, <1>8, <1>9, <1>10, <1>11 DEF Next, Tick

(* The slot invariant holds in every reachable state. *)
LEMMA SlotInvariant == Spec => []SlotInv
<1>1. SlotInv /\ [Next]_vars => SlotInv'
  BY TypeStep, SlotStep DEF SlotInv
<1> QED  BY <1>1, InitSlot, PTL DEF Spec

(* The types of dvd_phys.cpp's state and of the drive around it.             *)
THEOREM PhysTypes == Spec => []TypeOK
BY SlotInvariant, PTL DEF SlotInv

(* `mounted` says what user_io has in slot 0, whatever the user, the drive   *)
(* and the clock do between two ticks or while a tick is blocked.            *)
THEOREM SlotOwned == Spec => []Ownership
BY SlotInvariant, PTL DEF SlotInv

(* A disc set aside for an image, or left in by a refused eject, is neither  *)
(* read nor mounted until it has left.                                       *)
THEOREM SetAsideStaysOut == Spec => []RefusedStaysOut
<1>1. SlotInv => RefusedStaysOut
  BY DEF SlotInv, Ownership, Shut, Cleared, RefusedStaysOut
<1> QED  BY <1>1, SlotInvariant, PTL

(* The user's image leaves the slot in a tick only for a disc that came in,  *)
(* or was first seen, after it was loaded.                                   *)
THEOREM ImageIsSafe == Spec => ImageSafe
<1>1. SlotInv /\ [Next]_vars
        => [slot = "file" /\ slot' # "file" /\ pc # "idle" => pc = "mount" /\ ~refused]_vars
  <2> SUFFICES ASSUME SlotInv, Next, slot = "file", slot' # "file", pc # "idle"
               PROVE  pc = "mount" /\ ~refused
    OBVIOUS
  <2> USE DEF SlotInv, Ownership, Shut
  <2>1. ~TickTop /\ ~ScanReady /\ ~Probe /\ ~InsertDisc /\ ~RemoveDisc /\ ~LaunchSettles
        /\ ~Second
    BY DEF TickTop, ScanReady, Probe, InsertDisc, RemoveDisc, LaunchSettles, Second, core
  <2>2. ~ScanEmpty /\ ~Read
    BY DEF ScanEmpty, Gone, Read, core
  <2>3. ~MountFile /\ ~Unmount /\ ~Eject
    BY DEF MountFile, Unmount, Eject
  <2>4. CASE Mount
    BY <2>4 DEF Mount
  <2> QED  BY <2>1, <2>2, <2>3, <2>4 DEF Next, Tick
<1> QED  BY <1>1, SlotInvariant, PTL DEF Spec, ImageSafe

(***************************************************************************)
(* Until the Eject button is used, the reset of a removal is over before a  *)
(* disc can be mounted: it is released at the top of a tick, a scan is at   *)
(* least a second after the scan that asserted it, and the release comes    *)
(* first.                                                                   *)
(***************************************************************************)
Pulse ==
  ejects = 0 =>
    /\ coreReset => resetLeft # None
    /\ resetLeft # None => pc = "idle"
    /\ resetLeft = 1 => sinceScan = 0

PulseInv == SlotInv /\ Pulse /\ StartedByMount

(* A disc that mounts before Eject has ever been pressed starts the core, for *)
(* all periods and however late the ticks run.                               *)
THEOREM DiscMountsRunning == Spec => []StartedByMount
<1>1. Init => PulseInv
  BY InitSlot DEF Init, PulseInv, Pulse, StartedByMount
<1>2. PulseInv /\ [Next]_vars => PulseInv'
  <2> SUFFICES ASSUME PulseInv, [Next]_vars, ejects' = 0 PROVE (Pulse /\ StartedByMount)'
    BY TypeStep, SlotStep DEF PulseInv, SlotInv, Pulse, StartedByMount
  <2> USE PeriodsAssumption DEF PulseInv, SlotInv, Pulse, StartedByMount, TypeOK, RangeTypes, PlaceTypes
  <2>0. ejects = 0 /\ ~Eject
    <3>1. Eject => ejects' = ejects + 1
      BY DEF Eject
    <3>2. ~Eject => ejects' = ejects
      BY DEF Next, Tick, TickTop, ScanEmpty, ScanReady, Probe, Mount, MountFile, Unmount,
             InsertDisc, RemoveDisc, Read, LaunchSettles, Second, vars, world
    <3> QED  BY <3>1, <3>2
  <2>1. CASE TickTop
    BY <2>0, <2>1 DEF TickTop, ReleaseDue, ScanDue, core, world
  <2>2. CASE ScanEmpty
    <3>1. sinceScan' = sinceScan /\ pc' = "idle" /\ ejects' = 0 /\ resetLeft = -1
      BY <2>0, <2>2 DEF ScanEmpty
    <3>2. resetLeft' = 1 => sinceScan = 0
      BY <2>0, <2>2, <3>1 DEF ScanEmpty, Gone, Teardown
    <3>3. (coreReset => resetLeft # -1)' /\ (slot = "drive" => coreOn)'
      BY <2>0, <2>2, <3>1 DEF ScanEmpty, Gone, Teardown, SlotBecomes, core
    <3> QED  BY <3>1, <3>2, <3>3
  <2>3. CASE ScanReady
    BY <2>0, <2>3 DEF ScanReady, core, world
  <2>4. CASE Probe
    BY <2>0, <2>4 DEF Probe, timers, core, world
  <2>5. CASE Mount
    BY <2>0, <2>5 DEF Mount, SlotBecomes, timers
  <2>6. CASE MountFile
    BY <2>0, <2>6 DEF MountFile, SlotBecomes, timers
  <2>7. CASE Unmount
    BY <2>0, <2>7 DEF Unmount, SlotBecomes, timers
  <2>9. CASE InsertDisc \/ RemoveDisc \/ Read \/ LaunchSettles
    BY <2>0, <2>9 DEF InsertDisc, RemoveDisc, Read, LaunchSettles, timers, core
  <2>10. CASE Second
    <3>1. resetLeft' # 1 /\ (resetLeft = -1 <=> resetLeft' = -1)
      BY <2>0, <2>10 DEF Second
    <3> QED  BY <2>0, <2>10, <3>1 DEF Second, core
  <2>11. CASE UNCHANGED vars
    BY <2>0, <2>11 DEF vars, timers, core, world
  <2> QED
    BY <2>0, <2>1, <2>2, <2>3, <2>4, <2>5, <2>6, <2>7, <2>9, <2>10, <2>11 DEF Next, Tick
<1>3. PulseInv => StartedByMount
  BY DEF PulseInv
<1> QED  BY <1>1, <1>2, <1>3, PTL DEF Spec
=============================================================================
