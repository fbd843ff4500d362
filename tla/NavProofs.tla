------------------------------ MODULE NavProofs ------------------------------
(***************************************************************************)
(* Navigation, for any discs, chains of any length and any presses.        *)
(*                                                                         *)
(* NavVm, the golden model: its types, and with them that every command of *)
(* any disc keeps the registers words; that a menu's broken link starts no *)
(* title; that the Menu key gives a title back as it was left; that the    *)
(* guess at a disc's menu costs no title its own.  NavShell, the VM in     *)
(* hardware and its users: its types, that pre_done never precedes the     *)
(* PRE, and which buttons are current.                                     *)
(***************************************************************************)
EXTENDS NavVm, NavShell, WellFoundedInduction, SequenceTheorems, TLAPS

(***************************************************************************)
(* VmEval: what one command does to the registers.                          *)
(***************************************************************************)
LEMMA InWords ==
  ASSUME NEW x \in Int, 0 =< x, x =< RegMax
  PROVE  x \in Words
<1>1. RegMax \in Int
  BY DEF RegMax
<1> QED BY <1>1 DEF Words

LEMMA OfWords ==
  ASSUME NEW x \in Words
  PROVE  x \in Nat /\ x =< RegMax
BY DEF Words, RegMax

LEMMA ByteIsWord ==
  ASSUME NEW x \in 0..255
  PROVE  x \in Words
<1>1. x \in Int /\ 0 =< x /\ x =< 255
  OBVIOUS
<1>2. 255 =< RegMax /\ RegMax \in Int
  BY DEF RegMax
<1> QED BY <1>1, <1>2, InWords

LEMMA BitRange ==
  ASSUME NEW v \in Words, NEW i \in 1..16
  PROVE  Bit(v, i) \in 0..1
<1>1. Weight[i] \in Nat \ {0}
  BY DEF Weight
<1>2. v \div Weight[i] \in Int
  BY <1>1 DEF Words, RegMax
<1> QED BY <1>2 DEF Bit

LEMMA WordRange ==
  ASSUME NEW b \in [1..16 -> 0..1]
  PROVE  Word(b) \in Words
<1>1. \A i \in 1..16 : b[i] \in Int /\ 0 =< b[i] /\ b[i] =< 1
  OBVIOUS
<1>2. ASSUME NEW i \in {1, 5, 9, 13}
      PROVE  Nibble(b, i) \in Int /\ 0 =< Nibble(b, i) /\ Nibble(b, i) =< 15
  <2>1. /\ b[i] \in Int /\ 0 =< b[i] /\ b[i] =< 1
        /\ b[i + 1] \in Int /\ 0 =< b[i + 1] /\ b[i + 1] =< 1
        /\ b[i + 2] \in Int /\ 0 =< b[i + 2] /\ b[i + 2] =< 1
        /\ b[i + 3] \in Int /\ 0 =< b[i + 3] /\ b[i + 3] =< 1
    BY <1>1
  <2> QED BY <2>1 DEF Nibble
<1>3. ASSUME NEW p \in Int, NEW q \in Int, NEW r \in Int, NEW t \in Int,
             0 =< p, p =< 15, 0 =< q, q =< 15, 0 =< r, r =< 15, 0 =< t, t =< 15
      PROVE  /\ p + 16 * q + 256 * r + 4096 * t \in Int
             /\ 0 =< p + 16 * q + 256 * r + 4096 * t
             /\ p + 16 * q + 256 * r + 4096 * t =< RegMax
  BY <1>3 DEF RegMax
<1>4. Word(b) \in Int /\ 0 =< Word(b) /\ Word(b) =< RegMax
  <2>1. /\ Nibble(b, 1) \in Int /\ 0 =< Nibble(b, 1) /\ Nibble(b, 1) =< 15
        /\ Nibble(b, 5) \in Int /\ 0 =< Nibble(b, 5) /\ Nibble(b, 5) =< 15
        /\ Nibble(b, 9) \in Int /\ 0 =< Nibble(b, 9) /\ Nibble(b, 9) =< 15
        /\ Nibble(b, 13) \in Int /\ 0 =< Nibble(b, 13) /\ Nibble(b, 13) =< 15
    BY <1>2
  <2> DEFINE p == Nibble(b, 1)
             q == Nibble(b, 5)
             r == Nibble(b, 9)
             t == Nibble(b, 13)
  <2>2. Word(b) = p + 16 * q + 256 * r + 4096 * t
    BY DEF Word
  <2> HIDE DEF p, q, r, t
  <2>3. /\ p \in Int /\ 0 =< p /\ p =< 15 /\ q \in Int /\ 0 =< q /\ q =< 15
        /\ r \in Int /\ 0 =< r /\ r =< 15 /\ t \in Int /\ 0 =< t /\ t =< 15
    BY <2>1 DEF p, q, r, t
  <2> QED BY <2>2, <2>3, <1>3
<1> QED BY <1>4, InWords

LEMMA BitwiseWords ==
  ASSUME NEW a \in Words, NEW b \in Words
  PROVE  /\ BitAnd(a, b) \in Words
         /\ BitOr(a, b) \in Words
         /\ BitXor(a, b) \in Words
<1>1. \A i \in 1..16 : Bit(a, i) \in 0..1 /\ Bit(b, i) \in 0..1
  BY BitRange
<1>2. [i \in 1..16 |-> Least(Bit(a, i), Bit(b, i))] \in [1..16 -> 0..1]
  BY <1>1 DEF Least
<1>3. [i \in 1..16 |-> Greatest(Bit(a, i), Bit(b, i))] \in [1..16 -> 0..1]
  BY <1>1 DEF Greatest
<1>4. [i \in 1..16 |-> (Bit(a, i) + Bit(b, i)) % 2] \in [1..16 -> 0..1]
  BY <1>1
<1> QED BY <1>2, <1>3, <1>4, WordRange DEF BitAnd, BitOr, BitXor

LEMMA Quotient ==
  ASSUME NEW a \in Nat, NEW d \in Nat \ {0}
  PROVE  a \div d \in 0..a /\ a % d \in 0..d - 1
<1>1. a % d \in 0..d - 1 /\ a \div d \in Int /\ a = d * (a \div d) + (a % d)
  OBVIOUS
<1>2. a \div d \in Nat
  OBVIOUS
<1>3. d * (a \div d) >= a \div d
  BY <1>1, <1>2
<1>4. d * (a \div d) \in Int
  BY <1>1
<1> QED BY <1>1, <1>2, <1>3, <1>4

LEMMA StepWords ==
  ASSUME NEW v \in Words
  PROVE  Step(v) \in Words
<1> DEFINE half == v \div 2
           odd  == (v + (v \div 4) + (v \div 8) + (v \div 32)) % 2
<1>1. odd = 0 \/ odd = 1
  BY OfWords
<1>2. half \in Int /\ 0 =< half /\ half =< 32767
  BY OfWords DEF RegMax
<1> HIDE DEF odd, half
<1>3. half + 32768 * odd \in Words
  BY <1>1, <1>2, InWords DEF RegMax
<1> QED BY <1>3 DEF Step, odd, half

(* Registers, sets and commands keep to their types.                        *)
LEMMA ValueWords ==
  ASSUME NEW r \in RegTypes, NEW x \in Operands
  PROVE  Value(r, x) \in Words
BY DEF Value, Operands, RegTypes

LEMMA GprmSet ==
  ASSUME NEW r \in RegTypes, NEW n \in Gprms, NEW v \in Words
  PROVE  [r EXCEPT !.g[n] = v] \in RegTypes
BY DEF RegTypes

LEMMA SprmSet ==
  ASSUME NEW r \in RegTypes, NEW n \in Sprms, NEW v \in Words
  PROVE  [r EXCEPT !.s[n] = v] \in RegTypes
BY DEF RegTypes

LEMMA SetOpTypes ==
  ASSUME NEW r \in RegTypes, NEW t \in RegisterSets
  PROVE  SetOp(r, t) \in RegTypes
<1>1. CASE t = Nothing
  BY <1>1 DEF SetOp, Nothing
<1>2. CASE t # Nothing
  <2> DEFINE old == r.g[t.reg]
             d   == Value(r, t.data)
             To(v) == [r EXCEPT !.g[t.reg] = v]
  <2>1. /\ t.op \in {"mov", "swap", "add", "sub", "mul", "div", "mod", "rnd", "and", "or", "xor"}
        /\ t.reg \in Gprms /\ t.reg2 \in Gprms /\ t.data \in Operands
    BY <1>2 DEF RegisterSets
  <2>2. old \in Words /\ d \in Words
    BY <2>1, ValueWords DEF RegTypes
  <2>3. old \in Nat /\ old =< RegMax /\ d \in Nat /\ d =< RegMax /\ RegMax \in Nat
    <3>1. RegMax \in Nat
      BY DEF RegMax
    <3> QED BY <2>2, <3>1, OfWords
  <2>4. \A v \in Words : To(v) \in RegTypes
    BY <2>1, GprmSet
  <2>5. SetOp(r, t) = CASE t.op = "none" -> r
       [] t.op = "mov"  -> To(d % (RegMax + 1))
       [] t.op = "swap" -> [r EXCEPT !.g = [[r.g EXCEPT ![t.reg2] = old] EXCEPT ![t.reg] = d]]
       [] t.op = "add"  -> To(Least(old + d, RegMax))
       [] t.op = "sub"  -> To(Greatest(old - d, 0))
       [] t.op = "mul"  -> To(Least(old * d, RegMax))
       [] t.op = "div"  -> To(IF d = 0 THEN RegMax ELSE old \div d)
       [] t.op = "mod"  -> To(IF d = 0 THEN RegMax ELSE old % d)
       [] t.op = "rnd"  -> IF d = 0 THEN To(0)
                           ELSE [To((Step(r.rnd) % d) + 1) EXCEPT !.rnd = Step(r.rnd)]
       [] t.op = "and"  -> To(BitAnd(old, d))
       [] t.op = "or"   -> To(BitOr(old, d))
       [] t.op = "xor"  -> To(BitXor(old, d))
    BY DEF SetOp
  <2>6. [r EXCEPT !.g = [[r.g EXCEPT ![t.reg2] = old] EXCEPT ![t.reg] = d]] \in RegTypes
    BY <2>1, <2>2 DEF RegTypes
  <2>7. ASSUME d # 0
        PROVE  [To((Step(r.rnd) % d) + 1) EXCEPT !.rnd = Step(r.rnd)] \in RegTypes
    <3>1. Step(r.rnd) \in Words
      BY StepWords DEF RegTypes
    <3>2. Step(r.rnd) % d \in 0..d - 1
      BY <3>1, <2>3, <2>7, OfWords, Quotient
    <3>3. (Step(r.rnd) % d) + 1 \in Words
      BY <3>2, <2>3, InWords
    <3>4. To((Step(r.rnd) % d) + 1) \in RegTypes
      BY <3>3, <2>4
    <3> HIDE DEF To
    <3> QED BY <3>1, <3>4 DEF RegTypes
  <2>8. /\ d % (RegMax + 1) \in Words
        /\ Least(old + d, RegMax) \in Words
        /\ Greatest(old - d, 0) \in Words
        /\ Least(old * d, RegMax) \in Words
        /\ 0 \in Words /\ RegMax \in Words
    <3> HIDE DEF old, d
    <3>1. old * d \in Nat
      BY <2>3
    <3>2. d % (RegMax + 1) \in 0..RegMax
      BY <2>3, Quotient
    <3> QED BY <2>3, <3>1, <3>2, InWords DEF Least, Greatest
  <2>9. d # 0 => old \div d \in Words /\ old % d \in Words
    <3> HIDE DEF old, d
    <3>1. d # 0 => old \div d \in 0..old /\ old % d \in 0..d - 1
      BY <2>3, Quotient
    <3> QED BY <2>3, <3>1, InWords
  <2>10. BitAnd(old, d) \in Words /\ BitOr(old, d) \in Words /\ BitXor(old, d) \in Words
    BY <2>2, BitwiseWords
  <2> HIDE DEF old, d, To
  <2> QED BY <2>1, <2>4, <2>5, <2>6, <2>7, <2>8, <2>9, <2>10
<1> QED BY <1>1, <1>2

LEMMA SystemSetTypes ==
  ASSUME NEW r \in RegTypes, NEW t \in SystemSets, NEW cond \in BOOLEAN
  PROVE  SystemSet(r, t, cond) \in RegTypes
<1>1. CASE t = Nothing
  BY <1>1 DEF SystemSet, Nothing
<1>2. CASE t \in [op : {"stn"}, stn : UNION {[streams -> Operands] : streams \in SUBSET (1..3)}]
  <2> DEFINE s == [i \in Sprms |-> IF i \in DOMAIN t.stn THEN Value(r, t.stn[i]) ELSE r.s[i]]
  <2>1. SystemSet(r, t, cond) = IF cond THEN [r EXCEPT !.s = s] ELSE r
    BY <1>2 DEF SystemSet
  <2>2. t.stn \in UNION {[streams -> Operands] : streams \in SUBSET (1..3)}
    BY <1>2
  <2>3. \A i \in DOMAIN t.stn : t.stn[i] \in Operands
    BY <2>2
  <2>4. \A i \in DOMAIN t.stn : Value(r, t.stn[i]) \in Words
    BY <2>3, ValueWords
  <2>5. s \in [Sprms -> Words]
    <3>1. \A i \in Sprms : r.s[i] \in Words
      BY DEF RegTypes
    <3> QED BY <2>4, <3>1
  <2> HIDE DEF s
  <2>6. [r EXCEPT !.s = s] \in RegTypes
    BY <2>5 DEF RegTypes
  <2> QED BY <2>1, <2>6
<1>3. CASE t \in [op : {"counter"}, reg : Gprms, reg2 : Gprms, data : Operands, on : BOOLEAN]
  <2>1. SystemSet(r, t, cond) =
          IF cond THEN [r EXCEPT !.mode[t.reg] = t.on, !.g[t.reg] = Value(r, t.data)]
          ELSE [r EXCEPT !.mode[t.reg] = t.on]
    BY <1>3 DEF SystemSet
  <2>2. t.reg \in Gprms /\ t.on \in BOOLEAN /\ Value(r, t.data) \in Words
    BY <1>3, ValueWords
  <2>3. [r EXCEPT !.mode[t.reg] = t.on] \in RegTypes
    BY <2>2 DEF RegTypes
  <2>4. [r EXCEPT !.mode[t.reg] = t.on, !.g[t.reg] = Value(r, t.data)]
          = [[r EXCEPT !.mode[t.reg] = t.on] EXCEPT !.g[t.reg] = Value(r, t.data)]
    BY DEF RegTypes
  <2>5. [r EXCEPT !.mode[t.reg] = t.on, !.g[t.reg] = Value(r, t.data)] \in RegTypes
    BY <2>2, <2>3, <2>4, GprmSet
  <2> QED BY <2>1, <2>3, <2>5
<1>4. CASE t \in [op : {"nvtmr", "hl_btnn"}, reg : 0..255, reg2 : 0..255, data : Operands, on : BOOLEAN]
  <2>1. SystemSet(r, t, cond) =
          IF ~cond THEN r
          ELSE IF t.op = "nvtmr" THEN [r EXCEPT !.s[9] = Value(r, t.data), !.s[10] = t.reg]
          ELSE [r EXCEPT !.s[8] = Value(r, t.data)]
    BY <1>4 DEF SystemSet
  <2>2. Value(r, t.data) \in Words /\ {8, 9, 10} \subseteq Sprms
    BY <1>4, ValueWords DEF Sprms
  <2>3. t.reg \in Words
    <3>1. t.reg \in 0..255
      BY <1>4
    <3> QED BY <3>1, ByteIsWord
  <2>4. [r EXCEPT !.s[9] = Value(r, t.data), !.s[10] = t.reg]
          = [[r EXCEPT !.s[9] = Value(r, t.data)] EXCEPT !.s[10] = t.reg]
    BY DEF RegTypes
  <2>5. [r EXCEPT !.s[9] = Value(r, t.data)] \in RegTypes
    BY <2>2, SprmSet
  <2>6. [r EXCEPT !.s[9] = Value(r, t.data), !.s[10] = t.reg] \in RegTypes
    BY <2>2, <2>3, <2>4, <2>5, SprmSet
  <2>7. [r EXCEPT !.s[8] = Value(r, t.data)] \in RegTypes
    BY <2>2, SprmSet
  <2> QED BY <2>1, <2>6, <2>7
<1> QED BY <1>1, <1>2, <1>3, <1>4 DEF SystemSets

LEMMA HoldsIsBoolean ==
  ASSUME NEW r \in RegTypes, NEW c \in Commands
  PROVE  Holds(c, r) \in BOOLEAN
BY DEF Holds, Compare, Commands, Fields, Conditions, Always

LEMMA EvalCommandTypes ==
  ASSUME NEW r \in RegTypes, NEW c \in Commands
  PROVE  /\ EvalCommand(c, r).regs \in RegTypes
         /\ EvalCommand(c, r).line \in Nat
         /\ EvalCommand(c, r).link \in {NoLink} \union LinkTypes
<1> DEFINE before == Holds(c, r)
           set == SetOp(r, c.set)
<1>1. /\ c.type \in 0..6 /\ c.link \in {NoLink} \union LinkTypes /\ c.flow \in Flows
      /\ c.type = 2 => c.set \in SystemSets
      /\ c.type > 2 => c.set \in RegisterSets
  BY DEF Commands, Fields, Flows
<1>2. before \in BOOLEAN
  BY HoldsIsBoolean
<1>3. CASE c.type = 0
  <2>1. c.flow.op \in {"none", "goto", "break", "pml"}
        /\ (c.flow.op \in {"goto", "pml"} => c.flow.line \in 0..255)
        /\ (c.flow.op = "pml" => c.flow.level \in 0..15)
    BY <1>1 DEF Flows, Nothing
  <2>2. c.flow.op = "pml" => c.flow.level \in Words
    BY <2>1, ByteIsWord
  <2>3. 13 \in Sprms
    BY DEF Sprms
  <2>4. c.flow.op = "pml" => [r EXCEPT !.s[13] = c.flow.level] \in RegTypes
    BY <2>2, <2>3, SprmSet
  <2>5. /\ EvalCommand(c, r).regs = IF before /\ c.flow.op = "pml"
                                     THEN [r EXCEPT !.s[13] = c.flow.level] ELSE r
        /\ EvalCommand(c, r).line = CASE ~before \/ c.flow.op = "none" -> 0
                                    [] c.flow.op = "break" /\ before -> Break
                                    [] OTHER -> c.flow.line
        /\ EvalCommand(c, r).link = NoLink
    BY <1>3 DEF EvalCommand
  <2>6. EvalCommand(c, r).line \in Nat
    BY <2>1, <2>5, <1>2 DEF Break
  <2> QED BY <2>4, <2>5, <2>6
<1>4. CASE c.type = 1
  BY <1>1, <1>4 DEF EvalCommand
<1>5. CASE c.type = 2
  <2>1. SystemSet(r, c.set, before) \in RegTypes
    BY <1>1, <1>2, <1>5, SystemSetTypes
  <2> QED BY <1>1, <1>5, <2>1 DEF EvalCommand
<1>6. CASE c.type > 2
  <2>1. set \in RegTypes
    BY <1>1, <1>6, SetOpTypes
  <2> QED BY <1>1, <1>6, <2>1 DEF EvalCommand
<1> QED BY <1>1, <1>3, <1>4, <1>5, <1>6

(***************************************************************************)
(* A function that steps from a value stays in a set the steps stay in.     *)
(***************************************************************************)
Iterates(f, s0, g, n) == f = [k \in 0..n |-> IF k = 0 THEN s0 ELSE g[f[k - 1]]]

LEMMA Iteration ==
  ASSUME NEW S, NEW s0 \in S, NEW g \in [S -> S], NEW n \in Nat
  PROVE  \E f \in [0..n -> S] : Iterates(f, s0, g, n)
<1> DEFINE Good(m) == \E f \in [0..m -> S] : Iterates(f, s0, g, m)
           Bad == {m \in Nat : ~Good(m)}
<1>1. Good(0)
  <2> DEFINE f == [k \in 0..0 |-> s0]
  <2>1. f \in [0..0 -> S]
    OBVIOUS
  <2>2. Iterates(f, s0, g, 0)
    BY DEF Iterates
  <2> QED BY <2>1, <2>2
<1>2. ASSUME NEW m \in Nat, m # 0, Good(m - 1)
      PROVE  Good(m)
  <2>1. PICK f \in [0..m - 1 -> S] : f = [k \in 0..m - 1 |-> IF k = 0 THEN s0 ELSE g[f[k - 1]]]
    BY <1>2 DEF Iterates
  <2> DEFINE h == [k \in 0..m |-> IF k = m THEN g[f[m - 1]] ELSE f[k]]
  <2>2. h \in [0..m -> S]
    BY <1>2
  <2>3. \A k \in 0..m - 1 : h[k] = f[k]
    BY <1>2
  <2>4. \A k \in 0..m : h[k] = IF k = 0 THEN s0 ELSE g[h[k - 1]]
    <3> SUFFICES ASSUME NEW k \in 0..m
                 PROVE  h[k] = IF k = 0 THEN s0 ELSE g[h[k - 1]]
      OBVIOUS
    <3>1. CASE k = m
      BY <1>2, <2>3, <3>1
    <3>2. CASE k # m
      <4>1. k \in 0..m - 1 /\ (k # 0 => k - 1 \in 0..m - 1)
        BY <3>2
      <4>2. f[k] = IF k = 0 THEN s0 ELSE g[f[k - 1]]
        BY <2>1, <4>1
      <4> HIDE DEF h
      <4> QED BY <2>3, <4>1, <4>2
    <3> QED BY <3>1, <3>2
  <2>5. h = [k \in 0..m |-> h[k]]
    OBVIOUS
  <2> HIDE DEF h
  <2>6. h = [k \in 0..m |-> IF k = 0 THEN s0 ELSE g[h[k - 1]]]
    BY <2>4, <2>5
  <2> QED BY <2>2, <2>6 DEF Iterates
<1> HIDE DEF Good
<1>3. CASE Bad = {}
  BY <1>3 DEF Good
<1>4. CASE Bad # {}
  <2>1. PICK m \in Bad : \A y \in Bad : ~(<<y, m>> \in OpToRel(<, Nat))
    BY <1>4, WFMin, NatLessThanWellFounded, Zenon
  <2>2. m # 0
    BY <1>1, <2>1
  <2>5. m \in Nat
    BY <2>1
  <2>3. m - 1 \in Nat /\ m - 1 < m
    BY <2>2, <2>5
  <2>4. m - 1 \notin Bad
    BY <2>1, <2>3, <2>5 DEF OpToRel
  <2> QED BY <1>2, <2>1, <2>2, <2>3, <2>4, <2>5
<1> QED BY <1>3, <1>4

LEMMA CourseStays ==
  ASSUME NEW S, NEW cmds, NEW r, [regs |-> r, line |-> 1, link |-> NoLink] \in S,
         S \subseteq Standings, \A at \in S : After(cmds)[at] \in S
  PROVE  Course(cmds, r) \in [0..EvalFuse -> S]
<1> DEFINE s0 == [regs |-> r, line |-> 1, link |-> NoLink]
           g  == [at \in S |-> After(cmds)[at]]
           Unfolds(f) == f = [k \in 0..EvalFuse |-> IF k = 0 THEN s0 ELSE After(cmds)[f[k - 1]]]
           h == Course(cmds, r)
           Bad == {k \in 0..EvalFuse : h[k] \notin S}
<1>1. s0 \in S /\ g \in [S -> S] /\ \A at \in S : g[at] = After(cmds)[at] /\ g[at] \in S
  OBVIOUS
<1> HIDE DEF s0, g
<1>2. PICK f \in [0..EvalFuse -> S] : f = [k \in 0..EvalFuse |-> IF k = 0 THEN s0 ELSE g[f[k - 1]]]
  <2>1. \E f \in [0..EvalFuse -> S] : Iterates(f, s0, g, EvalFuse)
    BY <1>1, Iteration, EvalAssumption
  <2> QED BY <2>1 DEF Iterates
<1>3. \A k \in 0..EvalFuse : k # 0 => g[f[k - 1]] = After(cmds)[f[k - 1]]
  <2>1. \A k \in 0..EvalFuse : k # 0 => f[k - 1] \in S
    BY EvalAssumption
  <2> QED BY <2>1, <1>1
<1>4. Unfolds(f)
  <2> HIDE DEF Unfolds
  <2> DEFINE one == [k \in 0..EvalFuse |-> IF k = 0 THEN s0 ELSE g[f[k - 1]]]
             two == [k \in 0..EvalFuse |-> IF k = 0 THEN s0 ELSE After(cmds)[f[k - 1]]]
  <2>1. \A k \in 0..EvalFuse : one[k] = two[k]
    BY <1>3
  <2>2. one = two
    BY <2>1
  <2>3. f = one
    BY <1>2
  <2> HIDE DEF one
  <2>4. f = two
    BY <2>2, <2>3
  <2> QED BY <2>4, Zenon DEF Unfolds
<1>5. h = CHOOSE e : Unfolds(e)
  BY DEF Course, s0
<1> HIDE DEF Unfolds, h
<1>6. Unfolds(h)
  BY <1>4, <1>5
<1> USE DEF Unfolds
<1>7. ASSUME Bad # {}
      PROVE  FALSE
  <2>1. PICK m \in Bad : \A y \in Bad : ~(<<y, m>> \in OpToRel(<, Nat))
    <3>1. Bad \subseteq Nat
      BY EvalAssumption
    <3> QED BY <3>1, <1>7, WFMin, NatLessThanWellFounded, Zenon
  <2>2. m \in 0..EvalFuse /\ h[m] \notin S
    BY <2>1
  <2>3. m # 0
    BY <1>1, <1>6, <2>2
  <2>4. m - 1 \in 0..EvalFuse /\ m - 1 \in Nat /\ m \in Nat /\ m - 1 < m
    BY <2>2, <2>3, EvalAssumption
  <2>5. m - 1 \notin Bad
    BY <2>1, <2>4 DEF OpToRel
  <2>6. h[m - 1] \in S
    BY <2>4, <2>5
  <2>7. h[m] = After(cmds)[h[m - 1]]
    BY <1>6, <2>2, <2>3
  <2> QED BY <1>1, <2>2, <2>6, <2>7
<1>8. \A k \in 0..EvalFuse : h[k] \in S
  BY <1>7
<1>9. h \in [0..EvalFuse -> S]
  BY <1>6, <1>8
<1> QED BY <1>9 DEF h

LEMMA EvalBlockTypes ==
  ASSUME NEW r \in RegTypes, NEW cmds \in Seq(Commands)
  PROVE  /\ EvalBlock(cmds, r).regs \in RegTypes
         /\ EvalBlock(cmds, r).link \in {NoLink} \union LinkTypes
<1>1. [regs |-> r, line |-> 1, link |-> NoLink] \in Standings
  BY DEF Standings
<1>2. ASSUME NEW at \in Standings
      PROVE  After(cmds)[at] \in Standings
  <2>1. at.regs \in RegTypes /\ at.line \in Nat \ {0}
    BY DEF Standings
  <2>2. CASE at.link # NoLink \/ at.line > Len(cmds)
    BY <2>2 DEF After
  <2>3. CASE ~(at.link # NoLink \/ at.line > Len(cmds))
    <3> DEFINE e == EvalCommand(cmds[at.line], at.regs)
    <3>1. cmds[at.line] \in Commands
      <4>1. at.line \in 1..Len(cmds)
        BY <2>1, <2>3
      <4> QED BY <4>1, ElementOfSeq
    <3>2. e.regs \in RegTypes /\ e.line \in Nat /\ e.link \in {NoLink} \union LinkTypes
      BY <2>1, <3>1, EvalCommandTypes
    <3>3. After(cmds)[at] =
            [regs |-> e.regs, line |-> IF e.line > 0 THEN e.line ELSE at.line + 1, link |-> e.link]
      BY <2>3 DEF After, NextStanding
    <3> HIDE DEF e
    <3> QED BY <2>1, <3>2, <3>3 DEF Standings
  <2> QED BY <2>2, <2>3
<1>3. Course(cmds, r) \in [0..EvalFuse -> Standings]
  BY <1>1, <1>2, CourseStays
<1>4. Course(cmds, r)[EvalFuse] \in Standings
  BY <1>3, EvalAssumption
<1> QED BY <1>4 DEF EvalBlock, Outcome, Standings

\* A block without commands does nothing.
LEMMA EvalNothing ==
  ASSUME NEW r \in RegTypes
  PROVE  EvalBlock(<<>>, r) = [regs |-> r, link |-> NoLink]
<1> DEFINE s0 == [regs |-> r, line |-> 1, link |-> NoLink]
           S  == {s0}
<1>1. s0 \in Standings
  BY DEF Standings
<1>2. \A at \in S : After(<<>>)[at] \in S
  <2>1. s0.line > Len(<<>>)
    OBVIOUS
  <2> HIDE DEF s0
  <2> QED BY <1>1, <2>1 DEF After
<1>3. s0 \in S /\ S \subseteq Standings
  BY <1>1
<1> HIDE DEF S
<1>4. Course(<<>>, r) \in [0..EvalFuse -> S]
  BY <1>2, <1>3, CourseStays
<1>5. Course(<<>>, r)[EvalFuse] = s0
  BY <1>4, EvalAssumption DEF S
<1> QED BY <1>5 DEF EvalBlock, Outcome

(***************************************************************************)
(* What a disc holds.                                                       *)
(***************************************************************************)
LEMMA LeastPlace ==
  ASSUME NEW S \in SUBSET Nat, S # {}
  PROVE  Min(S) \in S
<1>1. PICK m \in S : \A y \in S : ~(<<y, m>> \in OpToRel(<, Nat))
  BY WFMin, NatLessThanWellFounded, Zenon
<1>2. \A y \in S : ~(y < m)
  BY <1>1, Zenon DEF OpToRel
<1>3. \A y \in S : m =< y
  BY <1>2
<1> QED BY <1>3 DEF Min

LEMMA InNumbers ==
  ASSUME NEW x \in Int, 0 =< x, x =< NumberMax
  PROVE  x \in Numbers
<1>1. NumberMax \in Int
  BY DEF NumberMax
<1> QED BY <1>1 DEF Numbers

LEMMA OfNumbers ==
  ASSUME NEW x \in Numbers
  PROVE  x \in Nat /\ x =< NumberMax /\ x \in Words
<1>1. x \in Nat /\ x =< NumberMax
  BY DEF Numbers, NumberMax
<1>2. NumberMax =< RegMax /\ RegMax \in Int /\ NumberMax \in Int
  BY DEF RegMax, NumberMax
<1> QED BY <1>1, <1>2, InWords

LEMMA PitTypes ==
  ASSUME disc \in Discs, NEW d \in Menus \union {"TT"}, NEW v
  PROVE  Pit(d, v) \in Pgcits
<1>1. disc \in DiscTypes
  BY DiscAssumption
<1>2. disc.vmgm \in Pgcits /\ disc.vtsm \in Seq(Pgcits) /\ disc.tt \in Seq(Pgcits)
  BY <1>1 DEF DiscTypes
<1>3. <<>> \in Pgcits
  <2>1. Len(<<>>) \in Numbers
    <3>1. 0 =< NumberMax
      BY DEF NumberMax
    <3> QED BY <3>1, InNumbers
  <2> QED BY <2>1 DEF Pgcits
<1> HIDE DEF Pgcits
<1>4. \A i \in DOMAIN disc.vtsm : disc.vtsm[i] \in Pgcits
  BY <1>2
<1>5. \A i \in DOMAIN disc.tt : disc.tt[i] \in Pgcits
  BY <1>2
<1> QED BY <1>2, <1>3, <1>4, <1>5 DEF Pit, Menus

LEMMA EntryTypes ==
  ASSUME NEW pit \in Pgcits, NEW n \in 1..Len(pit)
  PROVE  pit[n].pgc \in PgcTypes /\ n \in Numbers
<1>1. pit \in Seq([id : 0..127, pgc : PgcTypes]) /\ Len(pit) \in Numbers
  BY DEF Pgcits
<1>2. pit[n] \in [id : 0..127, pgc : PgcTypes]
  BY <1>1, ElementOfSeq
<1>3. n \in Numbers
  <2>1. Len(pit) \in Nat /\ Len(pit) =< NumberMax /\ NumberMax \in Int
    BY <1>1, OfNumbers DEF NumberMax
  <2> QED BY <2>1, InNumbers
<1> QED BY <1>2, <1>3

LEMMA PickRange ==
  ASSUME NEW pit \in Pgcits, NEW id
  PROVE  /\ Pick(pit, id) \in Nat \ {0}
         /\ pit # <<>> => Pick(pit, id) \in 1..Len(pit)
<1> DEFINE I == {i \in 1..Len(pit) : id # 0 /\ pit[i].id = id}
           i == SelectInSeq(pit, LAMBDA e : id # 0 /\ e.id = id)
<1>1. Len(pit) \in Nat /\ (pit # <<>> => Len(pit) > 0)
  BY DEF Pgcits
<1>2. i = IF I # {} THEN Min(I) ELSE 0
  BY DEF SelectInSeq
<1>3. I # {} => Min(I) \in I
  <2>1. I \in SUBSET Nat
    BY <1>1
  <2> QED BY <2>1, LeastPlace
<1>4. i = 0 \/ i \in 1..Len(pit)
  BY <1>2, <1>3
<1>5. Pick(pit, id) = IF i = 0 THEN 1 ELSE i
  BY DEF Pick
<1> HIDE DEF i
<1> QED BY <1>1, <1>4, <1>5

LEMMA PgcIsOne ==
  ASSUME disc \in Discs, NEW d \in Menus \union {"TT"}, NEW v, NEW n \in 1..Len(Pit(d, v))
  PROVE  Pgc(<<d, v, n>>) \in PgcTypes
<1>1. Pit(d, v) \in Pgcits
  BY PitTypes
<1>3. Pit(d, v)[n].pgc \in PgcTypes
  BY <1>1, EntryTypes
<1>2. d # "FP"
  BY DEF Menus
<1> QED BY <1>2, <1>3 DEF Pgc

LEMMA FirstPlayIsOne ==
  ASSUME disc \in Discs, disc.fp # Null
  PROVE  Pgc(<<"FP", 0, 0>>) \in PgcTypes
<1>1. disc.fp \in {<<>>} \union [{1} -> PgcTypes]
  BY DiscAssumption DEF DiscTypes
<1> QED BY <1>1 DEF Pgc, Null

LEMMA NowIsPgc ==
  ASSUME VmTypes, loaded # Null
  PROVE  Now \in PgcTypes
<1>1. disc \in Discs
  BY DEF VmTypes
<1>2. CASE loaded = <<"FP", 0, 0>> /\ disc.fp # Null
  BY <1>1, <1>2, FirstPlayIsOne DEF Now
<1>3. CASE loaded \in (Menus \union {"TT"}) \X Nat \X Numbers /\ loaded[3] \in 1..Len(Pit(loaded[1], loaded[2]))
  <2>1. PICK d \in Menus \union {"TT"}, v \in Nat, n \in Numbers : loaded = <<d, v, n>>
    BY <1>3
  <2>2. n \in 1..Len(Pit(d, v))
    BY <1>3, <2>1
  <2> QED BY <1>1, <2>1, <2>2, PgcIsOne DEF Now
<1> QED BY <1>2, <1>3 DEF VmTypes

\* What the fields of a PGC hold.
LEMMA PgcFields ==
  ASSUME NEW p \in PgcTypes
  PROVE  /\ p.pre \in Seq(Commands) /\ p.post \in Seq(Commands)
         /\ p.cellc \in Seq(Commands) /\ p.buttons \in Seq(Commands)
         /\ p.pm \in Seq(1..255) /\ Len(p.pm) \in Nat /\ Len(p.cells) \in Nat
         /\ p.next \in Numbers /\ p.prev \in Numbers /\ p.goup \in Numbers
         /\ p.cells \in Seq([still : 0..255, cmd : 0..255])
<1>1. /\ p.pre \in Seq(Commands) /\ p.post \in Seq(Commands)
      /\ p.cellc \in Seq(Commands) /\ p.buttons \in Seq(Commands)
      /\ p.pm \in Seq(1..255) /\ p.cells \in Seq([still : 0..255, cmd : 0..255])
  BY DEF PgcTypes
<1>2. p.next \in Numbers /\ p.prev \in Numbers /\ p.goup \in Numbers
  BY DEF PgcTypes
<1> QED BY <1>1, <1>2, LenProperties

LEMMA CellIsNat ==
  ASSUME NEW p \in PgcTypes, NEW n
  PROVE  FirstCell(p, n) \in Nat
<1>1. p.pm \in Seq(1..255) /\ Len(p.pm) \in Nat
  BY PgcFields
<1>2. p.pm # <<>> => p.pm[Len(p.pm)] \in 1..255
  <2>1. p.pm # <<>> => Len(p.pm) \in 1..Len(p.pm)
    BY <1>1, EmptySeq
  <2> QED BY <1>1, <2>1, ElementOfSeq
<1>3. n \in DOMAIN p.pm => p.pm[n] \in 1..255
  BY <1>1, LenProperties, ElementOfSeq
<1> DEFINE c == CASE n = LastPg /\ p.pm # <<>> -> Last(p.pm) - 1
                 [] n \in DOMAIN p.pm         -> p.pm[n] - 1
                 [] OTHER                     -> 0
<1>4. c \in Nat
  <2>1. p.pm # <<>> => Last(p.pm) - 1 \in Nat
    <3>1. Last(p.pm) = p.pm[Len(p.pm)]
      BY DEF Last
    <3>2. p.pm # <<>> => Last(p.pm) \in 1..255
      BY <1>2, <3>1
    <3>3. \A x \in 1..255 : x - 1 \in Nat
      OBVIOUS
    <3> QED BY <3>2, <3>3, Zenon
  <2>2. n \in DOMAIN p.pm => p.pm[n] - 1 \in Nat
    BY <1>3
  <2> QED BY <2>1, <2>2
<1>5. FirstCell(p, n) = IF c < Len(p.cells) THEN c ELSE 0
  BY DEF FirstCell
<1> HIDE DEF c
<1> QED BY <1>4, <1>5

(***************************************************************************)
(* The machine's types, with what is true between two things done.          *)
(***************************************************************************)
Steady ==
  /\ todo \in {Pre, Post} \union Commanded => loaded # Null
  /\ rest # Null => loaded # Null /\ event.kind = "play"
  /\ todo = Returned => alts = <<>>
  /\ dom # "TT" /\ loaded # Null => Whole
  /\ dom \in Menus => seen /\ loaded # Null
Sound == VmTypes /\ Steady

PlaceTypes == dom \in Domains /\ vts \in Nat /\ pgcn \in Numbers /\ cell \in Nat
LoadedTypes ==
  \/ loaded = Null
  \/ loaded = <<"FP", 0, 0>> /\ disc.fp # Null
  \/ /\ loaded \in (Menus \union {"TT"}) \X Nat \X Numbers
     /\ loaded[3] \in 1..Len(Pit(loaded[1], loaded[2]))
LastTypes ==
  \/ last = Null
  \/ last \in Menus \X Nat \X Numbers /\ last[3] \in 1..Len(Pit(last[1], last[2]))
RsmTypes == rsm = Null \/ rsm \in Positions
FlagTypes == came \in BOOLEAN /\ seen \in BOOLEAN /\ stopped \in BOOLEAN /\ ok \in BOOLEAN
TodoTypes == todo \in Tasks /\ alts \in Seq(Alternatives)

LEMMA TypeParts ==
  VmTypes <=> /\ disc \in Discs /\ PlaceTypes /\ LoadedTypes /\ regs \in RegTypes /\ RsmTypes
              /\ FlagTypes /\ LastTypes /\ (seen <=> last # Null) /\ fuse \in Nat /\ TodoTypes
BY DEF VmTypes, PlaceTypes, LoadedTypes, LastTypes, RsmTypes, FlagTypes, TodoTypes

LEMMA LoadedStays ==
  ASSUME LoadedTypes, UNCHANGED <<disc, loaded>>
  PROVE  LoadedTypes'
BY DEF LoadedTypes, Pit

LEMMA LastStays ==
  ASSUME LastTypes, UNCHANGED <<disc, last>>
  PROVE  LastTypes'
BY DEF LastTypes, Pit

LEMMA LoadedNow ==
  ASSUME UNCHANGED disc, NEW d \in Menus \union {"TT"}, NEW v \in Nat, NEW n \in Numbers,
         n \in 1..Len(Pit(d, v)), loaded' = <<d, v, n>>
  PROVE  LoadedTypes'
<1>1. loaded'[1] = d /\ loaded'[2] = v /\ loaded'[3] = n
  OBVIOUS
<1>2. loaded' \in (Menus \union {"TT"}) \X Nat \X Numbers
  OBVIOUS
<1> QED BY <1>1, <1>2 DEF LoadedTypes, Pit

LEMMA LastNow ==
  ASSUME UNCHANGED disc, NEW d \in Menus, NEW v \in Nat, NEW n \in Numbers,
         n \in 1..Len(Pit(d, v)), last' = <<d, v, n>>
  PROVE  LastTypes'
<1>1. last'[1] = d /\ last'[2] = v /\ last'[3] = n
  OBVIOUS
<1>2. last' \in Menus \X Nat \X Numbers
  OBVIOUS
<1> QED BY <1>1, <1>2 DEF LastTypes, Pit

(* How a step hands on: what is to be done next, and what else is left.     *)
Onward ==
  /\ TodoTypes' /\ ok' \in BOOLEAN
  /\ todo' \in {Pre, Post} \union Commanded => loaded # Null
  /\ todo' = Returned => alts' = <<>>

LEMMA Operations ==
  /\ Returned \notin {Pre, Post} \union Commanded
  /\ \A t \in Loads : t \in Tasks /\ t \in Alternatives /\ t.op = "load" /\ t # Returned
                      /\ t \notin {Pre, Post} \union Commanded
  /\ \A t \in Resumes : t \in Tasks /\ t \in Alternatives /\ t.op = "resume" /\ t # Returned
                        /\ t \notin {Pre, Post} \union Commanded
  /\ GoBack \in Tasks /\ GoBack # Returned /\ GoBack \notin {Pre, Post} \union Commanded
  /\ Fail \in Tasks /\ Fail # Returned /\ Fail \notin {Pre, Post} \union Commanded
BY DEF Tasks, Alternatives, Loads, Resumes, Commanded, Returned, Pre, Post, Fail, GoBack

LEMMA OnwardDone ==
  ASSUME Done
  PROVE  Onward
<1>1. Returned \in Tasks
  BY DEF Tasks
<1> QED BY <1>1, Operations, EmptySeq DEF Done, Onward, TodoTypes

LEMMA OnwardDo ==
  ASSUME Sound, NEW t \in Tasks, t # Returned, t \in {Pre, Post} \union Commanded => loaded # Null, Do(t)
  PROVE  Onward
BY TypeParts DEF Sound, Do, Onward, TodoTypes, FlagTypes

LEMMA OnwardJump ==
  ASSUME Sound, NEW l \in Loads, JumpTo(l)
  PROVE  Onward
<1>1. alts \in Seq(Alternatives) /\ ok \in BOOLEAN
  BY TypeParts DEF Sound, TodoTypes, FlagTypes
<1>2. <<LastMenu>> \in Seq(Alternatives)
  BY DEF Alternatives
<1>3. alts' \in Seq(Alternatives)
  BY <1>1, <1>2, ConcatProperties DEF JumpTo
<1> QED BY <1>1, <1>3, Operations DEF JumpTo, Onward, TodoTypes

(* A step that loads nothing.                                               *)
LEMMA Walks ==
  ASSUME Sound, Onward, UNCHANGED <<disc, vts, pgcn, loaded, seen, last>>,
         dom' = dom \/ dom' = "TT", cell' \in Nat, regs' \in RegTypes, RsmTypes',
         came' \in BOOLEAN, stopped' \in BOOLEAN, fuse' \in Nat,
         rest' # Null => loaded # Null /\ event'.kind = "play"
  PROVE  Sound'
<1>1. LoadedTypes' /\ LastTypes' /\ (seen <=> last # Null)'
  BY TypeParts, LoadedStays, LastStays DEF Sound
<1>2. PlaceTypes' /\ FlagTypes'
  BY TypeParts DEF Sound, PlaceTypes, FlagTypes, Onward, Domains
<1>3. (disc \in Discs)' /\ TodoTypes'
  BY TypeParts DEF Sound, Onward
<1>4. VmTypes'
  BY <1>1, <1>2, <1>3 DEF VmTypes, PlaceTypes, LoadedTypes, LastTypes, RsmTypes, FlagTypes, TodoTypes
<1>5. Steady'
  BY DEF Sound, Steady, Onward, Whole, Menus
<1> QED BY <1>4, <1>5 DEF Sound

LEMMA WorkTypes ==
  ASSUME Sound, Onward, UNCHANGED <<disc, vts, pgcn, loaded, rsm, came, seen, last, rest, event>>,
         dom' = dom \/ dom' = "TT", cell' \in Nat, regs' \in RegTypes,
         stopped' \in BOOLEAN, fuse' \in Nat
  PROVE  Sound'
<1>1. RsmTypes'
  BY TypeParts DEF Sound, RsmTypes
<1>2. came' \in BOOLEAN
  BY TypeParts DEF Sound, FlagTypes
<1>3. rest' # Null => loaded # Null /\ event'.kind = "play"
  BY DEF Sound, Steady
<1> QED BY <1>1, <1>2, <1>3, Walks

\* What the unprimed types say of one variable.
LEMMA Typed ==
  ASSUME Sound
  PROVE  /\ disc \in Discs /\ dom \in Domains /\ vts \in Nat /\ pgcn \in Numbers /\ cell \in Nat
         /\ regs \in RegTypes /\ (rsm = Null \/ rsm \in Positions)
         /\ came \in BOOLEAN /\ seen \in BOOLEAN /\ stopped \in BOOLEAN /\ ok \in BOOLEAN
         /\ fuse \in Nat /\ todo \in Tasks /\ alts \in Seq(Alternatives) /\ (seen <=> last # Null)
BY DEF Sound, VmTypes

LEMMA NowSound ==
  ASSUME Sound, loaded # Null
  PROVE  Now \in PgcTypes
BY NowIsPgc DEF Sound

LEMMA LoadFailedTypes ==
  ASSUME Sound, LoadFailed
  PROVE  Sound'
<1>1. Onward
  BY OnwardDo, Operations DEF LoadFailed
<1>2. fuse' \in Nat
  BY Typed DEF LoadFailed, Spend
<1>3. UNCHANGED <<disc, dom, vts, pgcn, loaded, cell, regs, rsm, came, seen, last, stopped, rest, event>>
  BY DEF LoadFailed, place, memory, history
<1> QED BY <1>1, <1>2, <1>3, Typed, WorkTypes

LEMMA TasksByOp ==
  ASSUME NEW t \in Tasks
  PROVE  /\ t.op = "load" => t \in Loads
         /\ t.op = "resume" => t \in Resumes
         /\ t.op = "link" => t \in Commanded \/ t = GoBack
         /\ t.op = "pre" => t = Pre
         /\ t.op = "post" => t = Post
BY DEF Tasks, Loads, Resumes, Commanded, Returned, Pre, Post, Fail, GoBack

LEMMA NumberTypes ==
  ASSUME disc \in Discs, NEW l \in Loads, l.dom # "FP", Exists(l)
  PROVE  /\ Number(l) \in 1..Len(Pit(l.dom, l.vts))
         /\ Number(l) \in Numbers /\ l.dom \in Menus \union {"TT"} /\ l.vts \in Nat
         /\ Pgc(<<l.dom, l.vts, Number(l)>>) \in PgcTypes
<1>1. Number(l) \in 1..Len(Pit(l.dom, l.vts)) /\ l.dom \in Menus \union {"TT"} /\ l.vts \in Nat
  BY DEF Exists, Loads, Domains
<1>2. Pit(l.dom, l.vts) \in Pgcits
  BY <1>1, PitTypes
<1> QED BY <1>1, <1>2, EntryTypes, PgcIsOne

LEMMA LoadPgcTypes ==
  ASSUME Sound, LoadPgc
  PROVE  Sound'
<1>1. todo \in Loads
  BY Typed, TasksByOp DEF LoadPgc, Doing
<1>2. disc' = disc /\ rsm' = rsm /\ stopped' = stopped /\ rest' = rest /\ event' = event
      /\ fuse' = fuse + 1 /\ dom' = todo.dom /\ todo' = Pre /\ alts' = alts /\ ok' = ok
      /\ Exists(todo)
  BY DEF LoadPgc, Spend, Do
<1>3. fuse' \in Nat /\ TodoTypes' /\ RsmTypes' /\ ok' \in BOOLEAN /\ stopped' \in BOOLEAN /\ disc' \in Discs
  BY <1>2, Typed DEF TodoTypes, RsmTypes, Tasks
<1>4. CASE todo.dom = "FP"
  <2>1. loaded' = <<"FP", 0, 0>> /\ vts' = 0 /\ pgcn' = 0 /\ UNCHANGED <<cell, regs, came, seen, last>>
    BY <1>4 DEF LoadPgc
  <2>2. disc.fp # Null
    BY <1>2, <1>4 DEF Exists
  <2>3. PlaceTypes'
    <3>1. 0 \in Numbers
      BY DEF Numbers, NumberMax
    <3> QED BY <1>2, <1>4, <2>1, <3>1, Typed DEF PlaceTypes, Domains
  <2>4. LoadedTypes'
    BY <1>2, <2>1, <2>2 DEF LoadedTypes
  <2>5. LastTypes' /\ (seen <=> last # Null)' /\ FlagTypes' /\ (regs \in RegTypes)'
    BY <1>2, <1>3, <2>1, TypeParts, LastStays DEF Sound, FlagTypes
  <2>6. VmTypes'
    BY <1>3, <2>3, <2>4, <2>5 DEF VmTypes, PlaceTypes, LoadedTypes, LastTypes, RsmTypes, FlagTypes, TodoTypes
  <2>7. Steady'
    <3>1. loaded' # Null
      BY <2>1 DEF Null
    <3> QED BY <1>2, <1>4, <2>1, <3>1, Operations DEF Sound, Steady, Whole, Menus, Pre, Returned
  <2> QED BY <2>6, <2>7 DEF Sound
<1>5. CASE todo.dom # "FP"
  <2> DEFINE n == Number(todo)
             key == <<todo.dom, todo.vts, n>>
  <2>1. /\ n \in 1..Len(Pit(todo.dom, todo.vts)) /\ n \in Numbers
        /\ todo.dom \in Menus \union {"TT"} /\ todo.vts \in Nat /\ Pgc(key) \in PgcTypes
    BY <1>1, <1>2, <1>5, Typed, NumberTypes
  <2>2. /\ vts' = todo.vts /\ pgcn' = n /\ loaded' = key /\ cell' = FirstCell(Pgc(key), todo.pgn)
        /\ seen' = (seen \/ todo.dom \in Menus)
        /\ last' = IF todo.dom \in Menus THEN key ELSE last
        /\ regs' = IF todo.dom = "TT" THEN [regs EXCEPT !.s[6] = n] ELSE regs
        /\ came' = (came /\ todo.dom # "TT")
    BY <1>5 DEF LoadPgc
  <2> HIDE DEF n
  <2>3. PlaceTypes'
    BY <1>2, <2>1, <2>2, CellIsNat DEF PlaceTypes, Domains
  <2>4. LoadedTypes'
    BY <1>2, <2>1, <2>2, LoadedNow
  <2>5. LastTypes'
    <3>1. CASE todo.dom \in Menus
      BY <1>2, <2>1, <2>2, <3>1, LastNow
    <3>2. CASE todo.dom \notin Menus
      BY <1>2, <2>2, <3>2, TypeParts, LastStays DEF Sound
    <3> QED BY <3>1, <3>2
  <2>6. (seen <=> last # Null)' /\ FlagTypes'
    BY <1>2, <1>3, <2>2, Typed DEF FlagTypes, Null
  <2>7. regs' \in RegTypes
    <3>1. [regs EXCEPT !.s[6] = n] \in RegTypes
      <4>1. n \in Words /\ 6 \in Sprms
        BY <2>1, OfNumbers DEF Sprms
      <4> QED BY <4>1, Typed, SprmSet
    <3> QED BY <2>2, <3>1, Typed
  <2>8. VmTypes'
    BY <1>3, <2>3, <2>4, <2>5, <2>6, <2>7
    DEF VmTypes, PlaceTypes, LoadedTypes, LastTypes, RsmTypes, FlagTypes, TodoTypes
  <2>9. Steady'
    <3>1. loaded' # Null
      BY <2>2 DEF Null
    <3> QED BY <1>2, <2>2, <3>1, Operations DEF Sound, Steady, Whole, Menus, Pre, Returned
  <2> QED BY <2>8, <2>9 DEF Sound
<1> QED BY <1>4, <1>5

LEMMA ResumeTitleTypes ==
  ASSUME Sound, ResumeTitle
  PROVE  Sound'
<1>1. todo \in Resumes
  BY Typed, TasksByOp DEF ResumeTitle, Doing
<1>2. dom' = "TT" /\ UNCHANGED <<disc, rsm, came, seen, last, fuse, stopped, rest, event>>
  BY DEF ResumeTitle, memory
<1>3. CASE todo.pgcn \in 1..Len(Pit("TT", todo.vts))
  <2> DEFINE n == todo.pgcn
  <2>1. /\ vts' = todo.vts /\ pgcn' = n /\ cell' = todo.cell
        /\ loaded' = <<"TT", todo.vts, n>> /\ regs' = [regs EXCEPT !.s[6] = n]
        /\ IF todo.pre THEN Do(Pre) ELSE Done
    BY <1>3 DEF ResumeTitle
  <2>2. todo.vts \in Nat /\ todo.cell \in Nat
    BY <1>1 DEF Resumes
  <2>3. Pit("TT", todo.vts) \in Pgcits
    BY Typed, PitTypes
  <2>4. n \in Numbers
    BY <1>3, <2>3, EntryTypes
  <2>5. PlaceTypes' /\ LoadedTypes'
    <3>1. PlaceTypes'
      BY <1>2, <2>1, <2>2, <2>4 DEF PlaceTypes, Domains
    <3>2. LoadedTypes'
      BY <1>2, <1>3, <2>1, <2>2, <2>4, LoadedNow
    <3> QED BY <3>1, <3>2
  <2>6. regs' \in RegTypes
    <3>1. n \in Words /\ 6 \in Sprms
      BY <2>4, OfNumbers DEF Sprms
    <3> QED BY <2>1, <3>1, Typed, SprmSet
  <2>7. Pre \in Tasks /\ Returned \in Tasks /\ Pre # Returned
    BY DEF Tasks, Pre, Returned
  <2>8. TodoTypes' /\ ok' \in BOOLEAN /\ (todo' = Returned => alts' = <<>>)
    BY <2>1, <2>7, Typed, EmptySeq DEF Do, Done, TodoTypes
  <2>9. LastTypes' /\ (seen <=> last # Null)' /\ RsmTypes' /\ FlagTypes'
    BY <1>2, <2>8, TypeParts, LastStays DEF Sound, RsmTypes, FlagTypes
  <2>10. VmTypes'
    <3>1. (disc \in Discs)' /\ (fuse \in Nat)'
      BY <1>2, Typed
    <3> QED BY <3>1, <2>5, <2>6, <2>8, <2>9
        DEF VmTypes, PlaceTypes, LoadedTypes, LastTypes, RsmTypes, FlagTypes, TodoTypes
  <2>11. Steady'
    <3>1. loaded' # Null
      BY <2>1 DEF Null
    <3> QED BY <1>2, <2>8, <3>1 DEF Sound, Steady, Menus
  <2> QED BY <2>10, <2>11 DEF Sound
<1>4. CASE todo.pgcn \notin 1..Len(Pit("TT", todo.vts))
  <2>1. Do(Fail) /\ UNCHANGED <<vts, pgcn, cell, loaded, regs>>
    BY <1>4 DEF ResumeTitle
  <2>2. Onward
    BY <2>1, OnwardDo, Operations
  <2> QED BY <1>2, <2>1, <2>2, Typed, WorkTypes
<1> QED BY <1>3, <1>4

LEMMA FollowTypes ==
  ASSUME NEW l \in {NoLink} \union LinkTypes, l # NoLink
  PROVE  Follow(l) \in Commanded /\ Follow(l) \in Tasks /\ Follow(l) # Returned
BY DEF Follow, Commanded, Tasks, Returned

LEMMA OnwardFollow ==
  ASSUME Sound, loaded # Null, NEW l \in {NoLink} \union LinkTypes, l # NoLink, Do(Follow(l))
  PROVE  Onward
BY FollowTypes, OnwardDo

LEMMA OnwardPost ==
  ASSUME Sound, loaded # Null, Do(Post)
  PROVE  Onward
<1>1. Post \in Tasks /\ Post # Returned
  BY DEF Post, Tasks, Returned
<1> QED BY <1>1, OnwardDo

LEMMA OnwardFail ==
  ASSUME Sound, Do(Fail)
  PROVE  Onward
BY Operations, OnwardDo

LEMMA RunPreTypes ==
  ASSUME Sound, RunPre
  PROVE  Sound'
<1> DEFINE e == EvalBlock(Now.pre, regs)
<1>1. loaded # Null
  <2>1. todo = Pre
    BY Typed, TasksByOp DEF RunPre, Doing
  <2> QED BY <2>1 DEF Sound, Steady
<1>2. e.regs \in RegTypes /\ e.link \in {NoLink} \union LinkTypes
  BY <1>1, NowSound, PgcFields, Typed, EvalBlockTypes
<1>3. /\ regs' = e.regs
      /\ \/ e.link # NoLink /\ Do(Follow(e.link))
         \/ Do(Post)
         \/ Do(Fail)
         \/ Done
  BY DEF RunPre
<1>4. UNCHANGED <<disc, dom, vts, pgcn, loaded, cell, rsm, came, seen, last, fuse, stopped, rest, event>>
  BY DEF RunPre, place, memory, history
<1> HIDE DEF e
<1>5. Onward
  BY <1>1, <1>2, <1>3, OnwardFollow, OnwardPost, OnwardFail, OnwardDone
<1> QED BY <1>2, <1>3, <1>4, <1>5, Typed, WorkTypes

LEMMA LoadPgcnTypes ==
  ASSUME NEW d \in Domains, NEW v \in Nat, NEW n \in Numbers
  PROVE  LoadPgcn(d, v, n) \in Loads
<1>1. 0 \in Numbers
  BY DEF Numbers, NumberMax
<1> QED BY <1>1 DEF LoadPgcn, Load, Loads

LEMMA OnwardLoad ==
  ASSUME Sound, NEW l \in Loads, Do(l)
  PROVE  Onward
BY OnwardDo, Operations

LEMMA RunPostTypes ==
  ASSUME Sound, RunPost
  PROVE  Sound'
<1> DEFINE e == EvalBlock(Now.post, regs)
<1>1. loaded # Null
  <2>1. todo = Post
    BY Typed, TasksByOp DEF RunPost, Doing
  <2> QED BY <2>1 DEF Sound, Steady
<1>2. e.regs \in RegTypes /\ e.link \in {NoLink} \union LinkTypes
  BY <1>1, NowSound, PgcFields, Typed, EvalBlockTypes
<1>3. LoadPgcn(dom, vts, Now.next) \in Loads
  BY <1>1, NowSound, PgcFields, Typed, LoadPgcnTypes
<1>4. /\ regs' = e.regs
      /\ \/ e.link # NoLink /\ Do(Follow(e.link)) /\ UNCHANGED stopped
         \/ Do(LoadPgcn(dom, vts, Now.next)) /\ UNCHANGED stopped
         \/ Stops
  BY DEF RunPost
<1>5. UNCHANGED <<disc, dom, vts, pgcn, loaded, cell, rsm, came, seen, last, fuse, rest, event>>
  BY DEF RunPost, place, memory, history
<1> HIDE DEF e
<1>6. Onward /\ stopped' \in BOOLEAN
  BY <1>1, <1>2, <1>3, <1>4, Typed, OnwardFollow, OnwardLoad, OnwardDone DEF Stops
<1> QED BY <1>2, <1>4, <1>5, <1>6, Typed, WorkTypes

LEMMA LastMenuTypes ==
  ASSUME Sound, last # Null
  PROVE  /\ LoadPgcn(last[1], last[2], last[3]) \in Loads
         /\ last[1] \in Menus
         /\ Exists(LoadPgcn(last[1], last[2], last[3]))
<1>1. last \in Menus \X Nat \X Numbers /\ last[3] \in 1..Len(Pit(last[1], last[2]))
  BY TypeParts DEF Sound, LastTypes
<1>2. last[1] \in Menus /\ last[1] \in Domains /\ last[2] \in Nat /\ last[3] \in Numbers /\ last[1] # "FP"
  BY <1>1 DEF Domains, Menus
<1>3. last[3] # 0
  BY <1>1
<1> QED BY <1>1, <1>2, <1>3, LoadPgcnTypes DEF Exists, Number, LoadPgcn, Load

LEMMA RecoverTypes ==
  ASSUME Sound, Recover
  PROVE  Sound'
<1>1. UNCHANGED <<disc, dom, vts, pgcn, loaded, cell, regs, rsm, came, seen, last, fuse, stopped, rest, event>>
  BY DEF Recover, place, memory, history
<1>2. Onward
  <2>1. CASE alts = <<>>
    <3>1. todo' = Returned /\ ok' = FALSE /\ alts' = <<>>
      BY <2>1 DEF Recover
    <3>2. Returned \in Tasks
      BY DEF Tasks
    <3> QED BY <3>1, <3>2, Operations, EmptySeq DEF Onward, TodoTypes
  <2>2. CASE alts # <<>>
    <3>1. /\ alts' = Tail(alts) /\ ok' = ok
          /\ todo' = IF Head(alts) # LastMenu THEN Head(alts)
                     ELSE IF last # Null THEN LoadPgcn(last[1], last[2], last[3])
                     ELSE Fail
      BY <2>2 DEF Recover
    <3>2. Head(alts) \in Alternatives /\ Tail(alts) \in Seq(Alternatives)
      BY <2>2, Typed, HeadTailProperties
    <3>3. todo' \in Loads \union Resumes \union {GoBack, Fail}
      BY <3>1, <3>2, LastMenuTypes DEF Alternatives
    <3> QED BY <3>1, <3>2, <3>3, Typed, Operations DEF Onward, TodoTypes
  <2> QED BY <2>1, <2>2
<1> QED BY <1>1, <1>2, Typed, WorkTypes

(***************************************************************************)
(* The links.                                                               *)
(***************************************************************************)
LEMMA LinkFields ==
  ASSUME NEW l \in LinkTypes
  PROVE  /\ l.d1 \in Numbers /\ l.d2 \in 0..1023 /\ l.d3 \in Numbers /\ l.d2 \in Numbers
         /\ l.cmd \in SubLinks => l.d1 \in 0..63
         /\ l.cmd \in PartLinks => l.d2 \in 0..63
         /\ l.d1 \in Nat
<1>1. 1023 =< NumberMax /\ NumberMax \in Int
  BY DEF NumberMax
<1>2. \A x \in 0..1023 : x \in Numbers
  BY <1>1, InNumbers
<1>3. CASE l \in [cmd : SubLinks, d1 : 0..63, d2 : {0}, d3 : {0}]
  <2>1. l.cmd \in SubLinks /\ l.d1 \in 0..63 /\ l.d2 = 0 /\ l.d3 = 0
    BY <1>3
  <2> QED BY <1>2, <2>1 DEF SubLinks, PartLinks
<1>4. CASE l \in [cmd : PartLinks, d1 : 0..1023, d2 : 0..63, d3 : {0}]
  <2>1. l.cmd \in PartLinks /\ l.d1 \in 0..1023 /\ l.d2 \in 0..63 /\ l.d3 = 0
    BY <1>4
  <2>2. l.d1 \in Numbers /\ l.d2 \in 0..1023 /\ l.d2 \in Numbers /\ l.d3 \in Numbers
    BY <1>2, <2>1
  <2>3. l.cmd \notin SubLinks
    BY <2>1 DEF SubLinks, PartLinks
  <2>4. l.d1 \in Nat
    BY <2>1
  <2> QED BY <2>1, <2>2, <2>3, <2>4
<1>5. CASE l \in [cmd : JumpLinks, d1 : Numbers, d2 : 0..1023, d3 : 0..15]
  <2>1. l.cmd \in JumpLinks /\ l.d1 \in Numbers /\ l.d2 \in 0..1023 /\ l.d3 \in 0..15
    BY <1>5
  <2>2. l.d3 \in 0..1023
    BY <2>1
  <2>3. l.cmd \notin SubLinks /\ l.cmd \notin PartLinks
    BY <2>1 DEF JumpLinks, SubLinks, PartLinks
  <2> QED BY <1>2, <2>1, <2>2, <2>3, OfNumbers
<1> QED BY <1>3, <1>4, <1>5 DEF LinkTypes

LEMMA ButtonTypes ==
  ASSUME NEW r \in RegTypes, NEW n \in 0..63
  PROVE  WithButton(r, n) \in RegTypes
<1>1. Button(n) \in Int /\ 0 =< Button(n) /\ Button(n) =< 64512
  BY DEF Button
<1>2. 64512 =< RegMax /\ RegMax \in Int
  BY DEF RegMax
<1>3. Button(n) \in Words
  BY <1>1, <1>2, InWords
<1>4. [r EXCEPT !.s[8] = Button(n)] \in RegTypes
  BY <1>3, SprmSet DEF Sprms
<1> QED BY <1>4 DEF WithButton

\* A link that is not the Menu key's own comes from a PGC in memory.
LEMMA LinkIs ==
  ASSUME Sound, Doing("link")
  PROVE  /\ todo.link \in LinkTypes
         /\ todo.link.cmd # "LinkRSM" => loaded # Null
<1>1. todo \in Commanded \/ todo = GoBack
  BY Typed, TasksByOp DEF Doing
<1>2. CASE todo \in Commanded
  BY <1>2 DEF Sound, Steady, Commanded
<1>3. CASE todo = GoBack
  <2>1. todo.link = [cmd |-> "LinkRSM", d1 |-> 0, d2 |-> 0, d3 |-> 0]
    BY <1>3 DEF GoBack
  <2>2. todo.link \in [cmd : SubLinks, d1 : 0..63, d2 : {0}, d3 : {0}]
    BY <2>1 DEF SubLinks
  <2> QED BY <2>1, <2>2 DEF LinkTypes
<1> QED BY <1>1, <1>2, <1>3

LEMMA LinkStayTypes ==
  ASSUME Sound, LinkStay
  PROVE  Sound'
<1>1. todo.link \in LinkTypes /\ todo.link.cmd \in SubLinks
  BY LinkIs DEF LinkStay, Linking, Link, SubLinks
<1>2. regs' \in RegTypes
  <2>1. todo.link.d1 \in 0..63
    BY <1>1, LinkFields
  <2>2. regs' = WithButton(regs, todo.link.d1)
    BY DEF LinkStay, Link
  <2> QED BY <2>1, <2>2, ButtonTypes, Typed
<1>3. UNCHANGED <<disc, dom, vts, pgcn, loaded, cell, rsm, came, seen, last, fuse, stopped, rest, event>>
  BY DEF LinkStay, place, memory, history
<1>4. Onward
  BY OnwardDone DEF LinkStay
<1> QED BY <1>2, <1>3, <1>4, Typed, WorkTypes

LEMMA LinkCellTypes ==
  ASSUME Sound, LinkCell
  PROVE  Sound'
<1> DEFINE n == IF Link.cmd = "LinkCN" THEN Link.d2 ELSE Link.d1
<1>1. /\ todo.link \in LinkTypes /\ loaded # Null
      /\ IF Link.cmd = "LinkCN" THEN Link.cmd \in PartLinks ELSE Link.cmd \in SubLinks
      /\ Link.cmd \in {"LinkNextC", "LinkPrevC", "LinkCN"}
  BY LinkIs DEF LinkCell, Linking, Link, SubLinks, PartLinks
<1>2. n \in 0..63
  BY <1>1, LinkFields DEF Link
<1>3. regs' \in RegTypes
  BY <1>2, ButtonTypes, Typed DEF LinkCell
<1>4. cell' \in Nat
  <2>1. cell \in Nat /\ Link.d1 \in Nat
    BY <1>1, LinkFields, Typed DEF Link
  <2>2. cell' = CASE Link.cmd = "LinkNextC" -> cell + 1
               [] Link.cmd = "LinkPrevC" -> Greatest(cell - 1, 0)
               [] Link.cmd = "LinkCN"    -> Greatest(Link.d1 - 1, 0)
    BY DEF LinkCell
  <2>3. \A x \in Nat : x + 1 \in Nat /\ Greatest(x - 1, 0) \in Nat
    BY DEF Greatest
  <2> QED BY <1>1, <2>1, <2>2, <2>3
<1>5. UNCHANGED <<disc, dom, vts, pgcn, loaded, rsm, came, seen, last, fuse, stopped, rest, event>>
  BY DEF LinkCell, memory, history
<1>6. Onward
  BY <1>1, OnwardDone, OnwardPost DEF LinkCell
<1> QED BY <1>3, <1>4, <1>5, <1>6, Typed, WorkTypes

LEMMA LargestPlace ==
  ASSUME NEW n \in Nat, NEW S \in SUBSET (1..n), S # {}
  PROVE  \E m \in S : \A j \in S : j =< m
<1> DEFINE T == {n - x : x \in S}
<1>1. T \in SUBSET Nat /\ T # {}
  <2>1. \A x \in S : n - x \in Nat
    OBVIOUS
  <2> QED BY <2>1
<1>2. PICK m \in T : \A y \in T : ~(<<y, m>> \in OpToRel(<, Nat))
  BY <1>1, WFMin, NatLessThanWellFounded, Zenon
<1>3. \A y \in T : ~(y < m)
  BY <1>1, <1>2, Zenon DEF OpToRel
<1>4. PICK x \in S : m = n - x
  OBVIOUS
<1>5. \A j \in S : ~(n - j < n - x)
  BY <1>3, <1>4
<1>6. \A j \in S : j =< x
  BY <1>5
<1> QED BY <1>6

LEMMA ProgramHere ==
  ASSUME Sound, loaded # Null
  PROVE  PgOfCell(cell) \in Nat \ {0} /\ (Now.pm # <<>> => PgOfCell(cell) \in 1..Len(Now.pm))
<1> DEFINE at == {i \in DOMAIN Now.pm : cell >= Now.pm[i] - 1}
<1>1. Now.pm \in Seq(1..255) /\ Len(Now.pm) \in Nat /\ DOMAIN Now.pm = 1..Len(Now.pm)
  BY NowSound, PgcFields, LenProperties
<1>2. at \in SUBSET (1..Len(Now.pm))
  BY <1>1
<1>3. PgOfCell(cell) = IF at = {} THEN 1 ELSE CHOOSE i \in at : \A j \in at : j =< i
  BY DEF PgOfCell
<1>4. at # {} => PgOfCell(cell) \in at
  <2> HIDE DEF at
  <2>1. at # {} => \E i \in at : \A j \in at : j =< i
    BY <1>1, <1>2, LargestPlace
  <2> QED BY <1>3, <2>1
<1>5. Now.pm # <<>> => Len(Now.pm) \in Nat \ {0}
  BY <1>1, EmptySeq
<1>6. Now.pm # <<>> => 1 \in 1..Len(Now.pm)
  BY <1>5
<1> HIDE DEF at
<1>7. CASE at = {}
  BY <1>3, <1>6, <1>7
<1>8. CASE at # {}
  <2>1. PgOfCell(cell) \in 1..Len(Now.pm)
    BY <1>2, <1>4, <1>8
  <2> QED BY <1>1, <2>1
<1> QED BY <1>7, <1>8

LEMMA CellOfProgram ==
  ASSUME Sound, loaded # Null, NEW pg \in Nat, pg =< NrPgms
  PROVE  CellOfPg(pg) \in Nat
<1>1. Now.pm \in Seq(1..255) /\ Len(Now.pm) \in Nat
  BY NowSound, PgcFields
<1>2. \A x \in 1..255 : x - 1 \in Nat
  OBVIOUS
<1>3. CASE Now.pm = <<>>
  BY <1>3 DEF CellOfPg
<1>4. CASE Now.pm # <<>>
  <2>1. Len(Now.pm) \in Nat \ {0}
    BY <1>1, <1>4, EmptySeq
  <2>2. Len(Now.pm) \in 1..Len(Now.pm) /\ NrPgms = Len(Now.pm)
    BY <2>1 DEF NrPgms, Greatest
  <2>3. Last(Now.pm) = Now.pm[Len(Now.pm)]
    BY DEF Last
  <2>6. Now.pm[Len(Now.pm)] \in 1..255
    BY <1>1, <2>2, ElementOfSeq
  <2>4. Last(Now.pm) \in 1..255
    BY <2>3, <2>6
  <2>5. pg # 0 => Now.pm[pg] \in 1..255
    <3>1. pg # 0 => pg \in 1..Len(Now.pm)
      BY <2>1, <2>2
    <3> QED BY <1>1, <3>1, ElementOfSeq
  <2> QED BY <1>2, <1>4, <2>4, <2>5 DEF CellOfPg
<1> QED BY <1>3, <1>4

LEMMA LinkProgramTypes ==
  ASSUME Sound, LinkProgram
  PROVE  Sound'
<1> DEFINE named == Link.cmd \in {"LinkPTTN", "LinkPGN"}
           here  == PgOfCell(cell)
           pg == CASE named                     -> Least(Link.d1, NrPgms)
                 [] Link.cmd = "LinkNextPG"   -> here + 1
                 [] Link.cmd = "LinkPrevPG"   -> Greatest(here - 1, 1)
                 [] OTHER                     -> here
           n == IF named THEN Link.d2 ELSE Link.d1
<1>1. /\ todo.link \in LinkTypes /\ loaded # Null
      /\ IF named THEN Link.cmd \in PartLinks ELSE Link.cmd \in SubLinks
  BY LinkIs DEF LinkProgram, Linking, Link, SubLinks, PartLinks
<1>2. n \in 0..63 /\ Link.d1 \in Nat
  BY <1>1, LinkFields DEF Link
<1>3. /\ regs' = WithButton(regs, n)
      /\ IF pg > NrPgms THEN Do(Post) /\ UNCHANGED cell
         ELSE /\ cell' = IF Link.cmd = "LinkPGN" /\ Now.pm = <<>> THEN cell ELSE CellOfPg(pg)
              /\ Done
  BY DEF LinkProgram
<1>4. UNCHANGED <<disc, dom, vts, pgcn, loaded, rsm, came, seen, last, fuse, stopped, rest, event>>
  BY DEF LinkProgram, memory, history
<1>5. here \in Nat /\ here # 0
  BY <1>1, ProgramHere
<1>6. NrPgms \in Nat
  BY <1>1, NowSound, PgcFields DEF NrPgms, Greatest
<1>7. pg \in Nat
  <2>1. here + 1 \in Nat /\ Greatest(here - 1, 1) \in Nat /\ Least(Link.d1, NrPgms) \in Nat
    <3> HIDE DEF here
    <3> QED BY <1>2, <1>5, <1>6 DEF Greatest, Least
  <2> HIDE DEF here, named
  <2> QED BY <2>1, <1>5
<1> HIDE DEF pg, n
<1>8. regs' \in RegTypes
  BY <1>2, <1>3, ButtonTypes, Typed
<1>9. cell' \in Nat /\ Onward
  <2>1. CASE pg > NrPgms
    BY <1>1, <1>3, <2>1, Typed, OnwardPost
  <2>2. CASE ~(pg > NrPgms)
    <3>1. pg =< NrPgms
      BY <1>6, <1>7, <2>2
    <3> QED BY <1>1, <1>3, <1>7, <2>2, <3>1, Typed, OnwardDone, CellOfProgram
  <2> QED BY <2>1, <2>2
<1> QED BY <1>4, <1>8, <1>9, Typed, WorkTypes

LEMMA LinkPgcTypes ==
  ASSUME Sound, LinkPgc
  PROVE  Sound'
<1> DEFINE n == CASE Link.cmd = "LinkTopPGC"  -> pgcn
                  [] Link.cmd = "LinkNextPGC" -> Now.next
                  [] Link.cmd = "LinkPrevPGC" -> Now.prev
                  [] Link.cmd = "LinkGoUpPGC" -> Now.goup
                  [] OTHER                    -> Link.d1
<1>1. /\ todo.link \in LinkTypes /\ loaded # Null
      /\ Link.cmd # "LinkPGCN" => Link.cmd \in SubLinks
  BY LinkIs DEF LinkPgc, Linking, Link, SubLinks
<1>2. Link.d1 \in Numbers /\ (Link.cmd # "LinkPGCN" => Link.d1 \in 0..63)
  BY <1>1, LinkFields DEF Link
<1>3. n \in Numbers
  <2>1. Now.next \in Numbers /\ Now.prev \in Numbers /\ Now.goup \in Numbers /\ pgcn \in Numbers
    BY <1>1, NowSound, PgcFields, Typed
  <2> QED BY <1>2, <2>1
<1>4. LoadPgcn(dom, vts, n) \in Loads
  BY <1>3, Typed, LoadPgcnTypes
<1>5. /\ regs' = IF Link.cmd = "LinkPGCN" THEN regs ELSE WithButton(regs, Link.d1)
      /\ \/ Do(Post) /\ UNCHANGED stopped
         \/ JumpTo(LoadPgcn(dom, vts, n)) /\ UNCHANGED stopped
         \/ Stops
  BY DEF LinkPgc
<1>6. UNCHANGED <<disc, dom, vts, pgcn, loaded, cell, rsm, came, seen, last, fuse, rest, event>>
  BY DEF LinkPgc, place, memory, history
<1> HIDE DEF n
<1>7. regs' \in RegTypes
  BY <1>2, <1>5, Typed, ButtonTypes
<1>8. Onward /\ stopped' \in BOOLEAN
  BY <1>1, <1>4, <1>5, Typed, OnwardPost, OnwardJump, OnwardDone DEF Stops
<1> QED BY <1>6, <1>7, <1>8, Typed, WorkTypes

LEMMA LinkRsmTypes ==
  ASSUME Sound, LinkRsm
  PROVE  Sound'
<1>1. todo.link \in LinkTypes /\ todo.link.cmd \in SubLinks
  BY LinkIs DEF LinkRsm, Linking, Link, SubLinks
<1>2. UNCHANGED <<disc, vts, pgcn, loaded, cell, rsm, came, seen, last, fuse, rest, event>>
  BY DEF LinkRsm, memory
<1>3. CASE rsm = Null
  <2>1. Stops /\ UNCHANGED <<dom, regs>>
    BY <1>3 DEF LinkRsm
  <2> QED BY <1>2, <2>1, Typed, OnwardDone, WorkTypes DEF Stops
<1>4. CASE rsm # Null
  <2>1. /\ regs' = WithButton(Restored(regs), todo.link.d1)
        /\ dom' = "TT" /\ Do(Resume(rsm.vts, rsm.pgcn, rsm.cell, FALSE)) /\ UNCHANGED stopped
    BY <1>4 DEF LinkRsm, Link
  <2>2. rsm \in Positions
    BY <1>4, Typed
  <2>3. Resume(rsm.vts, rsm.pgcn, rsm.cell, FALSE) \in Resumes
    <3>1. rsm.vts \in Nat /\ rsm.pgcn \in Nat /\ rsm.cell \in Nat
      BY <2>2, OfNumbers DEF Positions
    <3> QED BY <3>1 DEF Resume, Resumes
  <2>4. Onward
    BY <2>1, <2>3, Operations, OnwardDo
  <2>5. Restored(regs) \in RegTypes
    <3>1. \A i \in Sprms : IF i \in 4..8 THEN rsm.s[i] \in Words ELSE regs.s[i] \in Words
      BY <2>2, Typed DEF Positions, RegTypes
    <3>2. [i \in Sprms |-> IF i \in 4..8 THEN rsm.s[i] ELSE regs.s[i]] \in [Sprms -> Words]
      BY <3>1
    <3> QED BY <3>2, Typed DEF Restored, RegTypes
  <2>6. todo.link.d1 \in 0..63
    BY <1>1, LinkFields
  <2>7. regs' \in RegTypes
    BY <2>1, <2>5, <2>6, ButtonTypes
  <2> QED BY <1>2, <2>1, <2>4, <2>7, Typed, WorkTypes
<1> QED BY <1>3, <1>4

LEMMA ExitTypes ==
  ASSUME Sound, Exit
  PROVE  Sound'
<1>1. UNCHANGED <<disc, dom, vts, pgcn, loaded, cell, regs, rsm, came, seen, last, fuse, rest, event>> /\ Stops
  BY DEF Exit, place, memory, history
<1> QED BY <1>1, Typed, OnwardDone, WorkTypes DEF Stops

LEMMA LoadTypes ==
  ASSUME NEW d \in Domains, NEW v \in Nat, NEW n \in Numbers, NEW id \in Numbers, NEW pgn \in 0..1023
  PROVE  Load(d, v, n, id, pgn) \in Loads
BY DEF Load, Loads

LEMMA ZeroIsNumber == 0 \in Numbers
BY DEF Numbers, NumberMax

LEMMA SmallIsNumber ==
  ASSUME NEW n \in 0..127
  PROVE  n \in Numbers
<1>1. 127 =< NumberMax /\ NumberMax \in Int
  BY DEF NumberMax
<1> QED BY <1>1, InNumbers

LEMMA JumpTitleTypes ==
  ASSUME Sound, JumpTitle
  PROVE  Sound'
<1>1. todo.link \in LinkTypes /\ loaded # Null
  BY LinkIs DEF JumpTitle, Linking, Link
<1>2. UNCHANGED <<disc, vts, pgcn, loaded, cell, rsm, came, seen, last, fuse, stopped, rest, event>>
  BY DEF JumpTitle, memory
<1>3. CASE Link.cmd = "JumpTT" /\ Link.d1 \notin DOMAIN disc.srpt
  <2>1. Do(Fail) /\ UNCHANGED <<dom, regs>>
    BY <1>3 DEF JumpTitle
  <2> QED BY <1>2, <2>1, Typed, OnwardFail, WorkTypes
<1>4. CASE ~(Link.cmd = "JumpTT" /\ Link.d1 \notin DOMAIN disc.srpt)
  <2> DEFINE t == IF Link.cmd = "JumpTT" THEN disc.srpt[Link.d1] ELSE <<vts, Link.d1>>
             part == IF Link.cmd = "JumpVTS_PTT" THEN Link.d2 ELSE 0
             a == IF Link.cmd = "JumpTT" THEN 4 ELSE 5
             b == IF Link.cmd = "JumpVTS_PTT" THEN Link.d2 ELSE 1
  <2>1. /\ dom' = "TT"
        /\ regs' = [regs EXCEPT !.s[a] = Link.d1, !.s[7] = b]
        /\ Do(Load("TT", t[1], 0, t[2], part))
    BY <1>4 DEF JumpTitle
  <2>2. Link.d1 \in Numbers /\ Link.d2 \in 0..1023 /\ Link.d2 \in Numbers
    BY <1>1, LinkFields DEF Link
  <2>3. t[1] \in Nat /\ t[2] \in Numbers
    <3>1. CASE Link.cmd = "JumpTT"
      <4>1. disc.srpt \in Seq((0..255) \X (0..127))
        BY Typed, DiscAssumption DEF DiscTypes
      <4>2. disc.srpt[Link.d1] \in (0..255) \X (0..127)
        <5>1. Link.d1 \in DOMAIN disc.srpt
          BY <1>4, <3>1
        <5>2. Link.d1 \in 1..Len(disc.srpt)
          BY <4>1, <5>1, LenProperties
        <5> QED BY <4>1, <5>2, ElementOfSeq
      <4>3. t = disc.srpt[Link.d1]
        BY <3>1
      <4> HIDE DEF t
      <4>4. t[1] \in Nat /\ t[2] \in 0..127
        BY <4>2, <4>3
      <4> QED BY <4>4, SmallIsNumber
    <3>2. CASE Link.cmd # "JumpTT"
      BY <2>2, <3>2, Typed
    <3> QED BY <3>1, <3>2
  <2>4. part \in 0..1023
    BY <2>2
  <2> HIDE DEF t, part
  <2>5. Load("TT", t[1], 0, t[2], part) \in Loads
    BY <2>3, <2>4, ZeroIsNumber, SMT DEF Load, Loads, Domains
  <2>6. Onward
    BY <2>1, <2>5, OnwardLoad
  <2>7. a \in Sprms /\ 7 \in Sprms /\ b \in Words /\ Link.d1 \in Words
    <3>1. 1 \in Words
      <4>1. 1 =< RegMax
        BY DEF RegMax
      <4> QED BY <4>1, InWords
    <3> QED BY <2>2, <3>1, OfNumbers DEF Sprms
  <2> HIDE DEF a, b
  <2>8. [regs EXCEPT !.s[a] = Link.d1, !.s[7] = b] = [[regs EXCEPT !.s[a] = Link.d1] EXCEPT !.s[7] = b]
    BY Typed DEF RegTypes
  <2>9. regs' \in RegTypes
    BY <2>1, <2>7, <2>8, Typed, SprmSet
  <2> QED BY <1>2, <2>1, <2>6, <2>9, Typed, WorkTypes
<1> QED BY <1>3, <1>4

LEMMA MenuOfTypes ==
  ASSUME Sound, Doing("link"),
         Link.cmd \in {"JumpSS_FP", "JumpSS_VMGM_MENU", "JumpSS_VMGM_PGC", "JumpSS_VTSM",
                       "CallSS_FP", "CallSS_VMGM_MENU", "CallSS_VMGM_PGC", "CallSS_VTSM"}
  PROVE  MenuOf(Link.cmd) \in Loads /\ MenuOf(Link.cmd).dom \in Menus \union {"FP"}
<1>1. Link.d1 \in Numbers /\ Link.d3 \in Numbers /\ Link.d1 \in Nat
  BY LinkIs, LinkFields DEF Link
<1>2. vts \in Nat /\ {"FP", "VMGM", "VTSM"} \subseteq Domains
  BY Typed DEF Domains, Menus
<1>3. /\ Load("FP", 0, 0, 0, 0) \in Loads
      /\ Entry("VMGM", 0, Link.d1) \in Loads
      /\ LoadPgcn("VMGM", 0, Link.d1) \in Loads
      /\ Entry("VTSM", vts, Link.d1) \in Loads
      /\ Entry("VTSM", IF Link.d1 = 0 THEN vts ELSE Link.d1, Link.d3) \in Loads
  <2>1. 0 \in 0..1023 /\ 0 \in Nat /\ 0 \in Numbers
    BY ZeroIsNumber
  <2> DEFINE v == IF Link.d1 = 0 THEN vts ELSE Link.d1
  <2>2. v \in Nat
    BY <1>1, <1>2
  <2> HIDE DEF v
  <2>3. Load("FP", 0, 0, 0, 0) \in Loads
    BY <1>2, <2>1, LoadTypes
  <2>4. Load("VMGM", 0, 0, Link.d1, 0) \in Loads /\ Load("VMGM", 0, Link.d1, 0, 0) \in Loads
    BY <1>1, <1>2, <2>1 DEF Load, Loads
  <2>5. Load("VTSM", vts, 0, Link.d1, 0) \in Loads /\ Load("VTSM", v, 0, Link.d3, 0) \in Loads
    BY <1>1, <1>2, <2>1, <2>2 DEF Load, Loads
  <2> QED BY <2>3, <2>4, <2>5 DEF Entry, LoadPgcn, v
<1>4. MenuOf(Link.cmd) \in Loads
  BY <1>3 DEF MenuOf
<1>5. MenuOf(Link.cmd).dom \in Menus \union {"FP"}
  BY DEF MenuOf, Entry, LoadPgcn, Load, Menus
<1> QED BY <1>4, <1>5

LEMMA JumpMenuTypes ==
  ASSUME Sound, JumpMenu
  PROVE  Sound'
<1>1. MenuOf(Link.cmd) \in Loads /\ todo.link \in LinkTypes
  BY MenuOfTypes, LinkIs DEF JumpMenu, Linking
<1>2. UNCHANGED <<disc, dom, vts, pgcn, loaded, cell, rsm, came, seen, last, fuse, stopped, rest, event>>
  BY DEF JumpMenu, place, memory
<1>3. Onward
  BY <1>1, OnwardJump DEF JumpMenu
<1>4. regs' \in RegTypes
  <2>1. Link.d2 \in Words /\ 5 \in Sprms
    BY <1>1, LinkFields, OfNumbers DEF Link, Sprms
  <2>2. [regs EXCEPT !.s[5] = Link.d2] \in RegTypes
    BY <2>1, Typed, SprmSet
  <2> QED BY <2>2, Typed DEF JumpMenu
<1> QED BY <1>2, <1>3, <1>4, Typed, WorkTypes

LEMMA SavedTypes ==
  ASSUME Sound, NEW c \in Nat
  PROVE  Saved(c) \in Positions
<1>1. [i \in 4..8 |-> regs.s[i]] \in [4..8 -> Words]
  <2>1. regs.s \in [Sprms -> Words]
    BY Typed DEF RegTypes
  <2>2. \A i \in 4..8 : i \in Sprms
    BY DEF Sprms
  <2> QED BY <2>1, <2>2
<1> QED BY <1>1, Typed DEF Saved, Positions

LEMMA CallMenuTypes ==
  ASSUME Sound, CallMenu
  PROVE  Sound'
<1>1. MenuOf(Link.cmd) \in Loads /\ todo.link \in LinkTypes
  BY MenuOfTypes, LinkIs DEF CallMenu, Linking
<1>2. UNCHANGED <<disc, dom, vts, pgcn, loaded, cell, regs, came, seen, last, fuse, stopped, rest, event>>
  BY DEF CallMenu, place
<1>3. Onward
  BY <1>1, OnwardJump DEF CallMenu
<1>4. RsmTypes'
  <2> DEFINE c == IF Link.cmd = "CallSS_FP" THEN Link.d1 ELSE Link.d2
             d == IF c = 0 THEN cell ELSE c - 1
  <2>1. c \in Nat
    <3>1. Link.d1 \in Nat /\ Link.d2 \in 0..1023
      BY <1>1, LinkFields DEF Link
    <3> QED BY <3>1
  <2> HIDE DEF c
  <2>2. d \in Nat
    BY <2>1, Typed
  <2>3. rsm' = Saved(d)
    BY DEF CallMenu, c
  <2> HIDE DEF d
  <2> QED BY <2>2, <2>3, SavedTypes DEF RsmTypes
<1>5. rest' # Null => loaded # Null /\ event'.kind = "play"
  BY <1>2 DEF Sound, Steady
<1> QED BY <1>2, <1>3, <1>4, <1>5, Typed, Walks

(***************************************************************************)
(* The driver and the events.                                               *)
(***************************************************************************)
LEMMA OnwardAdvance ==
  ASSUME Sound, loaded # Null, NEW c \in Nat, Advance(c)
  PROVE  Onward /\ cell' \in Nat
BY OnwardPost, OnwardDone DEF Advance

LEMMA AfterCellTypes ==
  ASSUME Sound, AfterCellCommand
  PROVE  Sound'
<1>1. /\ rest' = Null /\ loaded # Null /\ todo = Returned
      /\ UNCHANGED <<disc, dom, vts, pgcn, loaded, regs, rsm, came, seen, last, stopped, event>>
  BY DEF AfterCellCommand, memory, history, Sound, Steady
<1>2. CASE ok /\ <<dom, vts, pgcn, loaded>> = rest
  <2>1. Advance(cell) /\ fuse' = 0
    BY <1>2 DEF AfterCellCommand
  <2>2. Onward /\ cell' \in Nat
    BY <1>1, <2>1, Typed, OnwardAdvance
  <2>3. RsmTypes'
    BY <1>1, Typed DEF RsmTypes
  <2> QED BY <1>1, <2>1, <2>2, <2>3, Typed, Walks
<1>3. CASE ~(ok /\ <<dom, vts, pgcn, loaded>> = rest)
  <2>1. UNCHANGED <<cell, todo, alts, ok, fuse>>
    BY <1>3 DEF AfterCellCommand
  <2>2. Onward
    BY <1>1, <2>1, Typed, Operations DEF Onward, TodoTypes, Sound, Steady
  <2>3. RsmTypes'
    BY <1>1, Typed DEF RsmTypes
  <2> QED BY <1>1, <2>1, <2>2, <2>3, Typed, Walks
<1> QED BY <1>2, <1>3

\* An event that leaves the place and the menus it has been to alone.
LEMMA EventTypes ==
  ASSUME Sound, Onward, UNCHANGED <<disc, dom, vts, pgcn, loaded, cell, rsm, came, seen, last, stopped>>,
         regs' \in RegTypes, fuse' = 0, rest' = Null
  PROVE  Sound'
<1>1. RsmTypes' /\ came' \in BOOLEAN
  BY Typed DEF RsmTypes
<1> QED BY <1>1, Typed, Walks

LEMMA RootTypes ==
  ASSUME NEW v \in Nat
  PROVE  /\ Entry("VTSM", v, Root) \in Loads
         /\ Entry("VMGM", 0, Title) \in Loads
<1>1. Root \in Numbers /\ Title \in Numbers /\ 0 \in Numbers
  BY SmallIsNumber DEF Root, Title
<1>2. "VTSM" \in Domains /\ "VMGM" \in Domains
  BY DEF Domains, Menus
<1> QED BY <1>1, <1>2 DEF Entry, Load, Loads

LEMMA OnwardMenuCall ==
  ASSUME Sound, MenuCallRoot
  PROVE  Onward
<1> DEFINE guess  == disc.best_menu_vts
           boot   == ~seen /\ guess # 0 /\ guess # vts
           first  == IF boot THEN guess ELSE vts
           second == IF boot THEN vts ELSE guess
<1>1. guess \in Nat /\ vts \in Nat
  BY Typed, DiscAssumption DEF DiscTypes
<1>2. first \in Nat /\ second \in Nat
  BY <1>1
<1>3. /\ todo' = Entry("VTSM", first, Root)
      /\ alts' = <<Entry("VTSM", second, Root), Entry("VMGM", 0, Title), GoBack>>
      /\ ok' = ok
  BY DEF MenuCallRoot
<1> HIDE DEF first, second
<1>4. todo' \in Loads
  BY <1>2, <1>3, RootTypes
<1>5. /\ Entry("VTSM", second, Root) \in Alternatives
      /\ Entry("VMGM", 0, Title) \in Alternatives /\ GoBack \in Alternatives
  BY <1>2, RootTypes DEF Alternatives
<1>6. alts' \in Seq(Alternatives)
  BY <1>3, <1>5
<1> QED BY <1>3, <1>4, <1>6, Typed, Operations DEF Onward, TodoTypes

LEMMA MenuInTitleTypes ==
  ASSUME Sound, MenuInTitle
  PROVE  Sound'
<1>1. /\ UNCHANGED <<disc, dom, vts, pgcn, loaded, cell, regs, seen, last, stopped, rest>>
      /\ rest = Null /\ rsm' = Saved(cell) /\ came' = TRUE /\ fuse' = 0
  BY DEF MenuInTitle, place, Resting, Begin
<1>2. Onward
  BY OnwardMenuCall DEF MenuInTitle
<1>3. RsmTypes'
  BY <1>1, Typed, SavedTypes DEF RsmTypes
<1> QED BY <1>1, <1>2, <1>3, Typed, Walks

LEMMA MenuInMenuTypes ==
  ASSUME Sound, MenuInMenu
  PROVE  Sound'
<1>1. /\ UNCHANGED <<disc, dom, vts, pgcn, loaded, cell, regs, rsm, came, seen, last, stopped, rest>>
      /\ rest = Null /\ fuse' = 0
  BY DEF MenuInMenu, place, memory, Resting, Begin
<1>2. Do(GoBack) \/ MenuCallRoot
  BY DEF MenuInMenu
<1>3. Onward
  BY <1>2, Operations, OnwardDo, OnwardMenuCall
<1> QED BY <1>1, <1>3, Typed, EventTypes

LEMMA OneAlternative ==
  ASSUME NEW r \in Alternatives
  PROVE  <<r>> \in Seq(Alternatives)
OBVIOUS

LEMMA BootTypes ==
  ASSUME Sound, Boot
  PROVE  Sound'
<1>1. /\ UNCHANGED <<disc, dom, vts, pgcn, loaded, cell, regs, rsm, came, seen, last, stopped, rest>>
      /\ fuse' = 0 /\ todo' = Load("FP", 0, 0, 0, 0) /\ ok' = ok
      /\ alts' = <<Resume(disc.best_vts, 1, 0, TRUE)>>
  BY DEF Boot, place, memory, Begin
<1>6. rest = Null
  BY DEF Sound, Steady, Boot
<1>2. todo' \in Loads
  BY <1>1, ZeroIsNumber DEF Load, Loads, Domains
<1>3. Resume(disc.best_vts, 1, 0, TRUE) \in Resumes
  <2>1. disc.best_vts \in Nat
    BY Typed, DiscAssumption DEF DiscTypes
  <2> QED BY <2>1 DEF Resume, Resumes
<1>4. alts' \in Seq(Alternatives)
  <2>1. Resume(disc.best_vts, 1, 0, TRUE) \in Alternatives
    BY <1>3 DEF Alternatives
  <2>2. <<Resume(disc.best_vts, 1, 0, TRUE)>> \in Seq(Alternatives)
    BY <2>1, OneAlternative
  <2> QED BY <1>1, <2>2, Zenon
<1>5. Onward
  BY <1>1, <1>2, <1>4, Typed, Operations DEF Onward, TodoTypes
<1> QED BY <1>1, <1>5, <1>6, Typed, EventTypes

\* A block of one command, or of a PGC.
LEMMA OnwardThen ==
  ASSUME Sound, loaded # Null, NEW l \in {NoLink} \union LinkTypes, Then(l)
  PROVE  Onward
BY OnwardFollow, OnwardDone DEF Then

LEMMA PressTypes ==
  ASSUME Sound, NEW n \in 1..4, PressButton(n)
  PROVE  Sound'
<1> DEFINE e == EvalBlock(<<Now.buttons[n]>>, WithButton(regs, n))
<1>1. /\ UNCHANGED <<disc, dom, vts, pgcn, loaded, cell, rsm, came, seen, last, stopped, rest>>
      /\ rest = Null /\ fuse' = 0 /\ loaded # Null /\ n \in DOMAIN Now.buttons
      /\ regs' = e.regs /\ Then(e.link)
  BY DEF PressButton, place, memory, Ready, Resting, Begin
<1>2. Now.buttons \in Seq(Commands)
  BY <1>1, NowSound, PgcFields
<1>3. Now.buttons[n] \in Commands
  <2>1. n \in 1..Len(Now.buttons)
    BY <1>1, <1>2, LenProperties
  <2> QED BY <1>2, <2>1, ElementOfSeq
<1>4. <<Now.buttons[n]>> \in Seq(Commands)
  BY <1>3
<1>5. WithButton(regs, n) \in RegTypes
  BY Typed, ButtonTypes
<1>6. e.regs \in RegTypes /\ e.link \in {NoLink} \union LinkTypes
  BY <1>4, <1>5, EvalBlockTypes
<1> HIDE DEF e
<1>7. Onward
  BY <1>1, <1>6, OnwardThen
<1> QED BY <1>1, <1>6, <1>7, EventTypes

LEMMA NextEdgeTypes ==
  ASSUME Sound, NextEdge
  PROVE  Sound'
<1> DEFINE e == EvalBlock(Now.post, regs)
<1>1. /\ UNCHANGED <<disc, dom, vts, pgcn, loaded, cell, rsm, came, seen, last, stopped, rest>>
      /\ rest = Null /\ fuse' = 0 /\ loaded # Null /\ regs' = e.regs
      /\ IF e.link # NoLink /\ e.link.cmd # "Exit" THEN Do(Follow(e.link))
         ELSE IF e.link = NoLink /\ Now.next # 0 THEN Do(LoadPgcn("TT", vts, Now.next))
         ELSE Done
  BY DEF NextEdge, place, memory, Ready, Resting, Begin
<1>2. Now.post \in Seq(Commands) /\ Now.next \in Numbers
  BY <1>1, NowSound, PgcFields
<1>3. e.regs \in RegTypes /\ e.link \in {NoLink} \union LinkTypes
  BY <1>2, Typed, EvalBlockTypes
<1>4. LoadPgcn("TT", vts, Now.next) \in Loads
  BY <1>2, Typed, LoadPgcnTypes DEF Domains
<1> HIDE DEF e
<1>5. Onward
  BY <1>1, <1>3, <1>4, OnwardFollow, OnwardLoad, OnwardDone
<1> QED BY <1>1, <1>3, <1>5, EventTypes

LEMMA PrevEdgeTypes ==
  ASSUME Sound, PrevEdge
  PROVE  Sound'
<1>1. /\ UNCHANGED <<disc, dom, vts, pgcn, loaded, cell, regs, rsm, came, seen, last, stopped, rest>>
      /\ rest = Null /\ fuse' = 0 /\ loaded # Null
      /\ Do(Load("TT", vts, Now.prev, 0, LastPg))
  BY DEF PrevEdge, place, memory, Ready, Resting, Begin
<1>2. Now.prev \in Numbers
  BY <1>1, NowSound, PgcFields
<1>3. Load("TT", vts, Now.prev, 0, LastPg) \in Loads
  BY <1>2, Typed, ZeroIsNumber DEF Load, Loads, Domains, LastPg
<1> QED BY <1>1, <1>3, Typed, OnwardLoad, EventTypes

LEMMA PlayNothingTypes ==
  ASSUME Sound, PlayNothing
  PROVE  Sound'
<1>1. /\ UNCHANGED <<disc, dom, vts, pgcn, loaded, cell, regs, rsm, came, seen, last, stopped, rest>>
      /\ rest = Null /\ fuse' = 0 /\ loaded # Null /\ Do(Post)
  BY DEF PlayNothing, place, memory, Driven, Ready, Resting, Begin
<1> QED BY <1>1, Typed, OnwardPost, EventTypes

LEMMA PlayCellTypes ==
  ASSUME Sound, PlayCell
  PROVE  Sound'
<1> DEFINE command == cell < Len(Now.cells) /\ AtCell.cmd \in DOMAIN Now.cellc
           cmds == IF command THEN <<Now.cellc[AtCell.cmd]>> ELSE <<>>
           e == EvalBlock(cmds, regs)
<1>1. /\ UNCHANGED <<disc, dom, vts, pgcn, loaded, rsm, came, seen, last, stopped>>
      /\ rest = Null /\ fuse' = 0 /\ loaded # Null /\ regs' = e.regs /\ event'.kind = "play"
      /\ IF e.link # NoLink
         THEN Do(Follow(e.link)) /\ rest' = <<dom, vts, pgcn, loaded>> /\ UNCHANGED cell
         ELSE Advance(cell) /\ UNCHANGED rest
  BY DEF PlayCell, memory, Driven, Ready, Resting, Begin
<1>2. Now.cellc \in Seq(Commands)
  BY <1>1, NowSound, PgcFields
<1>3. cmds \in Seq(Commands)
  <2>1. command => Now.cellc[AtCell.cmd] \in Commands
    <3>1. command => AtCell.cmd \in 1..Len(Now.cellc)
      BY <1>2, LenProperties
    <3> QED BY <1>2, <3>1, ElementOfSeq
  <2> HIDE DEF command
  <2>2. CASE command
    BY <2>1, <2>2
  <2>3. CASE ~command
    BY <2>3, EmptySeq
  <2> QED BY <2>2, <2>3
<1> HIDE DEF cmds
<1>4. e.regs \in RegTypes /\ e.link \in {NoLink} \union LinkTypes
  BY <1>3, Typed, EvalBlockTypes
<1> HIDE DEF e
<1>5. Onward /\ cell' \in Nat
  BY <1>1, <1>4, Typed, OnwardFollow, OnwardAdvance
<1>6. RsmTypes'
  BY <1>1, Typed DEF RsmTypes
<1> QED BY <1>1, <1>4, <1>5, <1>6, Typed, Walks

LEMMA InitSound == VmInit => Sound
<1> SUFFICES ASSUME VmInit PROVE Sound
  OBVIOUS
<1>1. Regs \in RegTypes
  <2>1. {0, 1, 15, 62, 256, 1024, 21843, 25966, 31996, 44257} \subseteq Words
    <3>1. RegMax \in Int /\ 44257 =< RegMax
      BY DEF RegMax
    <3> QED BY <3>1, InWords
  <2>2. \A i \in Sprms : Regs.s[i] \in {0, 1, 15, 62, 256, 1024, 21843, 25966, 31996}
    BY DEF Regs, Button
  <2>3. Regs.s = [i \in Sprms |-> Regs.s[i]]
    BY DEF Regs
  <2>4. Regs.s \in [Sprms -> Words]
    BY <2>1, <2>2, <2>3
  <2>5. Regs = [g |-> [i \in Gprms |-> 0], mode |-> [i \in Gprms |-> FALSE], s |-> Regs.s, rnd |-> 44257]
    BY DEF Regs
  <2> DEFINE g == [i \in Gprms |-> 0]
             mode == [i \in Gprms |-> FALSE]
             s == Regs.s
  <2>6. g \in [Gprms -> Words] /\ mode \in [Gprms -> BOOLEAN]
    BY <2>1
  <2>7. Regs = [g |-> g, mode |-> mode, s |-> s, rnd |-> 44257]
    BY <2>5
  <2>8. s \in [Sprms -> Words] /\ 44257 \in Words
    BY <2>1, <2>4
  <2> HIDE DEF Regs, g, mode, s
  <2> QED BY <2>6, <2>7, <2>8 DEF RegTypes
<1>2. Returned \in Tasks /\ <<>> \in Seq(Alternatives)
  BY EmptySeq DEF Tasks
<1>3. Returned \notin {Pre, Post} \union Commanded
  BY Operations
<1>4. VmTypes
  BY <1>1, <1>2, ZeroIsNumber DEF VmInit, VmTypes, Domains, Null
<1>5. Steady
  BY <1>3 DEF VmInit, Steady, Menus
<1> QED BY <1>4, <1>5 DEF Sound

LEMMA NextSound == Sound /\ [VmNext]_vmVars => Sound'
<1> SUFFICES ASSUME Sound, [VmNext]_vmVars
             PROVE  Sound'
  OBVIOUS
<1>1. CASE LoadPgc \/ LoadFailed \/ ResumeTitle \/ RunPre \/ RunPost \/ Recover \/ AfterCellCommand
  BY <1>1, LoadPgcTypes, LoadFailedTypes, ResumeTitleTypes, RunPreTypes, RunPostTypes, RecoverTypes,
     AfterCellTypes
<1>2. CASE AllLinks
  BY <1>2, LinkStayTypes, LinkCellTypes, LinkProgramTypes, LinkPgcTypes, LinkRsmTypes, ExitTypes,
     JumpTitleTypes, JumpMenuTypes, CallMenuTypes DEF AllLinks
<1>3. CASE VmEvents
  BY <1>3, BootTypes, MenuInTitleTypes, MenuInMenuTypes, NextEdgeTypes, PrevEdgeTypes, PlayNothingTypes,
     PlayCellTypes, PressTypes DEF VmEvents
<1>4. CASE UNCHANGED vmVars
  <2>1. UNCHANGED <<disc, dom, vts, pgcn, loaded, cell, regs, rsm, came, seen, last, fuse, stopped,
                    todo, alts, rest, ok, event>>
    BY <1>4 DEF vmVars, place, memory, history
  <2>2. Onward
    BY <2>1, Typed DEF Onward, TodoTypes, Sound, Steady
  <2> QED BY <2>1, <2>2, Typed, WorkTypes
<1> QED BY <1>1, <1>2, <1>3, <1>4 DEF VmNext, Works

\* On any disc, whatever its commands do, every PGC the machine stands on is one
\* its disc has, and registers stay words (dvd_vm_ref.py's state).
THEOREM VmTyped == VmSpec => []VmTypes
<1>1. VmSpec => []Sound
  BY InitSound, NextSound, PTL DEF VmSpec
<1>2. Sound => VmTypes
  BY DEF Sound
<1> QED BY <1>1, <1>2, PTL

(***************************************************************************)
(* A bad link stays in the menus: what the callers hold and what is tried   *)
(* next, while a menu's button has not asked for a title.                   *)
(***************************************************************************)
InMenus == event.kind = "button" /\ event.from \in Menus /\ asked \in {"no", "fp"}
NoFirstPlay == asked = "fp" /\ disc.fp = Null
Excused == fuse > JumpFuse \/ LeadsNowhere \/ NextIsMissing \/ NoFirstPlay
Confinement ==
  /\ last # Null /\ loaded # Null /\ dom # "TT"
  /\ alts \in Seq({LastMenu})
  /\ ~Doing("resume")
  /\ Doing("load") => todo.dom # "TT" /\ (alts = <<>> => Exists(todo) \/ NextIsMissing \/ NoFirstPlay)
  /\ Doing("fail") /\ alts = <<>> => Excused
  /\ todo = Returned /\ ~ok => Excused
Confined == InMenus => Confinement

LEMMA ExistsStays ==
  ASSUME UNCHANGED disc, NEW l, todo' = l, Exists(l)
  PROVE  Exists(todo)'
BY DEF Exists, Number, Pit

LEMMA PlaceStays ==
  ASSUME UNCHANGED <<disc, dom, vts, loaded>>
  PROVE  /\ NextIsMissing => NextIsMissing'
         /\ LeadsNowhere => LeadsNowhere'
BY DEF NextIsMissing, LeadsNowhere, Now, Pgc, Exists, Number, LoadPgcn, Load, Pit

LEMMA HandsOn ==
  ASSUME Confinement, UNCHANGED <<disc, dom, loaded, last>>,
         Done \/ \E t \in {Pre, Post} \union Commanded : Do(t)
  PROVE  Confinement'
<1>1. CASE Done
  BY <1>1, EmptySeq DEF Done, Confinement, Doing, Returned
<1>2. ASSUME NEW t \in {Pre, Post} \union Commanded, Do(t)
      PROVE  Confinement'
  <2>1. t.op \in {"pre", "post", "link"} /\ t # Returned
    BY DEF Pre, Post, Commanded, Returned
  <2> QED BY <1>2, <2>1 DEF Do, Confinement, Doing
<1> QED BY <1>1, <1>2

LEMMA HandsJump ==
  ASSUME Confinement, UNCHANGED <<disc, dom, loaded, last>>, NEW l \in Loads, JumpTo(l), l.dom # "TT",
         l.dom = "FP" => Exists(l) \/ NoFirstPlay'
  PROVE  Confinement'
<1>1. todo' = l /\ l.op = "load" /\ l # Returned
  BY Operations DEF JumpTo
<1>2. CASE l.dom \in Menus
  <2>1. alts' = <<LastMenu>> \o alts
    BY <1>2 DEF JumpTo
  <2>2. alts \in Seq({LastMenu}) /\ <<LastMenu>> \in Seq({LastMenu})
    BY DEF Confinement
  <2>3. alts' \in Seq({LastMenu}) /\ alts' # <<>>
    <3>1. Len(alts') = 1 + Len(alts) /\ Len(alts) \in Nat
      BY <2>1, <2>2, ConcatProperties
    <3> QED BY <2>1, <2>2, <3>1, ConcatProperties, EmptySeq
  <2> QED BY <1>1, <2>3 DEF Confinement, Doing
<1>3. CASE l.dom \notin Menus
  <2>1. l.dom = "FP" /\ alts' = alts
    BY <1>3 DEF JumpTo, Loads, Domains
  <2>2. Exists(todo)' \/ NoFirstPlay'
    BY <1>1, <2>1, ExistsStays
  <2> QED BY <1>1, <2>1, <2>2 DEF Confinement, Doing
<1> QED BY <1>2, <1>3

LEMMA LoadConfined ==
  ASSUME Sound, Confinement, LoadPgc
  PROVE  Confinement'
<1>1. todo \in Loads /\ todo.dom # "TT"
  BY Typed, TasksByOp DEF LoadPgc, Doing, Confinement
<1>2. dom' = todo.dom /\ todo' = Pre /\ alts' = alts
  BY DEF LoadPgc, Do
<1>3. loaded' # Null /\ last' # Null
  <2>1. CASE todo.dom = "FP"
    <3>1. loaded' = <<"FP", 0, 0>> /\ last' = last
      BY <2>1 DEF LoadPgc
    <3> QED BY <3>1 DEF Null, Confinement
  <2>2. CASE todo.dom # "FP"
    <3> DEFINE key == <<todo.dom, todo.vts, Number(todo)>>
    <3>1. loaded' = key /\ (last' = key \/ last' = last)
      BY <2>2 DEF LoadPgc
    <3>2. key # Null
      BY DEF Null
    <3> QED BY <3>1, <3>2 DEF Confinement
  <2> QED BY <2>1, <2>2
<1> QED BY <1>1, <1>2, <1>3 DEF Confinement, Doing, Pre, Returned

LEMMA LoadFailedConfined ==
  ASSUME Sound, Confinement, LoadFailed
  PROVE  Confinement'
<1>1. /\ UNCHANGED <<disc, dom, vts, loaded, last, asked>> /\ todo' = Fail /\ alts' = alts
      /\ fuse' = fuse + 1 /\ Doing("load") /\ (fuse >= JumpFuse \/ ~Exists(todo))
  BY DEF LoadFailed, place, memory, history, Do, Spend
<1>2. alts = <<>> => Excused'
  <2>1. CASE fuse >= JumpFuse
    <3>1. fuse' > JumpFuse
      BY <1>1, <2>1, Typed, JumpAssumption
    <3> QED BY <3>1 DEF Excused
  <2>2. CASE ~Exists(todo)
    BY <1>1, <2>2, PlaceStays DEF Confinement, Excused, NoFirstPlay
  <2> QED BY <1>1, <2>1, <2>2
<1> QED BY <1>1, <1>2 DEF Confinement, Doing, Fail, Returned

LEMMA RecoverConfined ==
  ASSUME Sound, Confinement, Recover
  PROVE  Confinement'
<1>1. UNCHANGED <<disc, dom, vts, loaded, last, asked, fuse>> /\ Doing("fail")
  BY DEF Recover, place, memory, history
<1>2. CASE alts = <<>>
  <2>1. todo' = Returned /\ alts' = <<>>
    BY <1>2 DEF Recover
  <2>2. Excused'
    BY <1>1, <1>2, PlaceStays DEF Confinement, Excused, NoFirstPlay
  <2> QED BY <1>1, <2>1, <2>2, EmptySeq DEF Confinement, Doing, Returned
<1>3. CASE alts # <<>>
  <2> DEFINE l == LoadPgcn(last[1], last[2], last[3])
  <2>1. Head(alts) = LastMenu /\ Tail(alts) \in Seq({LastMenu})
    BY <1>3, HeadTailProperties DEF Confinement
  <2>2. todo' = l /\ alts' = Tail(alts)
    BY <1>3, <2>1 DEF Recover, Confinement
  <2>3. l \in Loads /\ l.dom \in Menus /\ Exists(l)
    <3>1. l.dom = last[1]
      BY DEF LoadPgcn, Load
    <3> QED BY <3>1, LastMenuTypes DEF Confinement
  <2> HIDE DEF l
  <2>4. Exists(todo)'
    BY <1>1, <2>2, <2>3, ExistsStays
  <2>5. todo'.op = "load" /\ todo' # Returned /\ todo'.dom # "TT"
    BY <2>2, <2>3, Operations DEF Menus
  <2> QED BY <1>1, <2>1, <2>2, <2>4, <2>5 DEF Confinement, Doing
<1> QED BY <1>2, <1>3

LEMMA RunPreConfined ==
  ASSUME Sound, Confinement, RunPre
  PROVE  Confinement'
<1> DEFINE e == EvalBlock(Now.pre, regs)
<1>1. UNCHANGED <<disc, dom, vts, loaded, last, asked, fuse>>
  BY DEF RunPre, place, memory, history
<1>2. e.link \in {NoLink} \union LinkTypes
  BY NowSound, PgcFields, Typed, EvalBlockTypes DEF Confinement
<1>3. \/ e.link # NoLink /\ Do(Follow(e.link))
      \/ Do(Post)
      \/ LeadsNowhere /\ Do(Fail)
      \/ Done
  BY DEF RunPre, LeadsNowhere
<1> HIDE DEF e
<1>4. CASE LeadsNowhere /\ Do(Fail)
  <2>1. Excused'
    BY <1>1, <1>4, PlaceStays DEF Excused
  <2> QED BY <1>1, <1>4, <2>1 DEF Do, Confinement, Doing, Fail, Returned
<1>5. CASE Done \/ Do(Post) \/ (e.link # NoLink /\ Do(Follow(e.link)))
  BY <1>1, <1>2, <1>5, FollowTypes, HandsOn
<1> QED BY <1>3, <1>4, <1>5

LEMMA RunPostConfined ==
  ASSUME Sound, Confinement, RunPost
  PROVE  Confinement'
<1> DEFINE e == EvalBlock(Now.post, regs)
           l == LoadPgcn(dom, vts, Now.next)
<1>1. UNCHANGED <<disc, dom, vts, loaded, last, asked, fuse>>
  BY DEF RunPost, place, memory, history
<1>2. e.link \in {NoLink} \union LinkTypes
  BY NowSound, PgcFields, Typed, EvalBlockTypes DEF Confinement
<1>3. \/ e.link # NoLink /\ Do(Follow(e.link))
      \/ Now.next # 0 /\ Do(l)
      \/ Done
  BY DEF RunPost, Stops
<1>4. ASSUME Now.next # 0, Do(l)
      PROVE  Confinement'
  <2>1. l \in Loads
    BY NowSound, PgcFields, Typed, LoadPgcnTypes DEF Confinement
  <2>2. l.dom # "TT" /\ l.op = "load" /\ l # Returned
    BY <2>1, Operations DEF LoadPgcn, Load, Confinement
  <2>3. Exists(l) \/ NextIsMissing
    BY <1>4 DEF NextIsMissing
  <2> HIDE DEF l
  <2>4. Exists(todo)' \/ NextIsMissing'
    BY <1>1, <1>4, <2>3, PlaceStays, ExistsStays DEF Do
  <2> QED BY <1>1, <1>4, <2>2, <2>4 DEF Do, Confinement, Doing
<1> HIDE DEF e, l
<1>5. CASE Done \/ (e.link # NoLink /\ Do(Follow(e.link)))
  BY <1>1, <1>2, <1>5, FollowTypes, HandsOn
<1> QED BY <1>3, <1>4, <1>5

LEMMA LinkLoad ==
  ASSUME Sound, Confinement, NEW n \in Numbers, JumpTo(LoadPgcn(dom, vts, n)), UNCHANGED <<disc, dom, loaded, last>>
  PROVE  Confinement'
<1> DEFINE l == LoadPgcn(dom, vts, n)
<1>1. l \in Loads /\ l.dom = dom
  BY Typed, LoadPgcnTypes DEF LoadPgcn, Load
<1>2. dom = "FP" => Exists(l)
  <2>1. dom = "FP" => loaded[1] = "FP" /\ loaded # Null
    BY DEF Confinement, Sound, Steady, Whole
  <2>2. loaded # Null /\ loaded[1] = "FP" => disc.fp # Null
    BY TypeParts DEF Sound, LoadedTypes, Menus
  <2> QED BY <1>1, <2>1, <2>2 DEF Exists
<1>3. l.dom # "TT"
  BY <1>1 DEF Confinement
<1>4. JumpTo(l)
  OBVIOUS
<1> HIDE DEF l
<1> QED BY <1>1, <1>2, <1>3, <1>4, HandsJump

LEMMA LinkPgcConfined ==
  ASSUME Sound, Confinement, LinkPgc
  PROVE  Confinement'
<1> DEFINE n == CASE Link.cmd = "LinkTopPGC"  -> pgcn
                  [] Link.cmd = "LinkNextPGC" -> Now.next
                  [] Link.cmd = "LinkPrevPGC" -> Now.prev
                  [] Link.cmd = "LinkGoUpPGC" -> Now.goup
                  [] OTHER                    -> Link.d1
<1>1. UNCHANGED <<disc, dom, loaded, last>>
  BY DEF LinkPgc, place, memory
<1>2. Do(Post) \/ JumpTo(LoadPgcn(dom, vts, n)) \/ Done
  BY DEF LinkPgc, Stops
<1>3. n \in Numbers
  <2>1. Link \in LinkTypes
    BY LinkIs DEF LinkPgc, Linking, Link
  <2>2. Link.d1 \in Numbers
    BY <2>1, LinkFields
  <2>3. Now.next \in Numbers /\ Now.prev \in Numbers /\ Now.goup \in Numbers
    BY NowSound, PgcFields DEF Confinement
  <2> QED BY <2>2, <2>3, Typed
<1> HIDE DEF n
<1>4. CASE JumpTo(LoadPgcn(dom, vts, n))
  BY <1>1, <1>3, <1>4, LinkLoad
<1>5. CASE Do(Post) \/ Done
  BY <1>1, <1>5, HandsOn
<1> QED BY <1>2, <1>4, <1>5

LEMMA MenuConfined ==
  ASSUME Sound, Confinement, InMenus, JumpMenu \/ CallMenu
  PROVE  Confinement'
<1> DEFINE l == MenuOf(Link.cmd)
<1>1. l \in Loads /\ l.dom \in Menus \union {"FP"}
  BY MenuOfTypes DEF JumpMenu, CallMenu, Linking
<1>2. UNCHANGED <<disc, dom, loaded, last>> /\ JumpTo(l) /\ ToFirstPlay
  BY DEF JumpMenu, CallMenu, place, memory
<1>3. l.dom = "FP" => Link.cmd \in {"JumpSS_FP", "CallSS_FP"}
  BY DEF JumpMenu, CallMenu, Linking, MenuOf, Entry, LoadPgcn, Load
<1>4. l.dom = "FP" => Exists(l) \/ NoFirstPlay'
  BY <1>2, <1>3 DEF ToFirstPlay, InMenus, Exists, NoFirstPlay
<1>5. l.dom # "TT"
  BY <1>1 DEF Menus
<1> HIDE DEF l
<1> QED BY <1>1, <1>2, <1>4, <1>5, HandsJump

LEMMA StayConfined ==
  ASSUME Confinement, LinkStay \/ LinkCell \/ LinkProgram \/ Exit
  PROVE  Confinement'
<1>1. UNCHANGED <<disc, dom, loaded, last>>
  BY DEF LinkStay, LinkCell, LinkProgram, Exit, place, memory
<1>2. Done \/ Do(Post)
  BY DEF LinkStay, LinkCell, LinkProgram, Exit, Stops
<1> QED BY <1>1, <1>2, HandsOn

LEMMA PressConfined ==
  ASSUME Sound, NEW n \in 1..4, PressButton(n), InMenus'
  PROVE  Confinement'
<1> DEFINE e == EvalBlock(<<Now.buttons[n]>>, WithButton(regs, n))
<1>1. UNCHANGED <<disc, dom, loaded, last>> /\ event'.from = dom /\ todo = Returned /\ loaded # Null
  BY DEF PressButton, place, memory, Begin, Ready, Resting
<1>2. dom \in Menus
  BY <1>1 DEF InMenus
<1>3. last # Null /\ dom # "TT"
  BY <1>2, Typed DEF Sound, Steady, Menus
<1>4. Then(e.link)
  BY DEF PressButton
<1>5. e.link \in {NoLink} \union LinkTypes
  <2>1. Now.buttons \in Seq(Commands) /\ n \in DOMAIN Now.buttons
    BY <1>1, NowSound, PgcFields DEF PressButton
  <2>2. Now.buttons[n] \in Commands
    <3>1. n \in 1..Len(Now.buttons)
      BY <2>1, LenProperties
    <3> QED BY <2>1, <3>1, ElementOfSeq
  <2>3. <<Now.buttons[n]>> \in Seq(Commands)
    BY <2>2
  <2>4. WithButton(regs, n) \in RegTypes
    BY Typed, ButtonTypes
  <2> QED BY <2>3, <2>4, EvalBlockTypes
<1> HIDE DEF e
<1>6. alts = <<>>
  BY <1>1 DEF Sound, Steady
<1>7. CASE e.link = NoLink
  <2>1. todo' = Returned /\ alts' = <<>> /\ ok' = TRUE
    BY <1>4, <1>7 DEF Then, Done
  <2> QED BY <1>1, <1>3, <2>1, EmptySeq DEF Confinement, Doing, Returned
<1>8. CASE e.link # NoLink
  <2>1. todo' = Follow(e.link) /\ alts' = <<>>
    BY <1>4, <1>6, <1>8 DEF Then, Do
  <2>2. todo'.op = "link" /\ todo' # Returned
    BY <2>1 DEF Follow, Returned
  <2> QED BY <1>1, <1>3, <2>1, <2>2, EmptySeq DEF Confinement, Doing
<1> QED BY <1>7, <1>8

LEMMA OtherEvents ==
  ASSUME Boot \/ MenuInTitle \/ MenuInMenu \/ NextEdge \/ PrevEdge \/ PlayNothing \/ PlayCell
  PROVE  event'.kind # "button"
<1>1. Begin("boot") \/ Begin("menu") \/ Begin("edge") \/ Begin("play")
  BY DEF Boot, MenuInTitle, MenuInMenu, NextEdge, PrevEdge, PlayNothing, PlayCell
<1> QED BY <1>1 DEF Begin

LEMMA ConfinedNext ==
  ASSUME Sound, Confined, [VmNext]_vmVars
  PROVE  Confined'
<1> SUFFICES ASSUME InMenus' PROVE Confinement'
  BY DEF Confined
<1>1. CASE LoadPgc \/ LoadFailed \/ RunPre \/ RunPost \/ Recover
  <2>1. event' = event /\ asked' = asked
    BY <1>1 DEF LoadPgc, LoadFailed, RunPre, RunPost, Recover, history
  <2>2. Confinement
    BY <2>1 DEF InMenus, Confined
  <2> QED BY <1>1, <2>2, LoadConfined, LoadFailedConfined, RunPreConfined, RunPostConfined, RecoverConfined
<1>2. CASE ResumeTitle
  <2>1. event' = event /\ asked' = asked /\ Doing("resume")
    BY <1>2 DEF ResumeTitle
  <2> QED BY <2>1 DEF InMenus, Confined, Confinement
<1>3. CASE AfterCellCommand
  <2>1. event' = event /\ rest # Null
    BY <1>3 DEF AfterCellCommand, history
  <2> QED BY <2>1 DEF InMenus, Sound, Steady
<1>4. CASE LinkStay \/ LinkCell \/ LinkProgram \/ LinkPgc \/ Exit
  <2>1. event' = event /\ asked' = asked
    BY <1>4 DEF LinkStay, LinkCell, LinkProgram, LinkPgc, Exit, history
  <2>2. Confinement
    BY <2>1 DEF InMenus, Confined
  <2> QED BY <1>4, <2>2, StayConfined, LinkPgcConfined
<1>5. CASE JumpMenu \/ CallMenu
  <2>1. event' = event /\ ToFirstPlay
    BY <1>5 DEF JumpMenu, CallMenu
  <2>2. InMenus
    BY <2>1 DEF InMenus, ToFirstPlay
  <2> QED BY <1>5, <2>2, MenuConfined DEF Confined
<1>6. CASE LinkRsm \/ JumpTitle
  BY <1>6 DEF LinkRsm, JumpTitle, InMenus
<1>7. CASE Boot \/ MenuInTitle \/ MenuInMenu \/ NextEdge \/ PrevEdge \/ PlayNothing \/ PlayCell
  BY <1>7, OtherEvents DEF InMenus
<1>8. CASE \E n \in 1..4 : PressButton(n)
  BY <1>8, PressConfined
<1>9. CASE UNCHANGED vmVars
  <2>1. UNCHANGED <<disc, dom, vts, loaded, last, todo, alts, ok, event, asked, fuse>>
    BY <1>9 DEF vmVars, place, memory, history
  <2>2. Confinement
    BY <2>1 DEF InMenus, Confined
  <2>3. Excused => Excused'
    BY <2>1, PlaceStays DEF Excused, NoFirstPlay
  <2>4. Doing("load") => (Exists(todo) => Exists(todo)')
    BY <2>1 DEF Exists, Number, Pit
  <2> QED BY <2>1, <2>2, <2>3, <2>4, PlaceStays DEF Confinement, Doing, NoFirstPlay
<1> QED BY <1>1, <1>2, <1>3, <1>4, <1>5, <1>6, <1>7, <1>8, <1>9 DEF VmNext, Works, AllLinks, VmEvents

\* A button in a menu whose links fail starts no title nobody asked for.
THEOREM MenusHold == VmSpec => []BadLinkStaysInMenus
<1>1. VmInit => Confined
  BY DEF VmInit, Confined, InMenus
<1>2. VmSpec => [](Sound /\ Confined)
  BY <1>1, InitSound, NextSound, ConfinedNext, PTL DEF VmSpec
<1>3. Confined => BadLinkStaysInMenus
  BY DEF Confined, InMenus, Confinement, Excused, NoFirstPlay, BadLinkStaysInMenus
<1> QED BY <1>2, <1>3, PTL

(***************************************************************************)
(* The Menu key gives the title back: what the machine keeps of the title   *)
(* the key left, and what it does on the way back.                          *)
(***************************************************************************)
KeptPosition ==
  left # Null => /\ left \in Positions /\ left.pgcn \in 1..Len(Pit("TT", left.vts))
                 /\ ~called => rsm = left
ComingBack == left # Null /\ ~called /\ event.kind = "menu" /\ asked \in {"back", "rsm"}
SameRegisters == \A i \in 4..8 : regs.s[i] = left.s[i] \/ (i = 8 /\ asked = "rsm")
OnTheWay == todo = Resume(left.vts, left.pgcn, left.cell, FALSE) /\ SameRegisters
Back == todo = Returned /\ ok /\ dom = "TT" /\ Whole /\ GivenBack(left, Saved(cell))
Kept == KeptPosition /\ (ComingBack => OnTheWay \/ Back)

LEMMA KeptStays ==
  ASSUME Kept, UNCHANGED <<disc, left, called, rsm>>
  PROVE  KeptPosition'
BY DEF Kept, KeptPosition, Pit

LEMMA ElsewhereKept ==
  ASSUME Kept, UNCHANGED <<disc, left, called, rsm, event>>,
         asked' \in {"back", "rsm"} => asked' = asked,
         todo.op \notin {"returned", "resume"}
  PROVE  Kept'
<1>1. ~ComingBack
  BY DEF Kept, OnTheWay, Back, Resume, Returned
<1>2. ~ComingBack'
  BY <1>1 DEF ComingBack
<1> QED BY <1>2, KeptStays DEF Kept

LEMMA ResumeKept ==
  ASSUME Sound, Kept, ResumeTitle
  PROVE  Kept'
<1>1. UNCHANGED <<disc, left, called, rsm, event, asked>> /\ dom' = "TT" /\ todo.op = "resume"
  BY DEF ResumeTitle, Doing, memory
<1>2. ASSUME ComingBack'
      PROVE  Back'
  <2>1. ComingBack /\ left # Null
    BY <1>1, <1>2 DEF ComingBack
  <2>2. todo = Resume(left.vts, left.pgcn, left.cell, FALSE) /\ SameRegisters
    <3>1. ~Back
      BY <1>1 DEF Back, Returned
    <3> QED BY <2>1, <3>1 DEF Kept, OnTheWay
  <2>3. left \in Positions /\ left.pgcn \in 1..Len(Pit("TT", left.vts))
    BY <2>1 DEF Kept, KeptPosition
  <2>4. todo.vts = left.vts /\ todo.pgcn = left.pgcn /\ todo.cell = left.cell /\ todo.pre = FALSE
    BY <2>2 DEF Resume
  <2>5. /\ vts' = left.vts /\ pgcn' = left.pgcn /\ cell' = left.cell
        /\ loaded' = <<"TT", left.vts, left.pgcn>>
        /\ regs' = [regs EXCEPT !.s[6] = left.pgcn] /\ Done
    BY <2>3, <2>4 DEF ResumeTitle
  <2>6. \A i \in 4..8 : regs'.s[i] = IF i = 6 THEN left.pgcn ELSE regs.s[i]
    <3>1. regs.s \in [Sprms -> Words]
      BY Typed DEF RegTypes
    <3>2. regs'.s = [regs.s EXCEPT ![6] = left.pgcn]
      BY <2>5, Typed DEF RegTypes
    <3>3. \A i \in 4..8 : i \in Sprms
      BY DEF Sprms
    <3> QED BY <3>1, <3>2, <3>3
  <2>7. [i \in 4..8 |-> regs'.s[i]] = [left.s EXCEPT ![6] = left.pgcn,
                                           ![8] = IF asked = "back" THEN @ ELSE regs'.s[8]]
    <3>1. left.s \in [4..8 -> Words]
      BY <2>3 DEF Positions
    <3>2. asked \in {"back", "rsm"}
      BY <2>1 DEF ComingBack
    <3> QED BY <2>2, <2>6, <3>1, <3>2 DEF SameRegisters
  <2>8. GivenBack(left, Saved(cell))'
    BY <1>1, <2>5, <2>7 DEF GivenBack, Saved
  <2> QED BY <1>1, <2>5, <2>8 DEF Back, Done, Whole
<1> QED BY <1>1, <1>2, KeptStays DEF Kept

LEMMA RestoredTypes ==
  ASSUME NEW r \in RegTypes, rsm \in Positions, NEW n \in Nat
  PROVE  \A i \in 4..8 : WithButton(Restored(r), n).s[i] = rsm.s[i] \/ (i = 8 /\ n # 0)
BY DEF Restored, WithButton, RegTypes, Positions, Sprms

LEMMA RsmKept ==
  ASSUME Sound, Kept, LinkRsm
  PROVE  Kept'
<1>1. UNCHANGED <<disc, left, called, rsm, event>> /\ Doing("link") /\ Link.cmd = "LinkRSM"
  BY DEF LinkRsm, Linking, memory
<1>2. ASSUME ComingBack'
      PROVE  OnTheWay'
  <2>1. left # Null /\ ~called /\ left \in Positions /\ rsm = left
    BY <1>1, <1>2 DEF ComingBack, Kept, KeptPosition
  <2>2. /\ regs' = WithButton(Restored(regs), Link.d1)
        /\ todo' = Resume(left.vts, left.pgcn, left.cell, FALSE)
    BY <2>1 DEF LinkRsm, Do
  <2>3. Link.d1 \in Nat
    <3>1. Link \in LinkTypes
      BY <1>1, LinkIs DEF Link
    <3> QED BY <3>1, LinkFields, OfNumbers
  <2>4. Link.d1 # 0 => asked' = "rsm"
    <3>1. todo \in Commanded \/ todo = GoBack
      BY <1>1, Typed, TasksByOp DEF Doing
    <3>2. todo = GoBack => Link.d1 = 0
      BY DEF Link, GoBack
    <3>3. todo \in Commanded => todo.by # "key"
      BY DEF Commanded
    <3> QED BY <3>1, <3>2, <3>3 DEF LinkRsm
  <2>5. \A i \in 4..8 : regs'.s[i] = left.s[i] \/ (i = 8 /\ Link.d1 # 0)
    BY <2>1, <2>2, <2>3, Typed, RestoredTypes
  <2> QED BY <1>1, <2>2, <2>4, <2>5 DEF OnTheWay, SameRegisters
<1> QED BY <1>1, <1>2, KeptStays DEF Kept

LEMMA MenuInTitleKept ==
  ASSUME Sound, MenuInTitle
  PROVE  Kept'
<1>1. /\ disc' = disc /\ rsm' = Saved(cell) /\ asked' = "no"
      /\ left' = IF Whole THEN Saved(cell) ELSE Null
  BY DEF MenuInTitle, Begin
<1>2. ASSUME left' # Null
      PROVE  left' \in Positions /\ left'.pgcn \in 1..Len(Pit("TT", left'.vts)) /\ rsm' = left'
  <2>1. left' = Saved(cell) /\ Whole
    BY <1>1, <1>2
  <2>2. Saved(cell) \in Positions
    BY Typed, SavedTypes
  <2>3. left'.pgcn = pgcn /\ left'.vts = vts
    BY <2>1 DEF Saved
  <2>4. loaded[1] = "TT" /\ loaded[2] = vts /\ loaded[3] = pgcn /\ loaded # Null
    BY <2>1 DEF Whole, MenuInTitle, Null
  <2>5. pgcn \in 1..Len(Pit("TT", vts))
    BY <2>4, TypeParts DEF Sound, LoadedTypes
  <2> QED BY <1>1, <2>1, <2>2, <2>3, <2>5
<1>3. KeptPosition'
  BY <1>1, <1>2 DEF KeptPosition, Pit
<1>4. ~ComingBack'
  BY <1>1 DEF ComingBack
<1> QED BY <1>3, <1>4 DEF Kept

LEMMA KeptNext ==
  ASSUME Sound, Kept, [VmNext]_vmVars
  PROVE  Kept'
<1>1. CASE LoadPgc \/ LoadFailed \/ RunPre \/ RunPost \/ Recover
  <2>1. UNCHANGED <<disc, left, called, rsm, event, asked>>
    BY <1>1 DEF LoadPgc, LoadFailed, RunPre, RunPost, Recover, history, memory
  <2>2. todo.op \notin {"returned", "resume"}
    BY <1>1 DEF LoadPgc, LoadFailed, RunPre, RunPost, Recover, Doing
  <2> QED BY <2>1, <2>2, ElsewhereKept
<1>2. CASE AfterCellCommand
  <2>1. UNCHANGED <<disc, left, called, rsm, event>> /\ rest # Null
    BY <1>2 DEF AfterCellCommand, history, memory
  <2>2. ~ComingBack'
    BY <2>1 DEF ComingBack, Sound, Steady
  <2> QED BY <2>1, <2>2, KeptStays DEF Kept
<1>3. CASE LinkStay \/ LinkCell \/ LinkProgram \/ LinkPgc \/ Exit \/ JumpTitle \/ JumpMenu
  <2>1. UNCHANGED <<disc, left, called, rsm, event>>
    BY <1>3 DEF LinkStay, LinkCell, LinkProgram, LinkPgc, Exit, JumpTitle, JumpMenu, history, memory
  <2>2. todo.op = "link"
    BY <1>3 DEF LinkStay, LinkCell, LinkProgram, LinkPgc, Exit, JumpTitle, JumpMenu, Linking, Doing
  <2>3. asked' \in {asked, "title", "fp"}
    BY <1>3 DEF LinkStay, LinkCell, LinkProgram, LinkPgc, Exit, JumpTitle, JumpMenu, ToFirstPlay, history
  <2> QED BY <2>1, <2>2, <2>3, ElsewhereKept
<1>4. CASE CallMenu
  <2>1. UNCHANGED <<disc, left>> /\ called' = TRUE
    BY <1>4 DEF CallMenu
  <2> QED BY <2>1 DEF Kept, KeptPosition, ComingBack, Pit
<1>5. CASE Boot \/ MenuInMenu \/ NextEdge \/ PrevEdge \/ PlayNothing \/ PlayCell \/ \E n \in 1..4 : PressButton(n)
  <2>1. UNCHANGED <<disc, left, called, rsm>>
    BY <1>5 DEF Boot, MenuInMenu, NextEdge, PrevEdge, PlayNothing, PlayCell, PressButton, memory
  <2>2. asked' = "no"
    BY <1>5 DEF Boot, MenuInMenu, NextEdge, PrevEdge, PlayNothing, PlayCell, PressButton, Begin
  <2>3. ~ComingBack'
    BY <2>2 DEF ComingBack
  <2> QED BY <2>1, <2>3, KeptStays DEF Kept
<1>6. CASE UNCHANGED vmVars
  <2>1. UNCHANGED <<disc, dom, vts, pgcn, loaded, cell, regs, rsm, todo, ok, event, asked, left, called>>
    BY <1>6 DEF vmVars, place, memory, history
  <2>2. KeptPosition' /\ (ComingBack' => ComingBack)
    BY <2>1, KeptStays DEF ComingBack
  <2>3. OnTheWay => OnTheWay'
    BY <2>1 DEF OnTheWay, SameRegisters
  <2>4. Back => Back'
    BY <2>1 DEF Back, Whole, GivenBack, Saved
  <2> QED BY <2>2, <2>3, <2>4 DEF Kept
<1> QED BY <1>1, <1>2, <1>3, <1>4, <1>5, <1>6, ResumeKept, RsmKept, MenuInTitleKept
        DEF VmNext, Works, AllLinks, VmEvents

\* The Menu key gives a title back as it was left.
THEOREM TitleGivenBack == VmSpec => []ToggleGivesBack
<1>1. VmInit => Kept
  BY DEF VmInit, Kept, KeptPosition, ComingBack
<1>2. VmSpec => [](Sound /\ Kept)
  BY <1>1, InitSound, NextSound, KeptNext, PTL DEF VmSpec
<1>3. Kept => ToggleGivesBack
  BY DEF Kept, ComingBack, OnTheWay, Back, Resume, Returned, ToggleGivesBack
<1> QED BY <1>2, <1>3, PTL

(***************************************************************************)
(* The guess costs no Root menu: where the playing title's own Root is,     *)
(* from the press of the Menu key until something is shown.                 *)
(***************************************************************************)
Own == Entry("VTSM", event.vts, Root)
Hunting == event.kind = "menu" /\ event.from = "TT" /\ fuse <= JumpFuse /\ PlainRoot(event.vts)
Unasked == asked \notin {"title", "rsm"}
\* The menus' own retries come first, then the title's Root.
Held(s) == \E n \in 1..Len(s) : s[n] = Own /\ \A m \in 1..n - 1 : s[m] = LastMenu
Roams ==
  \/ Doing("fail")
  \/ Doing("load") /\ todo.dom # "TT"
  \/ dom # "TT" /\ todo \in {Pre, Post} \union Commanded
Searching == Held(alts) /\ todo # GoBack /\ todo # Returned /\ (Unasked => Roams)
Shows == todo = Pre /\ dom = "VTSM" /\ Now.pre = <<>> /\ Now.cells # <<>>
Ended == todo = Returned /\ (Unasked => dom # "TT")
Guarded == Hunting => todo = Own \/ Searching \/ Shows \/ Ended

LEMMA HeldBehind ==
  ASSUME alts \in Seq(Alternatives), Held(alts), event' = event, alts' = alts \/ alts' = <<LastMenu>> \o alts
  PROVE  Held(alts)'
<1>1. PICK n \in 1..Len(alts) : alts[n] = Own /\ \A m \in 1..n - 1 : alts[m] = LastMenu
  BY DEF Held
<1>2. Own' = Own
  BY DEF Own, Entry, Load
<1>3. CASE alts' = alts
  BY <1>1, <1>2, <1>3 DEF Held
<1>4. CASE alts' = <<LastMenu>> \o alts
  <2>1. <<LastMenu>> \in Seq(Alternatives) /\ Len(<<LastMenu>>) = 1
    BY DEF Alternatives
  <2>2. Len(alts') = 1 + Len(alts) /\ Len(alts) \in Nat
    BY <1>4, <2>1, ConcatProperties, LenProperties
  <2>3. \A i \in 1..Len(alts') : alts'[i] = IF i =< 1 THEN LastMenu ELSE alts[i - 1]
    BY <1>4, <2>1, <2>2, ConcatProperties
  <2> DEFINE k == n + 1
  <2>4. k \in 1..Len(alts') /\ alts'[k] = Own'
    BY <1>1, <1>2, <2>2, <2>3
  <2>5. ASSUME NEW m \in 1..k - 1
        PROVE  alts'[m] = LastMenu
    BY <1>1, <2>2, <2>3
  <2> HIDE DEF k
  <2>6. LastMenu' = LastMenu
    BY DEF LastMenu
  <2> QED BY <2>4, <2>5, <2>6 DEF Held
<1> QED BY <1>3, <1>4

LEMMA HeldFirst ==
  ASSUME alts \in Seq(Alternatives), Held(alts), event' = event, alts' = Tail(alts)
  PROVE  /\ alts # <<>>
         /\ Head(alts) = Own \/ (Head(alts) = LastMenu /\ Held(alts)')
<1>1. PICK n \in 1..Len(alts) : alts[n] = Own /\ \A m \in 1..n - 1 : alts[m] = LastMenu
  BY DEF Held
<1>2. Own' = Own
  BY DEF Own, Entry, Load
<1>3. alts # <<>> /\ Len(alts) \in Nat
  BY <1>1, LenProperties, EmptySeq
<1>4. Head(alts) = alts[1] /\ Len(alts') = Len(alts) - 1 /\ \A i \in 1..Len(alts') : alts'[i] = alts[i + 1]
  BY <1>3, HeadTailProperties
<1>5. CASE n = 1
  BY <1>1, <1>3, <1>4, <1>5
<1>6. CASE n # 1
  <2> DEFINE k == n - 1
  <2>1. k \in 1..Len(alts') /\ alts'[k] = Own'
    BY <1>1, <1>2, <1>3, <1>4, <1>6
  <2>2. ASSUME NEW m \in 1..k - 1
        PROVE  alts'[m] = LastMenu
    BY <1>1, <1>3, <1>4, <2>1
  <2>3. Head(alts) = LastMenu
    BY <1>1, <1>4, <1>6
  <2> HIDE DEF k
  <2> QED BY <1>3, <2>1, <2>2, <2>3 DEF Held, LastMenu
<1> QED BY <1>5, <1>6

LEMMA SearchOn ==
  ASSUME Sound, Searching, event' = event, alts' = alts \/ alts' = <<LastMenu>> \o alts,
         todo' \in {Pre, Post, Fail} \union Commanded \union Loads \union Resumes,
         Unasked' => Roams'
  PROVE  Searching'
<1>1. Held(alts)'
  BY Typed, HeldBehind DEF Searching
<1>2. todo' # GoBack /\ todo' # Returned
  BY DEF Pre, Post, Fail, Commanded, Loads, Resumes, GoBack, Returned
<1> QED BY <1>1, <1>2 DEF Searching, GoBack, Returned

LEMMA SearchEnds ==
  ASSUME Searching, Done, Unasked' => Unasked /\ dom' = dom, todo \in {Pre, Post} \union Commanded
  PROVE  Ended'
<1>1. ~Doing("fail") /\ ~Doing("load")
  BY DEF Doing, Pre, Post, Commanded
<1>2. Unasked => dom # "TT"
  BY <1>1 DEF Searching, Roams
<1> QED BY <1>2 DEF Ended, Done, Returned

LEMMA SearchDoes ==
  ASSUME Sound, Searching, UNCHANGED <<event, asked, dom>>, todo \in {Pre, Post} \union Commanded,
         Done \/ \E t \in {Pre, Post, Fail} \union Commanded : Do(t)
  PROVE  Searching' \/ Ended'
<1>1. Unasked' = Unasked
  BY DEF Unasked
<1>2. CASE Done
  BY <1>1, <1>2, SearchEnds
<1>3. ASSUME NEW t \in {Pre, Post, Fail} \union Commanded, Do(t)
      PROVE  Searching'
  <2>1. todo' = t /\ alts' = alts
    BY <1>3 DEF Do
  <2>2. Unasked => dom # "TT"
    <3>1. ~Doing("fail") /\ ~Doing("load")
      BY DEF Doing, Pre, Post, Commanded
    <3> QED BY <3>1 DEF Searching, Roams
  <2>3. Unasked' => Roams'
    <3>1. t = Fail \/ t \in {Pre, Post} \union Commanded
      OBVIOUS
    <3> QED BY <1>1, <2>1, <2>2, <3>1 DEF Roams, Doing, Fail, Pre, Post, Commanded
  <2> QED BY <2>1, <2>3, SearchOn
<1> QED BY <1>2, <1>3

LEMMA SearchLoads ==
  ASSUME Sound, Searching, event' = event, NEW l \in Loads, todo' = l,
         alts' = alts \/ alts' = <<LastMenu>> \o alts, Unasked' => l.dom # "TT"
  PROVE  Searching'
<1>1. Unasked' => Roams'
  BY Operations DEF Roams, Doing
<1> QED BY <1>1, SearchOn

LEMMA LoadSearches ==
  ASSUME Sound, Searching, LoadPgc \/ LoadFailed
  PROVE  Searching'
<1>1. /\ event' = event /\ asked' = asked /\ alts' = alts /\ Doing("load")
      /\ (todo' = Pre /\ dom' = todo.dom) \/ todo' = Fail
  BY DEF LoadPgc, LoadFailed, Do, history
<1>2. Unasked => todo.dom # "TT"
  <2>1. ~Doing("fail") /\ todo \notin {Pre, Post} \union Commanded
    BY <1>1 DEF Doing, Pre, Post, Commanded
  <2> QED BY <2>1 DEF Searching, Roams
<1>3. Unasked' => Roams'
  BY <1>1, <1>2 DEF Unasked, Roams, Doing, Fail
<1> QED BY <1>1, <1>3, SearchOn

LEMMA ResumeSearches ==
  ASSUME Sound, Searching, ResumeTitle
  PROVE  Searching' \/ Ended'
<1>1. event' = event /\ asked' = asked /\ Doing("resume")
  BY DEF ResumeTitle
<1>2. ~Unasked
  BY <1>1 DEF Searching, Roams, Doing, Pre, Post, Commanded
<1>3. ~Unasked'
  BY <1>1, <1>2 DEF Unasked
<1>4. Do(Pre) \/ Do(Fail) \/ Done
  BY DEF ResumeTitle
<1>5. CASE Done
  BY <1>3, <1>5 DEF Done, Ended, Returned
<1>6. CASE Do(Pre) \/ Do(Fail)
  BY <1>1, <1>3, <1>6, SearchOn DEF Do
<1> QED BY <1>4, <1>5, <1>6

LEMMA RecoverSearches ==
  ASSUME Sound, Searching, Recover
  PROVE  todo' = Own' \/ Searching'
<1>1. event' = event /\ asked' = asked
  BY DEF Recover, history
<1>2. alts \in Seq(Alternatives)
  BY Typed
<1>3. alts # <<>>
  <2>1. \E n \in 1..Len(alts) : TRUE
    BY DEF Searching, Held
  <2> QED BY <1>2, <2>1, EmptySeq
<1>4. /\ alts' = Tail(alts)
      /\ todo' = IF Head(alts) # LastMenu THEN Head(alts)
                 ELSE IF last # Null THEN LoadPgcn(last[1], last[2], last[3])
                 ELSE Fail
  BY <1>3 DEF Recover
<1>5. Head(alts) = Own \/ (Head(alts) = LastMenu /\ Held(alts)')
  BY <1>1, <1>2, <1>4, HeldFirst DEF Searching
<1>6. CASE Head(alts) = Own
  <2>1. Own # LastMenu /\ Own' = Own
    BY <1>1 DEF Own, Entry, Load, LastMenu
  <2> QED BY <1>4, <1>6, <2>1
<1>7. CASE Head(alts) = LastMenu /\ Held(alts)'
  <2>1. CASE last = Null
    <3>1. todo' = Fail
      BY <1>4, <1>7, <2>1
    <3> QED BY <1>7, <3>1 DEF Searching, Roams, Doing, Fail, GoBack, Returned
  <2>2. CASE last # Null
    <3> DEFINE l == LoadPgcn(last[1], last[2], last[3])
    <3>1. todo' = l
      BY <1>4, <1>7, <2>2
    <3>2. l \in Loads /\ l.dom \in Menus
      BY <2>2, LastMenuTypes DEF LoadPgcn, Load
    <3> HIDE DEF l
    <3>3. l.op = "load" /\ l # Returned /\ l # GoBack
      BY <3>2 DEF Loads, Returned, GoBack
    <3> QED BY <1>7, <3>1, <3>2, <3>3 DEF Searching, Roams, Doing, Menus, GoBack, Returned
  <2> QED BY <2>1, <2>2
<1> QED BY <1>5, <1>6, <1>7

LEMMA BlockSearches ==
  ASSUME Sound, Searching, RunPre \/ RunPost
  PROVE  Searching' \/ Ended'
<1> DEFINE pre == EvalBlock(Now.pre, regs)
           post == EvalBlock(Now.post, regs)
           l == LoadPgcn(dom, vts, Now.next)
<1>1. UNCHANGED <<event, asked, dom>> /\ todo \in {Pre, Post}
  <2>1. todo = Pre \/ todo = Post
    BY Typed, TasksByOp DEF RunPre, RunPost, Doing
  <2> QED BY <2>1 DEF RunPre, RunPost, place, history
<1>2. loaded # Null
  BY <1>1 DEF Sound, Steady
<1>3. pre.link \in {NoLink} \union LinkTypes /\ post.link \in {NoLink} \union LinkTypes
  BY <1>2, NowSound, PgcFields, Typed, EvalBlockTypes
<1>4. l \in Loads /\ l.dom = dom
  BY <1>2, NowSound, PgcFields, Typed, LoadPgcnTypes DEF LoadPgcn, Load
<1>5. \/ pre.link # NoLink /\ Do(Follow(pre.link))
      \/ post.link # NoLink /\ Do(Follow(post.link))
      \/ Do(Post) \/ Do(Fail) \/ Done
      \/ Do(l)
  BY DEF RunPre, RunPost, Stops
<1> HIDE DEF pre, post, l
<1>6. CASE Do(l)
  <2>1. Unasked' = Unasked
    BY <1>1 DEF Unasked
  <2>2. Unasked => dom # "TT"
    <3>1. ~Doing("fail") /\ ~Doing("load")
      BY <1>1 DEF Doing, Pre, Post
    <3> QED BY <3>1 DEF Searching, Roams
  <2> QED BY <1>1, <1>4, <1>6, <2>1, <2>2, SearchLoads DEF Do
<1>7. CASE Done \/ \E t \in {Pre, Post, Fail} \union Commanded : Do(t)
  BY <1>1, <1>7, SearchDoes
<1> QED BY <1>3, <1>5, <1>6, <1>7, FollowTypes

LEMMA LinkSearching ==
  ASSUME Sound, Searching, Doing("link")
  PROVE  /\ todo \in Commanded /\ todo.by = "command"
         /\ Unasked => dom # "TT"
         /\ Link \in LinkTypes /\ loaded # Null
<1>1. todo \in Commanded
  BY Typed, TasksByOp DEF Searching, Doing
<1>2. todo.by = "command"
  BY <1>1 DEF Commanded
<1>3. Unasked => dom # "TT"
  BY <1>1 DEF Searching, Roams, Doing
<1>4. loaded # Null
  BY <1>1 DEF Sound, Steady
<1> QED BY <1>1, <1>2, <1>3, <1>4, LinkIs DEF Link

LEMMA StaySearches ==
  ASSUME Sound, Searching, LinkStay \/ LinkCell \/ LinkProgram \/ Exit
  PROVE  Searching' \/ Ended'
<1>1. UNCHANGED <<event, asked, dom>> /\ Doing("link")
  BY DEF LinkStay, LinkCell, LinkProgram, Exit, Linking, place, history
<1>2. Done \/ Do(Post)
  BY DEF LinkStay, LinkCell, LinkProgram, Exit, Stops
<1> QED BY <1>1, <1>2, LinkSearching, SearchDoes

LEMMA LinkPgcSearches ==
  ASSUME Sound, Searching, LinkPgc
  PROVE  Searching' \/ Ended'
<1> DEFINE n == CASE Link.cmd = "LinkTopPGC"  -> pgcn
                  [] Link.cmd = "LinkNextPGC" -> Now.next
                  [] Link.cmd = "LinkPrevPGC" -> Now.prev
                  [] Link.cmd = "LinkGoUpPGC" -> Now.goup
                  [] OTHER                    -> Link.d1
           l == LoadPgcn(dom, vts, n)
<1>1. UNCHANGED <<event, asked, dom>> /\ Doing("link")
  BY DEF LinkPgc, Linking, place, history
<1>2. Do(Post) \/ JumpTo(l) \/ Done
  BY DEF LinkPgc, Stops
<1>3. n \in Numbers
  <2>1. Link.d1 \in Numbers
    BY <1>1, LinkSearching, LinkFields
  <2>2. Now.next \in Numbers /\ Now.prev \in Numbers /\ Now.goup \in Numbers
    BY <1>1, LinkSearching, NowSound, PgcFields
  <2> QED BY <2>1, <2>2, Typed
<1> HIDE DEF n
<1>4. l \in Loads /\ l.dom = dom
  BY <1>3, Typed, LoadPgcnTypes DEF LoadPgcn, Load
<1> HIDE DEF l
<1>5. CASE JumpTo(l)
  <2>1. Unasked' => dom # "TT"
    BY <1>1, LinkSearching DEF Unasked
  <2>2. todo' = l /\ (alts' = alts \/ alts' = <<LastMenu>> \o alts)
    BY <1>5 DEF JumpTo
  <2> QED BY <1>1, <1>4, <2>1, <2>2, SearchLoads
<1>6. CASE Do(Post) \/ Done
  BY <1>1, <1>6, LinkSearching, SearchDoes
<1> QED BY <1>2, <1>5, <1>6

LEMMA MenuSearches ==
  ASSUME Sound, Searching, JumpMenu \/ CallMenu
  PROVE  Searching'
<1> DEFINE l == MenuOf(Link.cmd)
<1>1. l \in Loads /\ l.dom \in Menus \union {"FP"}
  BY MenuOfTypes DEF JumpMenu, CallMenu, Linking
<1>2. event' = event /\ JumpTo(l)
  BY DEF JumpMenu, CallMenu
<1> HIDE DEF l
<1>3. todo' = l /\ (alts' = alts \/ alts' = <<LastMenu>> \o alts) /\ l.dom # "TT"
  BY <1>1, <1>2 DEF JumpTo, Menus
<1> QED BY <1>1, <1>2, <1>3, SearchLoads

LEMMA TitleSearches ==
  ASSUME Sound, Searching, LinkRsm \/ JumpTitle
  PROVE  Searching' \/ Ended'
<1>1. event' = event /\ Doing("link")
  BY DEF LinkRsm, JumpTitle, Linking
<1>2. asked' \in {"title", "rsm"}
  BY <1>1, LinkSearching DEF LinkRsm, JumpTitle
<1>3. ~Unasked'
  BY <1>2 DEF Unasked
<1>4. CASE Done
  BY <1>3, <1>4 DEF Done, Ended, Returned
<1>5. CASE ~Done
  <2>1. alts' = alts
    BY <1>5 DEF LinkRsm, JumpTitle, Stops, Do
  <2>2. todo' \in Loads \union Resumes \union {Fail}
    <3>1. CASE LinkRsm
      <4>1. rsm # Null /\ todo' = Resume(rsm.vts, rsm.pgcn, rsm.cell, FALSE)
        BY <1>5, <3>1 DEF LinkRsm, Stops, Do
      <4>2. rsm \in Positions
        BY <4>1, Typed
      <4>3. rsm.pgcn \in Nat /\ rsm.vts \in Nat /\ rsm.cell \in Nat
        BY <4>2, OfNumbers DEF Positions
      <4> QED BY <4>1, <4>3 DEF Resume, Resumes
    <3>2. CASE JumpTitle
      <4>1. (todo' \in Tasks) /\ (todo' = Fail \/ todo'.op = "load")
        <5>1. Sound'
          BY <3>2, JumpTitleTypes
        <5>2. todo' \in Tasks
          BY <5>1, TypeParts DEF Sound, VmTypes
        <5>3. todo' = Fail \/ todo'.op = "load"
          BY <3>2 DEF JumpTitle, Do, Load
        <5> QED BY <5>2, <5>3
      <4>2. todo' \in Loads \union {Fail}
        BY <4>1, TasksByOp
      <4> QED BY <4>2
    <3> QED BY <3>1, <3>2
  <2> QED BY <1>1, <1>3, <2>1, <2>2, SearchOn
<1> QED BY <1>4, <1>5

LEMMA OwnPlays ==
  ASSUME Sound, event.kind = "menu", PlainRoot(event.vts), todo = Own
  PROVE  /\ LoadFailed => fuse' > JumpFuse
         /\ LoadPgc => Shows'
<1> DEFINE v == event.vts
           pit == Pit("VTSM", v)
           n == Pick(pit, Root)
<1>1. todo.op = "load" /\ todo.dom = "VTSM" /\ todo.vts = v /\ todo.pgcn = 0 /\ todo.id = Root
  BY DEF Own, Entry, Load
<1>2. pit \in Pgcits
  BY Typed, PitTypes DEF Menus
<1>3. pit # <<>> /\ pit[n].pgc.pre = <<>> /\ pit[n].pgc.cells # <<>>
  BY DEF PlainRoot
<1>4. Number(todo) = n
  BY <1>1 DEF Number
<1>5. n \in 1..Len(pit)
  BY <1>2, <1>3, PickRange
<1>6. Exists(todo)
  BY <1>1, <1>4, <1>5 DEF Exists
<1>7. ASSUME LoadFailed
      PROVE  fuse' > JumpFuse
  <2>1. fuse >= JumpFuse /\ fuse' = fuse + 1
    BY <1>6, <1>7 DEF LoadFailed, Spend
  <2> QED BY <2>1, Typed, JumpAssumption
<1>8. ASSUME LoadPgc
      PROVE  Shows'
  <2>1. todo' = Pre /\ dom' = "VTSM" /\ loaded' = <<"VTSM", v, n>> /\ disc' = disc
    BY <1>1, <1>4, <1>8 DEF LoadPgc, Do
  <2>2. Now' = pit[n].pgc
    BY <2>1 DEF Now, Pgc, Pit
  <2> QED BY <1>3, <2>1, <2>2 DEF Shows, Pre
<1> QED BY <1>7, <1>8

LEMMA ShowsEnds ==
  ASSUME Sound, Shows, RunPre
  PROVE  Ended'
<1>1. EvalBlock(Now.pre, regs).link = NoLink
  BY Typed, EvalNothing DEF Shows
<1>2. Done
  BY <1>1 DEF RunPre, Shows
<1>3. dom' = "VTSM"
  BY DEF RunPre, place, Shows
<1> QED BY <1>2, <1>3 DEF Ended, Done, Returned

LEMMA MenuInTitleGuarded ==
  ASSUME Sound, MenuInTitle
  PROVE  Guarded'
<1> DEFINE guess  == disc.best_menu_vts
           boot   == ~seen /\ guess # 0 /\ guess # vts
           first  == IF boot THEN guess ELSE vts
           second == IF boot THEN vts ELSE guess
<1>1. event'.vts = vts /\ dom' = "TT"
  BY DEF MenuInTitle, Begin, place
<1>2. /\ todo' = Entry("VTSM", first, Root)
      /\ alts' = <<Entry("VTSM", second, Root), Entry("VMGM", 0, Title), GoBack>>
  BY DEF MenuInTitle, MenuCallRoot
<1>3. Own' = Entry("VTSM", vts, Root)
  BY <1>1 DEF Own, Entry, Load
<1>4. CASE ~boot
  BY <1>2, <1>3, <1>4 DEF Guarded
<1>5. CASE boot
  <2>1. alts' = <<Own', Entry("VMGM", 0, Title), GoBack>>
    BY <1>2, <1>3, <1>5
  <2>2. 1 \in 1..Len(alts') /\ alts'[1] = Own' /\ \A m \in 1..1 - 1 : alts'[m] = LastMenu
    BY <2>1
  <2>3. Held(alts)'
    BY <2>2 DEF Held, LastMenu
  <2>4. todo'.op = "load" /\ todo'.dom = "VTSM"
    BY <1>2 DEF Entry, Load
  <2>5. Searching'
    BY <2>3, <2>4 DEF Searching, Roams, Doing, GoBack, Returned
  <2> QED BY <2>5 DEF Guarded
<1> QED BY <1>4, <1>5

LEMMA GuardedNext ==
  ASSUME Sound, Guarded, [VmNext]_vmVars
  PROVE  Guarded'
<1>1. CASE Works
  <2> SUFFICES ASSUME Hunting'
               PROVE  todo' = Own' \/ Searching' \/ Shows' \/ Ended'
    BY DEF Guarded
  <2>1. event' = event /\ disc' = disc
    BY <1>1 DEF Works, AllLinks, LoadPgc, LoadFailed, ResumeTitle, RunPre, RunPost, Recover, LinkStay,
                LinkCell, LinkProgram, LinkPgc, LinkRsm, Exit, JumpTitle, JumpMenu, CallMenu,
                AfterCellCommand, history
  <2>2. event.kind = "menu" /\ event.from = "TT" /\ PlainRoot(event.vts)
    BY <2>1 DEF Hunting, PlainRoot, Pit
  <2>3. ~AfterCellCommand
    BY <2>2 DEF AfterCellCommand, Sound, Steady
  <2>4. fuse' = fuse \/ fuse' = fuse + 1
    BY <1>1, <2>3 DEF Works, AllLinks, LoadPgc, LoadFailed, ResumeTitle, RunPre, RunPost, Recover,
                LinkStay, LinkCell, LinkProgram, LinkPgc, LinkRsm, Exit, JumpTitle, JumpMenu, CallMenu, Spend
  <2>5. Hunting
    <3>1. fuse \in Nat /\ JumpFuse \in Nat /\ fuse' =< JumpFuse
      BY Typed, JumpAssumption DEF Hunting
    <3>2. fuse =< JumpFuse
      BY <2>4, <3>1
    <3> QED BY <2>2, <3>2 DEF Hunting
  <2>6. todo # Returned
    <3>1. todo.op \in {"load", "resume", "pre", "post", "fail", "link"}
      BY <1>1, <2>3 DEF Works, AllLinks, LoadPgc, LoadFailed, ResumeTitle, RunPre, RunPost, Recover,
                LinkStay, LinkCell, LinkProgram, LinkPgc, LinkRsm, Exit, JumpTitle, JumpMenu, CallMenu,
                Linking, Doing
    <3>2. Returned.op = "returned"
      BY DEF Returned
    <3> QED BY <3>1, <3>2
  <2>7. CASE todo = Own
    <3>1. todo.op = "load"
      BY <2>7 DEF Own, Entry, Load
    <3>2. LoadPgc \/ LoadFailed
      BY <1>1, <2>3, <3>1 DEF Works, AllLinks, ResumeTitle, RunPre, RunPost, Recover, LinkStay,
                LinkCell, LinkProgram, LinkPgc, LinkRsm, Exit, JumpTitle, JumpMenu, CallMenu, Linking, Doing
    <3>3. LoadFailed => FALSE
      <4>1. LoadFailed => fuse' > JumpFuse
        BY <2>2, <2>7, OwnPlays
      <4>2. fuse' =< JumpFuse /\ fuse' \in Int /\ JumpFuse \in Int
        BY <2>4, Typed, JumpAssumption DEF Hunting
      <4> QED BY <4>1, <4>2
    <3> QED BY <2>2, <2>7, <3>2, <3>3, OwnPlays
  <2>8. CASE Searching
    BY <1>1, <2>3, <2>8, LoadSearches, ResumeSearches, RecoverSearches, BlockSearches, StaySearches,
       LinkPgcSearches, MenuSearches, TitleSearches DEF Works, AllLinks
  <2>9. CASE Shows
    <3>1. todo.op = "pre"
      BY <2>9 DEF Shows, Pre
    <3>2. RunPre
      BY <1>1, <2>3, <3>1 DEF Works, AllLinks, LoadPgc, LoadFailed, ResumeTitle, RunPost, Recover, LinkStay,
                LinkCell, LinkProgram, LinkPgc, LinkRsm, Exit, JumpTitle, JumpMenu, CallMenu, Linking, Doing
    <3> QED BY <2>9, <3>2, ShowsEnds
  <2> QED BY <2>5, <2>6, <2>7, <2>8, <2>9 DEF Guarded, Ended
<1>2. CASE Boot \/ NextEdge \/ PrevEdge \/ PlayNothing \/ PlayCell \/ \E n \in 1..4 : PressButton(n)
  <2>1. Begin("boot") \/ Begin("edge") \/ Begin("play") \/ Begin("button")
    BY <1>2 DEF Boot, NextEdge, PrevEdge, PlayNothing, PlayCell, PressButton
  <2> QED BY <2>1 DEF Begin, Guarded, Hunting
<1>3. CASE MenuInMenu
  <2>1. event'.from = dom /\ dom # "TT"
    BY <1>3 DEF MenuInMenu, Begin
  <2> QED BY <2>1 DEF Guarded, Hunting
<1>4. CASE MenuInTitle
  BY <1>4, MenuInTitleGuarded
<1>5. CASE UNCHANGED vmVars
  <2>1. UNCHANGED <<disc, dom, vts, loaded, todo, alts, event, asked, fuse>>
    BY <1>5 DEF vmVars, place, memory, history
  <2>2. Hunting' = Hunting /\ Own' = Own /\ Ended' = Ended
    BY <2>1 DEF Hunting, PlainRoot, Pit, Own, Entry, Load, Ended, Unasked, Returned
  <2>3. Searching => Searching'
    BY <2>1, <2>2 DEF Searching, Held, Unasked, Roams, Doing, LastMenu, GoBack, Returned, Pre, Post
  <2>4. Shows => Shows'
    BY <2>1 DEF Shows, Now, Pgc, Pit, Pre
  <2> QED BY <2>1, <2>2, <2>3, <2>4 DEF Guarded
<1> QED BY <1>1, <1>2, <1>3, <1>4, <1>5 DEF VmNext, VmEvents

\* The guess at the disc's menu never costs the title's own Root.
THEOREM RootKept == VmSpec => []GuessCostsNothing
<1>1. VmInit => Guarded
  BY DEF VmInit, Guarded, Hunting
<1>2. VmSpec => [](Sound /\ Guarded)
  BY <1>1, InitSound, NextSound, GuardedNext, PTL DEF VmSpec
<1>3. Guarded => GuessCostsNothing
  <2> SUFFICES ASSUME Guarded, todo = Returned, event.kind = "menu", event.from = "TT", fuse =< JumpFuse,
                      PlainRoot(event.vts)
               PROVE  dom # "TT" \/ ~Unasked
    BY DEF GuessCostsNothing, Unasked
  <2>1. Hunting
    BY DEF Hunting
  <2>2. todo # Own /\ ~Searching /\ ~Shows
    BY DEF Own, Entry, Load, Searching, Shows, Returned, Pre
  <2> QED BY <2>1, <2>2 DEF Guarded, Ended
<1> QED BY <1>2, <1>3, PTL

(***************************************************************************)
(* NavShell.                                                               *)
(***************************************************************************)
USE DEF Doms, Events, UserKeys, Fallbacks, Loading, Settled, InCells, Waits

(***************************************************************************)
(* The ways a handler ends keep the types.                                 *)
(***************************************************************************)
Parts == vm' \in Machines /\ wr' \in Wrappers /\ rd' \in Readers /\ late' \in BOOLEAN

LEMMA ArmedType == ASSUME TypeOK, NEW e PROVE ArmedAfter(e) \in BOOLEAN
BY DEF TypeOK, ArmedAfter, Wrappers

LEMMA LeaveTypes ==
  ASSUME TypeOK, NEW m \in Machines, NEW d \in Doms, Leave(m, d)
  PROVE  vm' \in Machines /\ wr' \in Wrappers /\ late' \in BOOLEAN
BY DEF TypeOK, Leave, LateAfter, ArmedAfter, Wrappers

LEMMA ParkedType == ASSUME NEW m \in Machines PROVE Parked(m) \in Machines
BY DEF Parked, Machines

LEMMA DomType == ASSUME TypeOK PROVE wr.dom \in Doms /\ wr.lm \in BOOLEAN
BY DEF TypeOK, Wrappers

LEMMA IdleTypes == ASSUME TypeOK, NEW m \in Machines, Idle(m) PROVE Parts
BY LeaveTypes, ParkedType, DomType DEF Idle, Parts, TypeOK

LEMMA AdvancedTypes == ASSUME NEW r \in Readers PROVE Advanced(r) \subseteq Readers
BY DEF Advanced, Readers

LEMMA ToldTypes ==
  ASSUME NEW r \in Readers, NEW m, NEW pulse \in {"adv", "replay", "seek"}
  PROVE  Told(r, m, pulse) \subseteq Readers
BY AdvancedTypes DEF Told, Readers

LEMMA TellTypes ==
  ASSUME TypeOK, NEW m \in Machines, NEW pulse \in {"adv", "replay", "seek"}, Tell(m, pulse)
  PROVE  Parts
BY LeaveTypes, ParkedType, DomType, ToldTypes DEF Tell, Parts, TypeOK

LEMMA RunBlockTypes ==
  ASSUME TypeOK, NEW m \in Machines, NEW b \in {"pre", "post", "cell", "btn"}, RunBlock(m, b)
  PROVE  Parts
<1>1. vm' \in Machines
  BY DEF RunBlock, Machines
<1>2. wr' \in Wrappers
  BY ArmedType DEF RunBlock, Wrappers, TypeOK
<1> QED
  BY <1>1, <1>2 DEF RunBlock, LateAfter, Parts, TypeOK

LEMMA LatchedType ==
  ASSUME NEW r \in Readers, NEW t \in Doms, NEW n \in BOOLEAN, NEW ttn \in BOOLEAN
  PROVE  Latched(r, t, n, ttn) \in Readers
BY DEF Latched, Readers, Jumps

LEMMA JumpFromTypes ==
  ASSUME TypeOK, NEW m \in Machines, NEW d \in Doms, NEW t \in Doms, NEW ttn \in BOOLEAN,
         NEW f \in Fallbacks, JumpFrom(m, d, t, ttn, f)
  PROVE  Parts
<1>1. [m EXCEPT !.pc = "wait", !.fb = f] \in Machines
  BY DEF Machines
<1>2. FromWait(m) \in BOOLEAN
  BY DEF FromWait, Machines
<1> QED
  BY <1>1, <1>2, LeaveTypes, LatchedType DEF JumpFrom, Parts, TypeOK

LEMMA JumpTypes ==
  ASSUME TypeOK, NEW m \in Machines, NEW d \in Doms, NEW f \in Fallbacks, Jump(m, d, f)
  PROVE  Parts
BY JumpFromTypes DEF Jump

LEMMA JumpBareTypes ==
  ASSUME TypeOK, NEW m \in Machines, NEW d \in Doms, NEW f \in Fallbacks, JumpBare(m, d, f)
  PROVE  Parts
<1>1. [m EXCEPT !.skip = TRUE] \in Machines
  BY DEF Machines
<1> QED
  BY <1>1, JumpTypes DEF JumpBare

(***************************************************************************)
(* The handlers.                                                           *)
(***************************************************************************)
LEMMA ChainStarts == 0 \in 0..2 * ChainMax + 1
BY ShellAssumption DEF ShellAssumption

LEMMA ActivatedType == ASSUME NEW m \in Machines PROVE Activated(m) \in Machines
BY ChainStarts DEF Activated, Machines

LEMMA TitleSavedType == ASSUME NEW m \in Machines PROVE TitleSaved(m) \in Machines
BY DEF TitleSaved, Machines

LEMMA DeadEndTypes == ASSUME TypeOK, NEW m \in Machines, DeadEnd(m) PROVE Parts
<1>1. [m EXCEPT !.fb = "vtsm"] \in Machines
  BY DEF Machines
<1> QED
  BY <1>1, IdleTypes DEF DeadEnd

LEMMA PostOrTellTypes == ASSUME TypeOK, NEW m \in Machines, PostOrTell(m) PROVE Parts
BY RunBlockTypes, TellTypes DEF PostOrTell

LEMMA LoadTakenTypes == ASSUME TypeOK, NEW m0 \in Machines, LoadTaken(m0) PROVE Parts
<1> DEFINE m == IF wr.dom = "TT" THEN [m0 EXCEPT !.cvm = FALSE] ELSE m0
<1>1. m \in Machines
  <2>1. [m0 EXCEPT !.cvm = FALSE] \in Machines
    BY DEF Machines
  <2> QED
    BY <2>1
<1> HIDE DEF m
<1>2. \/ Idle([m EXCEPT !.skip = FALSE, !.fb = "none"])
      \/ RunBlock(m, "pre") \/ RunBlock(m, "post") \/ DeadEnd(m)
  BY DEF LoadTaken, m
<1>3. [m EXCEPT !.skip = FALSE, !.fb = "none"] \in Machines
  BY <1>1 DEF Machines
<1> QED
  BY <1>1, <1>2, <1>3, IdleTypes, RunBlockTypes, DeadEndTypes

LEMMA ErrorTypes == ASSUME TypeOK, EError PROVE Parts
<1> DEFINE m == [vm EXCEPT !.blk = "btn", !.nat = FALSE]
<1>1. m \in Machines /\ [m EXCEPT !.fb = "none"] \in Machines
  BY DEF Machines, TypeOK
<1> HIDE DEF m
<1>2. \/ Idle([m EXCEPT !.fb = "none"])
      \/ Jump(m, "menu", "vtsm2") \/ Jump(m, "menu", "vmgm") \/ Jump(m, "menu", "vtsm")
      \/ JumpBare(m, "TT", "gaveup") \/ Jump(m, "TT", "gaveup")
  BY DEF EError, m
<1> QED
  BY <1>1, <1>2, IdleTypes, JumpTypes, JumpBareTypes

LEMMA ELoadedTypes == ASSUME TypeOK, ELoaded PROVE Parts
<1>1. [vm EXCEPT !.nat = FALSE, !.fb = IF ~vm.skip /\ rd.pgc.pre THEN "none" ELSE @]
        \in Machines
  BY DEF Machines, TypeOK
<1> QED
  BY <1>1, LoadTakenTypes DEF ELoaded

LEMMA ChEdgeTypes == ASSUME TypeOK, EChEdge PROVE Parts
<1> DEFINE m == [vm EXCEPT !.chain = 0, !.nat = FALSE]
<1>1. /\ m \in Machines /\ [m EXCEPT !.usr = TRUE] \in Machines
      /\ [m EXCEPT !.usr = TRUE, !.blk = "btn"] \in Machines
  BY ChainStarts DEF Machines, TypeOK
<1> HIDE DEF m
<1>2. \/ RunBlock([m EXCEPT !.usr = TRUE], "post")
      \/ JumpFrom([m EXCEPT !.usr = TRUE, !.blk = "btn"], wr.dom, "TT", FALSE, "none")
      \/ Idle(m)
  BY DEF EChEdge, m
<1> QED
  BY <1>1, <1>2, IdleTypes, RunBlockTypes, JumpFromTypes, DomType

LEMMA MenuTypes == ASSUME TypeOK, EMenu PROVE Parts
<1>1. Activated(vm) \in Machines /\ TitleSaved(Activated(vm)) \in Machines
  BY ActivatedType, TitleSavedType DEF TypeOK
<1>2. KeyFallbacks \subseteq Fallbacks
  BY DEF KeyFallbacks
<1> QED
  BY <1>1, <1>2, JumpTypes, JumpBareTypes DEF EMenu

LEMMA HandlerTypes == ASSUME TypeOK, NEW e \in Events, Handler(e) PROVE Parts
<1>1. Activated(vm) \in Machines /\ TitleSaved(Activated(vm)) \in Machines
  BY ActivatedType, TitleSavedType DEF TypeOK
<1>2. [vm EXCEPT !.chain = 0, !.nat = TRUE] \in Machines
  BY ChainStarts DEF Machines, TypeOK
<1>3. CASE e = "boot"
  BY <1>1, <1>3, JumpTypes DEF Handler, EBoot
<1>4. CASE e = "btn"
  BY <1>1, <1>4, RunBlockTypes DEF Handler, EBtn
<1>5. CASE e = "cellcmd"
  BY <1>2, <1>5, RunBlockTypes, TellTypes DEF Handler, ECellCmd
<1>6. CASE e = "pgcend"
  BY <1>2, <1>6, PostOrTellTypes DEF Handler, EPgcEnd
<1>7. CASE e \in {"title", "cmenu"}
  BY <1>1, <1>7, JumpTypes DEF Handler, ETitle, ECMenu
<1>8. CASE e = "return"
  BY <1>1, <1>8, JumpTypes, IdleTypes, DomType DEF Handler, EReturn
<1>9. CASE e \in {"error", "loaded", "chedge", "menu"}
  BY <1>9, ErrorTypes, ELoadedTypes, ChEdgeTypes, MenuTypes DEF Handler
<1> QED
  BY <1>3, <1>4, <1>5, <1>6, <1>7, <1>8, <1>9

(***************************************************************************)
(* The types.                                                              *)
(***************************************************************************)
LEMMA DispatchTypes == ASSUME TypeOK, NEW e \in Events, Dispatch(e) PROVE TypeOK'
<1>1. Parts
  BY HandlerTypes DEF Dispatch
<1>2. ev' \subseteq Events
  BY DEF Dispatch, TypeOK
<1>3. owed' \in BOOLEAN
  BY DEF Dispatch, LoadOwes, TypeOK
<1> QED
  BY <1>1, <1>2, <1>3 DEF Dispatch, Parts, TypeOK

LEMMA ChainedType ==
  ASSUME NEW c \in 0..2 * ChainMax + 1 PROVE Chained(c) \in 0..2 * ChainMax + 1
BY ShellAssumption, SMTT(20) DEF ShellAssumption, Chained

LEMMA WLoadedTypes == ASSUME TypeOK, WLoaded PROVE TypeOK'
<1> DEFINE m == [vm EXCEPT !.usr = FALSE, !.chain = Chained(@),
                           !.nat = @ /\ (vm.skip \/ ~rd.pgc.pre)]
<1>1. m \in Machines
  BY ChainedType DEF Machines, TypeOK
<1> HIDE DEF m
<1> DEFINE m1 == [m EXCEPT !.skip = FALSE, !.fb = "none", !.cvm = @ /\ wr.dom # "TT"]
<1>2. m1 \in Machines
  BY <1>1 DEF Machines
<1>3. Idle(m1) \/ LoadTaken(m)
  BY DEF WLoaded, m
<1> HIDE DEF m1
<1>4. Parts
  BY <1>1, <1>2, <1>3, IdleTypes, LoadTakenTypes
<1>5. ev' \subseteq Events /\ owed' \in BOOLEAN /\ keys' = keys
  BY DEF WLoaded, LoadOwes, TypeOK, Stale
<1> QED
  BY <1>4, <1>5 DEF Parts, TypeOK

LEMMA WaitEndsTypes == ASSUME TypeOK, WError \/ WTimeout PROVE TypeOK'
<1>1. vm \in Machines /\ [vm EXCEPT !.skip = FALSE] \in Machines
  BY DEF Machines, TypeOK
<1>2. Parts
  BY <1>1, IdleTypes DEF WError, WTimeout
<1> QED
  BY <1>2 DEF WError, WTimeout, Parts, TypeOK

LEMMA BlockTypes ==
  ASSUME TypeOK, BlockEnd \/ LinkInside \/ LinkOutside \/ JumpAway PROVE TypeOK'
<1>1. ev' \subseteq Events /\ owed' \in BOOLEAN /\ keys' = keys
  BY DEF BlockEnd, LinkInside, LinkOutside, JumpAway, Running, TypeOK
<1> SUFFICES Parts
  BY <1>1 DEF Parts, TypeOK
<1>2. NoVerdict(vm) => Parts
  BY TellTypes, IdleTypes DEF NoVerdict, TypeOK
<1>3. CASE BlockEnd
  BY <1>2, <1>3, IdleTypes, RunBlockTypes, DeadEndTypes, TellTypes, JumpFromTypes, DomType
  DEF BlockEnd, FellThrough, TypeOK, Parts
<1>4. CASE LinkInside
  BY <1>2, <1>4, TellTypes, PostOrTellTypes DEF LinkInside, TypeOK
<1>5. CASE LinkOutside
  BY <1>5, JumpTypes, JumpBareTypes, DomType DEF LinkOutside, TypeOK
<1>6. CASE JumpAway
  <2>1. \A saves \in BOOLEAN : [vm EXCEPT !.rsm = @ \/ saves] \in Machines
    BY DEF Machines, TypeOK
  <2> QED
    BY <1>6, <2>1, JumpTypes, JumpFromTypes DEF JumpAway, TypeOK
<1> QED
  BY <1>3, <1>4, <1>5, <1>6

LEMMA RestoreTypes == ASSUME TypeOK, RestoreTaken \/ RestoreEnd PROVE TypeOK'
<1>1. CASE RestoreTaken
  BY <1>1 DEF RestoreTaken, TypeOK, Machines, Wrappers
<1>2. CASE RestoreEnd
  <2>1. PICK d \in Doms, lm \in BOOLEAN, cvm \in BOOLEAN, kept \in BOOLEAN :
          /\ vm' = [Activated(vm) EXCEPT !.pc = "wait", !.cvm = cvm, !.rsm = kept,
                                         !.skip = TRUE, !.fb = "none"]
          /\ wr' = [wr EXCEPT !.dom = d, !.lm = lm, !.armed = ArmedAfter(ev)]
          /\ LateAfter(vm')
          /\ rd' = Latched(rd, d, FALSE, FALSE)
    BY <1>2 DEF RestoreEnd
  <2>2. Activated(vm) \in Machines
    BY ActivatedType DEF TypeOK
  <2>3. vm' \in Machines
    BY <2>1, <2>2 DEF Machines
  <2>4. wr' \in Wrappers
    BY <2>1, ArmedType DEF Wrappers, TypeOK
  <2>5. rd' \in Readers
    BY <2>1, LatchedType DEF TypeOK
  <2> QED
    BY <1>2, <2>1, <2>3, <2>4, <2>5 DEF RestoreEnd, LateAfter, TypeOK
<1> QED
  BY <1>1, <1>2

LEMMA StepTypes == ASSUME TypeOK, VmStep PROVE TypeOK'
BY DispatchTypes, WLoadedTypes, WaitEndsTypes, BlockTypes, RestoreTypes DEF VmStep

LEMMA ReaderTypes == ASSUME TypeOK, ReaderStep \/ PlayStep PROVE TypeOK'
<1>1. CASE JumpGo
  BY <1>1 DEF JumpGo, JumpNext, Quiet, TypeOK, Readers, Jumps, None
<1>2. CASE DrainEnds
  <2>1. rd.jump \in Jumps
    BY <1>2 DEF DrainEnds, NatWait, TypeOK, Readers
  <2>2. [rd.jump EXCEPT !.nat = FALSE] \in Jumps
    BY <2>1 DEF Jumps
  <2> QED
    BY <1>2, <2>2 DEF DrainEnds, Quiet, TypeOK, Readers
<1>3. CASE WalkDone \/ Resolved \/ Found \/ LoadFails \/ LoadUnanswered
  BY <1>3 DEF WalkDone, Resolved, Found, LoadFails, LoadUnanswered, Quiet, TypeOK, Readers
<1>4. CASE LoadDone
  <2>1. PICK p \in Pgcs :
          /\ rd' = [rd EXCEPT !.at = IF p.cells THEN "play" ELSE "idle", !.pgc = p]
          /\ owed' = p.pre
    BY <1>4 DEF LoadDone
  <2>2. rd' \in Readers
    BY <2>1 DEF Readers, TypeOK
  <2>3. owed' \in BOOLEAN
    BY <2>1 DEF Pgcs
  <2>4. wr' \in Wrappers
    BY <1>4 DEF LoadDone, MenuLatched, Wrappers, TypeOK
  <2> QED
    BY <1>4, <2>2, <2>3, <2>4 DEF LoadDone, TypeOK
<1>5. CASE CellEnd
  BY <1>5 DEF CellEnd, Quiet, TypeOK, Readers
<1>6. CASE Watchdog
  <2>1. rd' \in Readers
    BY <1>6, AdvancedTypes DEF Watchdog, TypeOK
  <2> QED
    BY <1>6, <2>1 DEF Watchdog, Quiet, TypeOK
<1> QED
  BY <1>1, <1>2, <1>3, <1>4, <1>5, <1>6 DEF ReaderStep, PlayStep

LEMMA UserTypes == ASSUME TypeOK, UserStep PROVE TypeOK'
<1>1. ASSUME NEW e \in Keys \ {"restore", "mount"}, Press(e) PROVE TypeOK'
  <2>1. ev' \subseteq Events
    BY <1>1, ShellAssumption DEF ShellAssumption, Press, TypeOK
  <2>2. keys' \in 0..MaxKeys
    BY <1>1, ShellAssumption DEF ShellAssumption, Press, TypeOK
  <2> QED
    BY <1>1, <2>1, <2>2 DEF Press, TypeOK
<1>2. CASE RestoreAsked
  <2>1. keys' \in 0..MaxKeys
    BY <1>2, ShellAssumption DEF ShellAssumption, RestoreAsked, TypeOK
  <2> QED
    BY <1>2, <2>1 DEF RestoreAsked, TypeOK, Wrappers
<1>3. CASE Mount
  <2>1. vm' \in Machines
    BY <1>3, ChainStarts DEF Mount, FreshVm, Machines
  <2>2. wr' \in Wrappers /\ rd' \in Readers
    BY <1>3 DEF Mount, Mounted, Walking, Wrappers, Readers, TypeOK
  <2> QED
    BY <1>3, <2>1, <2>2 DEF Mount, TypeOK
<1> QED
  BY <1>1, <1>2, <1>3 DEF UserStep

LEMMA InitTypes == Init => TypeOK
<1> SUFFICES ASSUME Init PROVE TypeOK
  OBVIOUS
<1>1. vm \in Machines
  BY ChainStarts DEF Init, FreshVm, Machines
<1>2. wr \in Wrappers
  BY DEF Init, Wrappers
<1>3. rd \in Readers
  <2>1. rd.pgc \in Pgcs
    BY DEF Init, Pgcs
  <2> QED
    BY <2>1 DEF Init, Readers
<1>4. keys \in 0..MaxKeys
  BY ShellAssumption DEF ShellAssumption, Init
<1> QED
  BY <1>1, <1>2, <1>3, <1>4 DEF Init, TypeOK

LEMMA NextTypes == TypeOK /\ [Next]_vars => TypeOK'
<1> SUFFICES ASSUME TypeOK, [Next]_vars PROVE TypeOK'
  OBVIOUS
<1>1. CASE AtRest
  BY <1>1 DEF AtRest, TypeOK, Wrappers
<1>2. CASE UNCHANGED vars
  BY <1>2 DEF vars, TypeOK
<1> QED
  BY <1>1, <1>2, StepTypes, ReaderTypes, UserTypes DEF Next

(* dvd_vm.sv, vm.uasm: the VM, its wrapper and the reader keep to the      *)
(* values they have names for, whatever the length of the chains and the   *)
(* number of presses, restores and mounts.                                 *)
THEOREM TypeCorrect == Spec => []TypeOK
BY InitTypes, NextTypes, PTL DEF Spec

(***************************************************************************)
(* pre_done and the PRE.                                                   *)
(***************************************************************************)
(* Every handler's end keeps pre_armed while a load is latched, and a      *)
(* block that starts from a wait or from another block keeps it anyway.    *)
Keeps == "loaded" \in ev /\ "loaded" \in ev' /\ wr.armed => wr'.armed

LEMMA LeaveKeeps == ASSUME TypeOK, NEW m, NEW d, Leave(m, d) PROVE Keeps
BY DEF Keeps, Leave, ArmedAfter, TypeOK, Wrappers

LEMMA RunKeeps ==
  ASSUME TypeOK, NEW m, NEW b, RunBlock(m, b)
  PROVE  "loaded" \in ev /\ wr.armed => wr'.armed
BY DEF RunBlock, ArmedAfter, TypeOK, Wrappers

LEMMA EndKeeps ==
  ASSUME TypeOK, NEW m,
         \/ Idle(m) \/ (\E pulse : Tell(m, pulse)) \/ DeadEnd(m)
         \/ \E d, t, ttn, f : JumpFrom(m, d, t, ttn, f)
         \/ \E d, f : Jump(m, d, f) \/ JumpBare(m, d, f)
         \/ PostOrTell(m) \/ NoVerdict(m)
  PROVE  Keeps
BY LeaveKeeps, RunKeeps DEF Idle, Tell, DeadEnd, JumpFrom, Jump, JumpBare, PostOrTell, NoVerdict, Keeps

LEMMA HandlerKeeps == ASSUME TypeOK, NEW e \in Events, e # "loaded", Handler(e) PROVE Keeps
<1>1. CASE e = "error"
  BY <1>1, EndKeeps DEF Handler, EError
<1>2. CASE e = "chedge"
  BY <1>2, EndKeeps, RunKeeps DEF Handler, EChEdge, Keeps
<1>3. CASE e \in {"btn", "cellcmd", "pgcend"}
  BY <1>3, EndKeeps, RunKeeps DEF Handler, EBtn, ECellCmd, EPgcEnd, Keeps
<1>4. CASE e \in {"boot", "menu", "title", "cmenu", "return"}
  BY <1>4, EndKeeps DEF Handler, EBoot, EMenu, ETitle, ECMenu, EReturn
<1> QED
  BY <1>1, <1>2, <1>3, <1>4

(* A load with a PRE is answered by running it. *)
LEMMA TakenRuns ==
  ASSUME TypeOK, NEW m \in Machines, LoadTaken(m), ~m.skip, rd.pgc.pre
  PROVE  RunBlock(IF wr.dom = "TT" THEN [m EXCEPT !.cvm = FALSE] ELSE m, "pre")
<1>1. (IF wr.dom = "TT" THEN [m EXCEPT !.cvm = FALSE] ELSE m).skip = m.skip
  BY DEF Machines
<1> QED
  BY <1>1 DEF LoadTaken

LEMMA InitPending == Init => OwedIsPending
BY DEF Init, OwedIsPending

LEMMA VmPending == ASSUME TypeOK, OwedIsPending, VmStep PROVE OwedIsPending'
<1>1. ASSUME NEW e \in Events, Dispatch(e), e # "loaded" PROVE OwedIsPending'
  <2>1. CASE e = "error"
    BY <1>1, <2>1 DEF Dispatch, OwedIsPending
  <2>2. CASE e # "error"
    <3> SUFFICES ASSUME owed' PROVE wr'.armed /\ "loaded" \in ev'
      BY DEF OwedIsPending
    <3>1. owed /\ "loaded" \in ev /\ wr.armed
      BY <1>1, <2>2 DEF Dispatch, OwedIsPending
    <3>2. "loaded" \in ev'
      BY <1>1, <2>2, <3>1 DEF Dispatch, AlsoClears, Offered, Order, Stale
    <3> QED
      BY <1>1, <3>1, <3>2, HandlerKeeps DEF Dispatch, Keeps
  <2> QED
    BY <2>1, <2>2
<1>2. ASSUME Dispatch("loaded") PROVE OwedIsPending'
  <2> SUFFICES ASSUME owed' PROVE wr'.armed /\ vm'.pc = "run"
    BY DEF OwedIsPending
  <2> DEFINE m == [vm EXCEPT !.nat = FALSE,
                             !.fb = IF ~vm.skip /\ rd.pgc.pre THEN "none" ELSE @]
  <2>1. owed /\ ~vm.skip /\ rd.pgc.pre /\ "loaded" \in ev /\ wr.armed /\ LoadTaken(m)
    BY <1>2 DEF Dispatch, LoadOwes, Offered, Handler, ELoaded, OwedIsPending
  <2>2. m \in Machines /\ m.skip = vm.skip
    BY DEF Machines, TypeOK
  <2> HIDE DEF m
  <2> DEFINE m1 == IF wr.dom = "TT" THEN [m EXCEPT !.cvm = FALSE] ELSE m
  <2>3. RunBlock(m1, "pre")
    BY <2>1, <2>2, TakenRuns
  <2>4. m1 \in Machines
    BY <2>2 DEF Machines
  <2> QED
    BY <2>1, <2>3, <2>4, RunKeeps DEF RunBlock, Machines
<1>3. CASE WLoaded
  <2> SUFFICES ASSUME owed' PROVE wr'.armed /\ vm'.pc = "run"
    BY DEF OwedIsPending
  <2> DEFINE m == [vm EXCEPT !.usr = FALSE, !.chain = Chained(@),
                             !.nat = @ /\ (vm.skip \/ ~rd.pgc.pre)]
  <2>1. owed /\ ~vm.skip /\ rd.pgc.pre /\ wr.armed /\ LoadTaken(m) /\ vm.pc = "wait"
    BY <1>3 DEF WLoaded, LoadOwes, OwedIsPending
  <2>2. m \in Machines /\ m.skip = vm.skip
    BY ChainedType DEF Machines, TypeOK
  <2> HIDE DEF m
  <2> DEFINE m1 == IF wr.dom = "TT" THEN [m EXCEPT !.cvm = FALSE] ELSE m
  <2>3. RunBlock(m1, "pre")
    BY <2>1, <2>2, TakenRuns
  <2>4. m1 \in Machines
    BY <2>2 DEF Machines
  <2> QED
    BY <2>1, <2>3, <2>4, RunKeeps DEF RunBlock, Machines
<1>4. CASE WError \/ WTimeout
  BY <1>4 DEF WError, WTimeout, OwedIsPending
<1>5. CASE BlockEnd \/ LinkInside \/ LinkOutside \/ JumpAway
  <2> SUFFICES ASSUME owed' PROVE wr'.armed /\ "loaded" \in ev'
    BY DEF OwedIsPending
  <2>1. owed /\ "loaded" \in ev /\ wr.armed /\ "loaded" \in ev'
    BY <1>5 DEF BlockEnd, LinkInside, LinkOutside, JumpAway, Running, OwedIsPending
  <2>2. CASE BlockEnd
    BY <2>1, <2>2, EndKeeps, RunKeeps DEF BlockEnd, FellThrough, Keeps
  <2>3. CASE LinkInside
    BY <2>1, <2>3, EndKeeps DEF LinkInside, Keeps
  <2>4. CASE LinkOutside \/ JumpAway
    BY <2>1, <2>4, EndKeeps DEF LinkOutside, JumpAway, Keeps
  <2> QED
    BY <1>5, <2>2, <2>3, <2>4
<1>6. CASE RestoreTaken \/ RestoreEnd
  BY <1>6 DEF RestoreTaken, RestoreEnd, OwedIsPending, ArmedAfter, TypeOK, Wrappers
<1> QED
  BY <1>1, <1>2, <1>3, <1>4, <1>5, <1>6 DEF VmStep

LEMMA OthersPending ==
  ASSUME TypeOK, OwedIsPending, AtRest \/ ReaderStep \/ PlayStep \/ UserStep
  PROVE  OwedIsPending'
<1>1. CASE AtRest
  BY <1>1 DEF AtRest, OwedIsPending
<1>2. CASE LoadDone
  BY <1>2 DEF LoadDone, OwedIsPending, MenuLatched, TypeOK, Wrappers
<1>3. CASE WalkDone \/ DrainEnds \/ JumpGo \/ Resolved \/ Found \/ LoadFails
             \/ LoadUnanswered \/ CellEnd \/ Watchdog
  BY <1>3 DEF WalkDone, DrainEnds, JumpGo, Resolved, Found, LoadFails, LoadUnanswered,
     CellEnd, Watchdog, Quiet, OwedIsPending
<1>4. CASE UserStep
  BY <1>4 DEF UserStep, Press, RestoreAsked, Mount, OwedIsPending, TypeOK, Wrappers
<1> QED
  BY <1>1, <1>2, <1>3, <1>4 DEF ReaderStep, PlayStep

(* dvd_vm.sv:820-822: pre_done, on which the reader's angle block waits,   *)
(* never precedes the PRE of the load that armed it.                       *)
THEOREM PreFirst == Spec => []PreDoneAfterPre
<1>1. Init => TypeOK /\ OwedIsPending
  BY InitTypes, InitPending
<1>2. TypeOK /\ OwedIsPending /\ [Next]_vars => (TypeOK /\ OwedIsPending)'
  <2>1. OwedIsPending /\ UNCHANGED vars => OwedIsPending'
    BY DEF vars, OwedIsPending
  <2> QED
    BY <2>1, NextTypes, VmPending, OthersPending DEF Next
<1>3. OwedIsPending => PreDoneAfterPre
  BY DEF OwedIsPending, PreDoneAfterPre
<1> QED
  BY <1>1, <1>2, <1>3, PTL DEF Spec

(***************************************************************************)
(* Presses that come too late.                                             *)
(***************************************************************************)
(* An end that does not jump makes no press late, and changes the fallback *)
(* to that of a dead end at most.                                          *)
Stays(m) == /\ late' => late /\ "btn" \in ev'
            /\ vm'.pc # "wait" /\ vm'.fb \in {m.fb, "vtsm"}
Goes     == vm'.pc = "wait" /\ (late' => "btn" \in ev')

LEMMA ParkedFacts ==
  ASSUME NEW m \in Machines PROVE Parked(m).pc = "idle" /\ Parked(m).fb = m.fb
BY DEF Parked, Machines

LEMMA IdleStays ==
  ASSUME NEW m \in Machines, Idle(m) \/ (\E pulse : Tell(m, pulse)) PROVE Stays(m)
BY ParkedFacts DEF Idle, Tell, Leave, LateAfter, Stays

LEMMA DeadEndStays ==
  ASSUME NEW m \in Machines, DeadEnd(m) PROVE Stays(m) /\ vm'.fb = "vtsm"
<1>1. [m EXCEPT !.fb = "vtsm"] \in Machines /\ [m EXCEPT !.fb = "vtsm"].fb = "vtsm"
  BY DEF Machines
<1>2. vm' = Parked([m EXCEPT !.fb = "vtsm"])
  BY DEF DeadEnd, Idle, Leave
<1> QED
  BY <1>1, <1>2, IdleStays, ParkedFacts DEF DeadEnd, Stays

LEMMA RunStays == ASSUME NEW m \in Machines, NEW b, RunBlock(m, b) PROVE Stays(m)
<1>1. [m EXCEPT !.pc = "run", !.blk = b].pc = "run" /\ [m EXCEPT !.pc = "run", !.blk = b].fb = m.fb
  BY DEF Machines
<1> QED
  BY <1>1 DEF RunBlock, LateAfter, Stays

LEMMA BlockStays ==
  ASSUME NEW m \in Machines, PostOrTell(m) \/ NoVerdict(m) PROVE Stays(m)
BY RunStays, IdleStays DEF PostOrTell, NoVerdict

LEMMA JumpGoes ==
  ASSUME NEW m \in Machines,
         \/ \E d, t, ttn, f : JumpFrom(m, d, t, ttn, f)
         \/ \E d, f : Jump(m, d, f) \/ JumpBare(m, d, f)
  PROVE  Goes
<1>1. ASSUME NEW m1 \in Machines, NEW d, NEW t, NEW ttn, NEW f, JumpFrom(m1, d, t, ttn, f)
      PROVE  Goes
  <2>1. [m1 EXCEPT !.pc = "wait", !.fb = f].pc = "wait"
    BY DEF Machines
  <2> QED
    BY <1>1, <2>1 DEF JumpFrom, Leave, LateAfter, Goes
<1>2. [m EXCEPT !.skip = TRUE] \in Machines
  BY DEF Machines
<1> QED
  BY <1>1, <1>2 DEF Jump, JumpBare

LEMMA TakenDrops ==
  ASSUME TypeOK, NEW m0 \in Machines, LoadTaken(m0) PROVE late' => "btn" \in ev'
<1> DEFINE m == IF wr.dom = "TT" THEN [m0 EXCEPT !.cvm = FALSE] ELSE m0
<1>1. m \in Machines
  <2>1. [m0 EXCEPT !.cvm = FALSE] \in Machines
    BY DEF Machines
  <2> QED
    BY <2>1
<1> HIDE DEF m
<1>2. \/ Idle([m EXCEPT !.skip = FALSE, !.fb = "none"])
      \/ RunBlock(m, "pre") \/ RunBlock(m, "post") \/ DeadEnd(m)
  BY DEF LoadTaken, m
<1>3. [m EXCEPT !.skip = FALSE, !.fb = "none"] \in Machines
  BY <1>1 DEF Machines
<1> QED
  BY <1>1, <1>2, <1>3, IdleStays, RunStays, DeadEndStays DEF Stays

LEMMA DispatchDoomed ==
  ASSUME TypeOK, LateIsDoomed, NEW e \in Events, Dispatch(e) PROVE LateIsDoomed'
<1>0. vm \in Machines /\ vm.pc = "idle" /\ Handler(e)
  BY DEF Dispatch, TypeOK
<1>1. CASE e = "boot"
  BY <1>0, <1>1, ActivatedType, JumpGoes DEF Handler, EBoot, Goes, LateIsDoomed
<1>2. CASE e = "error"
  <2> DEFINE m == [vm EXCEPT !.blk = "btn", !.nat = FALSE]
  <2>1. m \in Machines /\ [m EXCEPT !.fb = "none"] \in Machines /\ m.fb = vm.fb
    BY <1>0 DEF Machines
  <2>2. "error" \in ev
    BY <1>2 DEF Dispatch, Offered
  <2> HIDE DEF m
  <2>3. \/ vm.fb = "gaveup" /\ Idle([m EXCEPT !.fb = "none"])
        \/ \E d, f : Jump(m, d, f) \/ JumpBare(m, d, f)
    <3>1. EError
      BY <1>0, <1>2 DEF Handler
    <3> QED
      BY <2>1, <3>1 DEF EError, m
  <2> QED
    BY <1>0, <2>1, <2>2, <2>3, IdleStays, JumpGoes DEF LateIsDoomed, Stays, Goes
<1>3. CASE e = "loaded"
  <2>1. "btn" \notin ev'
    BY <1>3 DEF Dispatch, AlsoClears, Stale
  <2>2. [vm EXCEPT !.nat = FALSE, !.fb = IF ~vm.skip /\ rd.pgc.pre THEN "none" ELSE @]
          \in Machines
    BY <1>0 DEF Machines
  <2>3. late' => "btn" \in ev'
    BY <1>0, <1>3, <2>2, TakenDrops DEF Handler, ELoaded
  <2> QED
    BY <2>1, <2>3 DEF LateIsDoomed
<1>4. CASE e \notin {"boot", "error", "loaded"}
  <2>1. "loaded" \notin ev
    BY <1>4 DEF Dispatch, Offered, Order
  <2>2. ~late
    BY <1>0, <2>1 DEF LateIsDoomed
  <2> DEFINE m == [vm EXCEPT !.chain = 0, !.nat = FALSE]
  <2>3. /\ Activated(vm) \in Machines /\ TitleSaved(Activated(vm)) \in Machines
        /\ [vm EXCEPT !.chain = 0, !.nat = TRUE] \in Machines
        /\ m \in Machines
    BY <1>0, ActivatedType, TitleSavedType, ChainStarts DEF Machines
  <2> HIDE DEF m
  <2>4. [m EXCEPT !.usr = TRUE] \in Machines /\ [m EXCEPT !.usr = TRUE, !.blk = "btn"] \in Machines
    BY <2>3 DEF Machines
  <2>5. (\E x : Stays(x)) \/ Goes
    <3>1. CASE e \in {"btn", "cellcmd", "pgcend"}
      BY <1>0, <2>3, <3>1, RunStays, IdleStays, BlockStays DEF Handler, EBtn, ECellCmd, EPgcEnd
    <3>2. CASE e = "chedge"
      BY <1>0, <2>3, <2>4, <3>2, RunStays, IdleStays, JumpGoes DEF Handler, EChEdge, m
    <3>3. CASE e \in {"menu", "title", "cmenu", "return"}
      BY <1>0, <2>3, <3>3, IdleStays, JumpGoes DEF Handler, EMenu, ETitle, ECMenu, EReturn
    <3> QED
      BY <1>4, <3>1, <3>2, <3>3
  <2> QED
    BY <2>2, <2>5 DEF Stays, Goes, LateIsDoomed
<1> QED
  BY <1>1, <1>2, <1>3, <1>4

(* A load, an error and the boot start no button's commands. *)
LEMMA DispatchNoButton ==
  ASSUME TypeOK, NEW e \in {"boot", "error", "loaded"}, Dispatch(e), vm'.pc = "run"
  PROVE  vm'.blk # "btn"
<1>0. vm \in Machines /\ Handler(e)
  BY DEF Dispatch, TypeOK
<1>1. ASSUME NEW m \in Machines, \/ Idle(m) \/ DeadEnd(m)
                                 \/ \E d, f : Jump(m, d, f) \/ JumpBare(m, d, f)
      PROVE  vm'.pc # "run"
  <2>1. \A m1 \in Machines : Parked(m1).pc = "idle"
    BY ParkedFacts
  <2>2. [m EXCEPT !.fb = "vtsm"] \in Machines
    BY DEF Machines
  <2> QED
    BY <1>1, <2>1, <2>2, JumpGoes DEF Idle, DeadEnd, Leave, Goes
<1>2. ASSUME NEW m \in Machines, NEW b, RunBlock(m, b) PROVE vm'.blk = b
  BY <1>2 DEF RunBlock, Machines
<1>3. CASE e = "boot"
  BY <1>0, <1>1, <1>3, ActivatedType DEF Handler, EBoot
<1>4. CASE e = "error"
  <2> DEFINE m == [vm EXCEPT !.blk = "btn", !.nat = FALSE]
  <2>1. m \in Machines /\ [m EXCEPT !.fb = "none"] \in Machines
    BY <1>0 DEF Machines
  <2> HIDE DEF m
  <2>2. Idle([m EXCEPT !.fb = "none"]) \/ \E d, f : Jump(m, d, f) \/ JumpBare(m, d, f)
    <3>1. EError
      BY <1>0, <1>4 DEF Handler
    <3> QED
      BY <3>1 DEF EError, m
  <2> QED
    BY <1>1, <2>1, <2>2
<1>5. CASE e = "loaded"
  <2> DEFINE m0 == [vm EXCEPT !.nat = FALSE,
                              !.fb = IF ~vm.skip /\ rd.pgc.pre THEN "none" ELSE @]
  <2>1. m0 \in Machines
    BY <1>0 DEF Machines
  <2>2. LoadTaken(m0)
    BY <1>0, <1>5 DEF Handler, ELoaded
  <2> HIDE DEF m0
  <2> DEFINE m == IF wr.dom = "TT" THEN [m0 EXCEPT !.cvm = FALSE] ELSE m0
  <2>3. m \in Machines
    <3>1. [m0 EXCEPT !.cvm = FALSE] \in Machines
      BY <2>1 DEF Machines
    <3> QED
      BY <2>1, <3>1
  <2> HIDE DEF m
  <2>4. \/ Idle([m EXCEPT !.skip = FALSE, !.fb = "none"])
        \/ RunBlock(m, "pre") \/ RunBlock(m, "post") \/ DeadEnd(m)
    BY <2>2 DEF LoadTaken, m
  <2>5. [m EXCEPT !.skip = FALSE, !.fb = "none"] \in Machines
    BY <2>3 DEF Machines
  <2> QED
    BY <1>1, <1>2, <2>3, <2>4, <2>5
<1> QED
  BY <1>3, <1>4, <1>5

LEMMA WaitDoomed == ASSUME TypeOK, WLoaded \/ WError \/ WTimeout PROVE LateIsDoomed'
<1> SUFFICES ~late'
  BY DEF LateIsDoomed
<1>1. CASE WLoaded
  <2> DEFINE m == [vm EXCEPT !.usr = FALSE, !.chain = Chained(@),
                             !.nat = @ /\ (vm.skip \/ ~rd.pgc.pre)]
  <2>1. m \in Machines
    BY ChainedType DEF Machines, TypeOK
  <2> HIDE DEF m
  <2> DEFINE m1 == [m EXCEPT !.skip = FALSE, !.fb = "none", !.cvm = @ /\ wr.dom # "TT"]
  <2>2. m1 \in Machines
    BY <2>1 DEF Machines
  <2>3. Idle(m1) \/ LoadTaken(m)
    BY <1>1 DEF WLoaded, m
  <2> HIDE DEF m1
  <2>4. "btn" \notin ev'
    BY <1>1 DEF WLoaded, Stale
  <2> QED
    BY <2>1, <2>2, <2>3, <2>4, TakenDrops, IdleStays DEF Stays
<1>2. CASE WError \/ WTimeout
  <2>1. [vm EXCEPT !.skip = FALSE] \in Machines /\ vm \in Machines
    BY DEF Machines, TypeOK
  <2> QED
    BY <1>2, <2>1, IdleStays DEF WError, WTimeout, Stays
<1> QED
  BY <1>1, <1>2

LEMMA BlockDoomed ==
  ASSUME TypeOK, LateIsDoomed, BlockEnd \/ LinkInside \/ LinkOutside \/ JumpAway
  PROVE  LateIsDoomed'
<1>0. /\ vm \in Machines /\ vm.pc = "run" /\ ev \subseteq ev'
      /\ "error" \in ev' => "error" \in ev \/ (BlockEnd /\ Falls(vm))
  BY DEF BlockEnd, LinkInside, LinkOutside, JumpAway, Running, TypeOK
<1>1. ASSUME Stays(vm), "error" \in ev' => "error" \in ev \/ vm'.fb = "vtsm"
      PROVE  LateIsDoomed'
  BY <1>0, <1>1 DEF Stays, LateIsDoomed
<1>2. Goes => LateIsDoomed'
  BY DEF Goes, LateIsDoomed
<1>3. CASE BlockEnd /\ Falls(vm)
  <2>1. DeadEnd(vm)
    BY <1>3 DEF BlockEnd, FellThrough, Falls
  <2> QED
    BY <1>0, <1>1, <2>1, DeadEndStays
<1>4. CASE BlockEnd /\ ~Falls(vm)
  <2>1. "error" \in ev' => "error" \in ev
    BY <1>4 DEF BlockEnd
  <2>2. CASE vm.blk = "pre"
    BY <1>0, <1>1, <1>4, <2>1, <2>2, IdleStays, RunStays DEF BlockEnd, FellThrough, Falls
  <2>3. CASE vm.blk = "post"
    BY <1>0, <1>1, <1>2, <1>4, <2>1, <2>3, IdleStays, JumpGoes DEF BlockEnd, FellThrough
  <2>4. CASE vm.blk \notin {"pre", "post"}
    BY <1>0, <1>1, <1>4, <2>1, <2>4, BlockStays DEF BlockEnd, FellThrough
  <2> QED
    BY <2>2, <2>3, <2>4
<1>5. CASE LinkInside
  BY <1>0, <1>1, <1>5, IdleStays, BlockStays DEF LinkInside
<1>6. CASE LinkOutside
  BY <1>0, <1>2, <1>6, JumpGoes DEF LinkOutside
<1>7. CASE JumpAway
  <2>1. \A saves \in BOOLEAN : [vm EXCEPT !.rsm = @ \/ saves] \in Machines
    BY DEF Machines, TypeOK
  <2> QED
    BY <1>0, <1>2, <1>7, <2>1, JumpGoes DEF JumpAway
<1> QED
  BY <1>3, <1>4, <1>5, <1>6, <1>7

(* The reader reports to a running VM only what it has not reported yet,   *)
(* and nothing to an idle one that has an event to take.                   *)
LEMMA OthersDoomed ==
  ASSUME TypeOK, LateIsDoomed,
         RestoreTaken \/ RestoreEnd \/ AtRest \/ ReaderStep \/ PlayStep \/ UserStep
  PROVE  LateIsDoomed'
<1>1. CASE RestoreTaken
  BY <1>1 DEF RestoreTaken, LateIsDoomed
<1>2. CASE RestoreEnd
  <2>1. Activated(vm) \in Machines
    BY ActivatedType DEF TypeOK
  <2>2. PICK m : vm' = m /\ m.pc = "wait" /\ LateAfter(m)
    BY <1>2, <2>1 DEF RestoreEnd, Machines
  <2> QED
    BY <2>2 DEF LateAfter, LateIsDoomed
<1>3. CASE AtRest
  BY <1>3 DEF AtRest, LateIsDoomed
<1>4. CASE ReaderStep \/ PlayStep
  <2>1. late => vm.pc = "wait" \/ (vm.pc = "run" /\ "loaded" \in ev)
    <3>1. ~Taking
      BY <1>4 DEF ReaderStep, PlayStep
    <3>2. vm.pc \in {"idle", "run", "wait", "restore"}
      BY DEF TypeOK, Machines
    <3> QED
      BY <3>1, <3>2 DEF Taking, LateIsDoomed
  <2>2. late => vm.pc = "wait"
    BY <1>4, <2>1 DEF ReaderStep, PlayStep, Taking
  <2>3. CASE LoadDone
    <3>1. late' => "btn" \in ev' /\ "loaded" \in ev' /\ vm' = vm /\ ev' = ev \union {"loaded"}
      BY <2>3 DEF LoadDone
    <3>2. "error" \in ev /\ "btn" \in ev => vm.pc = "wait"
      <4>1. vm.pc \in {"idle", "run", "wait", "restore"}
        BY DEF TypeOK, Machines
      <4> QED
        BY <1>4, <4>1 DEF ReaderStep, PlayStep, Taking
    <3> QED
      BY <3>1, <3>2 DEF LateIsDoomed
  <2>4. CASE ~LoadDone
    <3>1. late' = late /\ vm' = vm /\ ev \subseteq ev'
      BY <1>4, <2>4 DEF ReaderStep, PlayStep, WalkDone, DrainEnds, JumpGo, Resolved, Found,
         LoadFails, LoadUnanswered, CellEnd, Watchdog, Quiet
    <3> QED
      BY <2>2, <3>1 DEF LateIsDoomed
  <2> QED
    BY <2>3, <2>4
<1>5. CASE UserStep
  <2>1. ASSUME NEW e \in Keys \ {"restore", "mount"}, Press(e) PROVE LateIsDoomed'
    <3>1. e # "loaded" /\ e # "error"
      BY <2>1, ShellAssumption DEF ShellAssumption
    <3> QED
      BY <2>1, <3>1 DEF Press, LateIsDoomed
  <2>2. CASE RestoreAsked
    BY <2>2 DEF RestoreAsked, LateIsDoomed
  <2>3. CASE Mount
    BY <2>3 DEF Mount, LateIsDoomed
  <2> QED
    BY <1>5, <2>1, <2>2, <2>3 DEF UserStep
<1> QED
  BY <1>1, <1>2, <1>3, <1>4, <1>5

LEMMA NextDoomed == TypeOK /\ LateIsDoomed /\ [Next]_vars => LateIsDoomed'
<1>1. LateIsDoomed /\ UNCHANGED vars => LateIsDoomed'
  BY DEF vars, LateIsDoomed
<1> QED
  BY <1>1, DispatchDoomed, WaitDoomed, BlockDoomed, OthersDoomed DEF Next, VmStep

(* Only the button's handler starts a button's commands from idle, and the *)
(* wrapper offers it only when no load is latched.                         *)
LEMMA ButtonStep ==
  ASSUME TypeOK, LateIsDoomed, Next, vm'.pc = "run", vm'.blk = "btn", vm.pc = "idle"
  PROVE  ~late
<1>0. vm \in Machines
  BY DEF TypeOK
<1>1. PICK e \in Events : Dispatch(e)
  <2>1. vm' # vm
    OBVIOUS
  <2>2. ~(ReaderStep \/ PlayStep)
    BY <2>1 DEF ReaderStep, PlayStep, WalkDone, DrainEnds, JumpGo, Resolved, Found, LoadFails,
       LoadUnanswered, LoadDone, CellEnd, Watchdog, Quiet
  <2>3. ~(UserStep \/ AtRest)
    BY <2>1 DEF UserStep, Press, RestoreAsked, Mount, FreshVm, AtRest
  <2>4. ~RestoreTaken
    BY <1>0 DEF RestoreTaken, Machines
  <2> QED
    BY <2>2, <2>3, <2>4 DEF Next, VmStep, WLoaded, WError, WTimeout, BlockEnd, LinkInside,
       LinkOutside, JumpAway, Running, RestoreEnd
<1>2. CASE e \in {"boot", "error", "loaded"}
  BY <1>0, <1>1, <1>2, DispatchNoButton
<1>3. CASE e \notin {"boot", "error", "loaded"}
  BY <1>1, <1>3 DEF Dispatch, Offered, Order, LateIsDoomed
<1> QED
  BY <1>2, <1>3

(* vm.uasm:638: no press is run that a jump or a load has overtaken.       *)
THEOREM ButtonsAreCurrent == Spec => ButtonIsCurrent
<1>1. Init => TypeOK /\ LateIsDoomed
  BY InitTypes DEF Init, LateIsDoomed
<1>2. TypeOK /\ LateIsDoomed /\ [Next]_vars => (TypeOK /\ LateIsDoomed)'
  BY NextTypes, NextDoomed
<1>3. TypeOK /\ LateIsDoomed /\ [Next]_vars
        => [vm'.pc = "run" /\ vm'.blk = "btn" /\ vm.pc = "idle" => ~late]_vars
  BY ButtonStep
<1> QED
  BY <1>1, <1>2, <1>3, PTL DEF Spec, ButtonIsCurrent
===============================================================================
