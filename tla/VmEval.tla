------------------------------- MODULE VmEval -------------------------------
(***************************************************************************)
(* The command evaluator of tools/dvd_vm_ref.py: one eight-byte command on *)
(* the registers, and a block of commands up to the first link.  A command *)
(* is given by its fields (where they sit in the eight bytes is left out): *)
(* a type, a comparison, what it sets, where it goes and what it links to. *)
(***************************************************************************)
EXTENDS Integers, Sequences, SequencesExt, FiniteSets

CONSTANT EvalFuse    \* commands one block may execute: 4096

ASSUME EvalAssumption == EvalFuse \in Nat

NoLink == [cmd |-> "none", d1 |-> 0, d2 |-> 0, d3 |-> 0]

(***************************************************************************)
(* Words of sixteen bits.                                                  *)
(***************************************************************************)
RegMax == 65535
Words  == 0..RegMax
Weight == <<1, 2, 4, 8, 16, 32, 64, 128, 256, 512, 1024, 2048, 4096, 8192, 16384, 32768>>
Bit(v, i) == (v \div Weight[i]) % 2
Nibble(b, i) == b[i] + 2 * b[i + 1] + 4 * b[i + 2] + 8 * b[i + 3]
Word(b) == Nibble(b, 1) + 16 * Nibble(b, 5) + 256 * Nibble(b, 9) + 4096 * Nibble(b, 13)

Least(a, b)    == IF a < b THEN a ELSE b
Greatest(a, b) == IF a > b THEN a ELSE b
BitAnd(a, b) == Word([i \in 1..16 |-> Least(Bit(a, i), Bit(b, i))])
BitOr(a, b)  == Word([i \in 1..16 |-> Greatest(Bit(a, i), Bit(b, i))])
BitXor(a, b) == Word([i \in 1..16 |-> (Bit(a, i) + Bit(b, i)) % 2])

(***************************************************************************)
(* Registers: g the GPRMs, s the SPRMs, mode the counter modes, rnd the    *)
(* LFSR.                                                                   *)
(***************************************************************************)
Gprms == 0..15
Sprms == 0..23
Button(n) == n * 1024
Regs == [g |-> [i \in Gprms |-> 0],
         mode |-> [i \in Gprms |-> FALSE],
         s |-> [i \in Sprms |-> CASE i \in {0, 16, 18} -> 25966 [] i = 12 -> 21843
                                  [] i \in {1, 13} -> 15 [] i = 2 -> 62 [] i \in {3, 4, 5, 7, 20} -> 1
                                  [] i = 8 -> Button(1) [] i = 14 -> 256 [] i = 15 -> 31996
                                  [] OTHER -> 0],
         rnd |-> 44257]

Step(v) == LET odd == (v + (v \div 4) + (v \div 8) + (v \div 32)) % 2
           IN  (v \div 2) + 32768 * odd

\* An operand: a GPRM, an SPRM or immediate data.
Value(r, x) == CASE x.is = "g"   -> r.g[x.n]
                 [] x.is = "s"   -> r.s[x.n]
                 [] x.is = "imm" -> x.n

Compare(op, a, b) ==
  CASE op = "and" -> BitAnd(a, b) # 0
    [] op = "="   -> a = b
    [] op = "#"   -> a # b
    [] op = ">="  -> a >= b
    [] op = ">"   -> a > b
    [] op = "<="  -> a <= b
    [] op = "<"   -> a < b

\* if_v1 .. if_v5: no comparison holds.
Holds(c, r) == c.cmp.op = "none" \/ Compare(c.cmp.op, Value(r, c.cmp.a), Value(r, c.cmp.b))

SetOp(r, t) ==
  LET old == r.g[t.reg]
      d   == Value(r, t.data)
      To(v) == [r EXCEPT !.g[t.reg] = v]
  IN CASE t.op = "none" -> r
       [] t.op = "mov"  -> To(d % (RegMax + 1))
       [] t.op = "swap" -> [r EXCEPT !.g = [[r.g EXCEPT ![t.reg2] = old] EXCEPT ![t.reg] = d]]
       [] t.op = "add"  -> To(Least(old + d, RegMax))
       [] t.op = "sub"  -> To(Greatest(old - d, 0))
       [] t.op = "mul"  -> To(Least(old * d, RegMax))
       [] t.op = "div"  -> To(IF d = 0 THEN RegMax ELSE old \div d)
       [] t.op = "mod"  -> To(IF d = 0 THEN RegMax ELSE old % d)
       [] t.op = "rnd"  -> IF d = 0 THEN To(0)
                           ELSE [To((Step(r.rnd) % d) + 1) EXCEPT !.rnd = Step(r.rnd)]
       [] t.op = "and"  -> To(BitAnd(old, d))
       [] t.op = "or"   -> To(BitOr(old, d))
       [] t.op = "xor"  -> To(BitXor(old, d))

\* Type 2.  SetSTN sets any of its three registers; SetGPRMMD sets the mode even
\* where the comparison fails.
SystemSet(r, t, cond) ==
  CASE t.op = "none"     -> r
    [] t.op = "stn"      -> IF cond THEN [r EXCEPT !.s = [i \in Sprms |-> IF i \in DOMAIN t.stn
                                                               THEN Value(r, t.stn[i]) ELSE r.s[i]]]
                            ELSE r
    [] t.op = "nvtmr"    -> IF cond THEN [r EXCEPT !.s[9] = Value(r, t.data), !.s[10] = t.reg]
                            ELSE r
    [] t.op = "counter"  -> IF cond
                            THEN [r EXCEPT !.mode[t.reg] = t.on, !.g[t.reg] = Value(r, t.data)]
                            ELSE [r EXCEPT !.mode[t.reg] = t.on]
    [] t.op = "hl_btnn"  -> IF cond THEN [r EXCEPT !.s[8] = Value(r, t.data)] ELSE r

Break == 256
\* The line to go to (0: the next one), the link taken, and the registers.
EvalCommand(c, r) ==
  LET before == Holds(c, r)
      Result(regs, cond) ==
        [regs |-> regs, line |-> 0, link |-> IF cond THEN c.link ELSE NoLink]
      set == SetOp(r, c.set)
  IN CASE c.type = 0 -> [regs |-> IF before /\ c.flow.op = "pml"
                                  THEN [r EXCEPT !.s[13] = c.flow.level] ELSE r,
                         line |-> CASE ~before \/ c.flow.op = "none" -> 0
                                    [] c.flow.op = "break" /\ before -> Break
                                    [] OTHER -> c.flow.line,
                         link |-> NoLink]
       [] c.type = 1 -> Result(r, before)
       [] c.type = 2 -> Result(SystemSet(r, c.set, before), before)
       [] c.type = 3 -> Result(IF before THEN set ELSE r, before)
       [] c.type = 4 -> Result(set, Holds(c, set))
       [] c.type = 5 -> Result(IF before THEN set ELSE r, before)
       [] c.type = 6 -> Result(IF before THEN set ELSE r, TRUE)

(***************************************************************************)
(* Commands, as a disc's author writes them.                               *)
(***************************************************************************)
Gprm(n) == [is |-> "g", n |-> n]
Sprm(n) == [is |-> "s", n |-> n]
Imm(n)  == [is |-> "imm", n |-> n]
Always  == [op |-> "none"]
If(a, op, b) == [op |-> op, a |-> a, b |-> b]
Nothing == [op |-> "none"]
Set(op, reg, data) == [op |-> op, reg |-> reg, reg2 |-> reg, data |-> data, on |-> TRUE]
LinkTo(cmd, d1, d2, d3) == [cmd |-> cmd, d1 |-> d1, d2 |-> d2, d3 |-> d3]

Command(type, cmp, set, link) ==
  [type |-> type, cmp |-> cmp, set |-> set, link |-> link, flow |-> Nothing]
Goto(cmp, line) ==
  [type |-> 0, cmp |-> cmp, set |-> Nothing, link |-> NoLink, flow |-> [op |-> "goto", line |-> line]]
Links(cmp, link) == Command(1, cmp, Nothing, link)
Sets(cmp, set)   == Command(3, cmp, set, NoLink)

\* Every command the eight bytes can hold, by the widths of its fields.  The
\* number of a PGC has fifteen bits.
NumberMax == 32767
Numbers   == 0..NumberMax
SubLinks  == {"LinkNoLink", "LinkTopC", "LinkNextC", "LinkPrevC", "LinkTopPG", "LinkNextPG",
              "LinkPrevPG", "LinkTopPGC", "LinkNextPGC", "LinkPrevPGC", "LinkGoUpPGC",
              "LinkTailPGC", "LinkRSM"}
PartLinks == {"LinkPTTN", "LinkPGN", "LinkCN"}
JumpLinks == {"LinkPGCN", "Exit", "JumpTT", "JumpVTS_TT", "JumpVTS_PTT", "JumpSS_FP",
              "JumpSS_VMGM_MENU", "JumpSS_VTSM", "JumpSS_VMGM_PGC", "CallSS_FP",
              "CallSS_VMGM_MENU", "CallSS_VTSM", "CallSS_VMGM_PGC"}
LinkTypes == [cmd : SubLinks, d1 : 0..63, d2 : {0}, d3 : {0}]
             \union [cmd : PartLinks, d1 : 0..1023, d2 : 0..63, d3 : {0}]
             \union [cmd : JumpLinks, d1 : Numbers, d2 : 0..1023, d3 : 0..15]

Operands == [is : {"g"}, n : Gprms] \union [is : {"s"}, n : Sprms] \union [is : {"imm"}, n : Words]
Conditions == {Always} \union
  [op : {"and", "=", "#", ">=", ">", "<=", "<"}, a : Operands, b : Operands]
RegisterSets == {Nothing} \union
  [op : {"mov", "swap", "add", "sub", "mul", "div", "mod", "rnd", "and", "or", "xor"},
   reg : Gprms, reg2 : Gprms, data : Operands, on : BOOLEAN]
SystemSets == {Nothing} \union
  [op : {"stn"}, stn : UNION {[streams -> Operands] : streams \in SUBSET (1..3)}] \union
  [op : {"counter"}, reg : Gprms, reg2 : Gprms, data : Operands, on : BOOLEAN] \union
  [op : {"nvtmr", "hl_btnn"}, reg : 0..255, reg2 : 0..255, data : Operands, on : BOOLEAN]
Flows == {Nothing} \union [op : {"goto"}, line : 0..255] \union [op : {"break"}] \union
         [op : {"pml"}, line : 0..255, level : 0..15]
Fields(types, sets, flows) ==
  [type : types, cmp : Conditions, set : sets, link : {NoLink} \union LinkTypes, flow : flows]
Commands == Fields({0}, {Nothing}, Flows) \union Fields({1}, {Nothing}, {Nothing}) \union
            Fields({2}, SystemSets, {Nothing}) \union Fields(3..6, RegisterSets, {Nothing})
RegTypes == [g : [Gprms -> Words], mode : [Gprms -> BOOLEAN], s : [Sprms -> Words], rnd : Words]

(***************************************************************************)
(* eval_block: where a block stands after each command, at most EvalFuse   *)
(* of them, and the link it ended with.                                    *)
(***************************************************************************)
Standings == [regs : RegTypes, line : Nat \ {0}, link : {NoLink} \union LinkTypes]
NextStanding(e, line) ==
  [regs |-> e.regs, line |-> IF e.line > 0 THEN e.line ELSE line + 1, link |-> e.link]
After(cmds) ==
  [at \in Standings |->
     IF at.link # NoLink \/ at.line > Len(cmds) THEN at
     ELSE NextStanding(EvalCommand(cmds[at.line], at.regs), at.line)]
Course(cmds, r) ==
  LET at[k \in 0..EvalFuse] ==
        IF k = 0 THEN [regs |-> r, line |-> 1, link |-> NoLink] ELSE After(cmds)[at[k - 1]]
  IN  at
Outcome(at) == [regs |-> at.regs, link |-> at.link]
EvalBlock(cmds, r) == Outcome(Course(cmds, r)[EvalFuse])
=============================================================================
