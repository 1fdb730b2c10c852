------------------------- MODULE ExpressionProofs -------------------------
(***************************************************************************)
(* Proofs about the expression parser, for every input.  First: its        *)
(* activations are well formed, its code balances the stack, and op_stack  *)
(* never outgrows its array.  Then its registers: code for an operand      *)
(* keeps those its caller relies on, the first operand survives the        *)
(* second, and the arguments and saved registers of a call are where the   *)
(* call instruction expects them.  Last, what the code computes: the tree  *)
(* that the operator priorities describe.                                  *)
(***************************************************************************)
EXTENDS Expression, SequenceTheorems, TLAPS

-----------------------------------------------------------------------------
(* What the instructions do to the type of the machine and to the height   *)
(* of its stack.                                                           *)

\* A new value in a register is still a machine, of the same height.
LEMMA FreshMachine ==
    ASSUME NEW mc \in Machine, NEW d,
           NEW t \in Term
    PROVE  /\ Fresh(mc, d, t) \in Machine
           /\ Fresh(mc, d, t).stack = mc.stack
<1>1. Len(mc.term) + 1 \in Nat
    BY DEF Machine
<1>2. [mc.reg EXCEPT ![d] = Len(mc.term) + 1] \in [Regs -> Nat]
    BY <1>1 DEF Machine
<1>3. Append(mc.term, t) \in Seq(Term)
    BY DEF Machine
<1> QED
    BY <1>2, <1>3 DEF Fresh, Machine

\* Loading a constant or an address.
LEMMA LoadMachine ==
    ASSUME NEW mc \in Machine, NEW d
    PROVE  Load(mc, d) \in Machine /\ Load(mc, d).stack = mc.stack
<1>1. [op |-> "leaf", l |-> 0, r |-> 0] \in Term
    BY DEF Term, TermOps
<1> QED
    BY <1>1, FreshMachine DEF Load

\* An instruction with one source register.
LEMMA UnaryMachine ==
    ASSUME NEW mc \in Machine, NEW op \in TermOps, NEW d, NEW s \in Regs
    PROVE  Unary(mc, op, d, s) \in Machine /\ Unary(mc, op, d, s).stack = mc.stack
<1>1. mc.reg[s] \in Nat
    BY DEF Machine
<1>2. [op |-> op, l |-> mc.reg[s], r |-> 0] \in Term
    BY <1>1 DEF Term
<1> QED
    BY <1>2, FreshMachine DEF Unary

\* An instruction with two.
LEMMA ApplyMachine ==
    ASSUME NEW mc \in Machine, NEW op \in TermOps, NEW d \in Regs, NEW s \in Regs
    PROVE  Apply(mc, op, d, s) \in Machine /\ Apply(mc, op, d, s).stack = mc.stack
<1>1. mc.reg[s] \in Nat /\ mc.reg[d] \in Nat
    BY DEF Machine
<1>2. [op |-> op, l |-> mc.reg[d], r |-> mc.reg[s]] \in Term
    BY <1>1 DEF Term
<1> QED
    BY <1>2, FreshMachine DEF Apply

\* A push adds a word.
LEMMA PushMachine ==
    ASSUME NEW mc \in Machine, NEW r \in Regs
    PROVE  Push(mc, r) \in Machine /\ Len(Push(mc, r).stack) = Len(mc.stack) + 1
<1>1. mc.reg[r] \in Nat
    BY DEF Machine
<1>2. /\ Append(mc.stack, mc.reg[r]) \in Seq(Nat)
      /\ Len(Append(mc.stack, mc.reg[r])) = Len(mc.stack) + 1
    BY <1>1 DEF Machine
<1> QED
    BY <1>2 DEF Push, Machine

\* A pop takes one off, whatever the register.
LEMMA PopMachine ==
    ASSUME NEW mc \in Machine, NEW r, Len(mc.stack) > 0
    PROVE  Pop(mc, r) \in Machine /\ Len(Pop(mc, r).stack) = Len(mc.stack) - 1
<1>1. mc.stack \in Seq(Nat) /\ Len(mc.stack) \in Nat
    BY DEF Machine
<1>2. mc.stack[Len(mc.stack)] \in Nat
    BY <1>1
<1>3. [mc.reg EXCEPT ![r] = mc.stack[Len(mc.stack)]] \in [Regs -> Nat]
    BY <1>2 DEF Machine
<1>4. /\ SubSeq(mc.stack, 1, Len(mc.stack) - 1) \in Seq(Nat)
      /\ Len(SubSeq(mc.stack, 1, Len(mc.stack) - 1)) = Len(mc.stack) - 1
    BY <1>1
<1> QED
    BY <1>3, <1>4 DEF Pop, Machine

\* The registers a call preserves: as many words as registers.
LEMMA PushRegsMachine ==
    ASSUME NEW mc \in Machine, NEW n \in Regs
    PROVE  /\ PushRegs(mc, n) \in Machine
           /\ Len(PushRegs(mc, n).stack) = Len(mc.stack) + n
<1>1. n \in Nat /\ MaxReg \in Nat /\ n <= MaxReg
    BY BoundsAssumption DEF Regs
<1> DEFINE saved == [i \in 1..n |-> mc.reg[i - 1]]
<1>2. \A i \in 1..n : mc.reg[i - 1] \in Nat
    BY <1>1 DEF Machine, Regs
<1>3. saved \in Seq(Nat) /\ Len(saved) = n
    BY <1>1, <1>2
<1> HIDE DEF saved
<1>4. mc.stack \o saved \in Seq(Nat) /\ Len(mc.stack \o saved) = Len(mc.stack) + n
    <2>1. mc.stack \in Seq(Nat)
        BY DEF Machine
    <2> QED
        BY <1>3, <2>1, ConcatProperties
<1> QED
    BY <1>4 DEF PushRegs, Machine, saved

\* Restoring the preserved registers takes as many words off.
LEMMA PopRegsMachine ==
    ASSUME NEW mc \in Machine, NEW n \in Regs, Len(mc.stack) >= n
    PROVE  /\ PopRegs(mc, n) \in Machine
           /\ Len(PopRegs(mc, n).stack) = Len(mc.stack) - n
<1>1. n \in Nat /\ mc.stack \in Seq(Nat) /\ Len(mc.stack) \in Nat
    BY DEF Regs, Machine
<1> DEFINE back == [r \in Regs |-> IF r < n
                                   THEN mc.stack[Len(mc.stack) - n + 1 + r]
                                   ELSE mc.reg[r]]
<1>2. ASSUME NEW r \in Regs
      PROVE  back[r] \in Nat
    <2>1. r \in Nat
        BY BoundsAssumption DEF Regs
    <2>3. mc.reg[r] \in Nat
        BY DEF Machine
    <2>2. r < n => mc.stack[Len(mc.stack) - n + 1 + r] \in Nat
        BY <1>1, <2>1
    <2> QED
        BY <2>1, <2>2, <2>3
<1>3. back \in [Regs -> Nat]
    BY <1>2
<1>4. /\ SubSeq(mc.stack, 1, Len(mc.stack) - n) \in Seq(Nat)
      /\ Len(SubSeq(mc.stack, 1, Len(mc.stack) - n)) = Len(mc.stack) - n
    BY <1>1
<1> HIDE DEF back
<1>5. PopRegs(mc, n) = [mc EXCEPT !.reg = back,
                                  !.stack = SubSeq(@, 1, Len(@) - n)]
    BY DEF PopRegs, back
<1> QED
    BY <1>3, <1>4, <1>5 DEF Machine

\* A call leaves the stack to the caller.
LEMMA CalledMachine ==
    ASSUME NEW mc \in Machine, NEW d
    PROVE  Called(mc, d) \in Machine /\ Called(mc, d).stack = mc.stack
<1>1. [r \in Regs |-> IF r = d THEN Len(mc.term) + 1 ELSE 0] \in [Regs -> Nat]
    BY DEF Machine
<1>2. Append(mc.term, [op |-> "call", l |-> 0, r |-> 0]) \in Seq(Term)
    <2>1. [op |-> "call", l |-> 0, r |-> 0] \in Term
        BY DEF Term, TermOps
    <2> QED
        BY <2>1 DEF Machine
<1> QED
    BY <1>1, <1>2 DEF Called, Machine

\* The sign of an operand.
LEMMA NegatedMachine ==
    ASSUME NEW mc \in Machine, NEW neg, NEW p \in Regs
    PROVE  Negated(mc, neg, p) \in Machine /\ Negated(mc, neg, p).stack = mc.stack
<1>1. "op_negate" \in TermOps
    BY DEF TermOps
<1> QED
    BY <1>1, UnaryMachine DEF Negated

\* The scaled index of an array or pointer.
LEMMA AddScaledMachine ==
    ASSUME NEW mc \in Machine, NEW p, p \in Regs, p + 1 \in Regs, p + 2 \in Regs,
           NEW scaled
    PROVE  /\ AddScaled(mc, p, scaled) \in Machine
           /\ AddScaled(mc, p, scaled).stack = mc.stack
<1> DEFINE lc == Load(mc, p + 2)
           sc == Apply(lc, "op_mul", p + 1, p + 2)
           c == IF scaled THEN sc ELSE mc
<1>1. "op_mul" \in TermOps /\ "op_add" \in TermOps
    BY DEF TermOps, BinaryOps
<1>2. lc \in Machine /\ lc.stack = mc.stack
    BY LoadMachine
<1>3. sc \in Machine /\ sc.stack = lc.stack
    BY <1>1, <1>2, ApplyMachine
<1>4. c \in Machine /\ c.stack = mc.stack
    BY <1>2, <1>3
<1> HIDE DEF c
<1>5. Apply(c, "op_add", p, p + 1) \in Machine /\ Apply(c, "op_add", p, p + 1).stack = c.stack
    BY <1>1, <1>4, ApplyMachine
<1> QED
    BY <1>4, <1>5 DEF AddScaled, c

\* A prefix increment.
LEMMA PrefixedMachine ==
    ASSUME NEW mc \in Machine, NEW p, p \in Regs, p + 1 \in Regs, p + 2 \in Regs
    PROVE  Prefixed(mc, p) \in Machine /\ Prefixed(mc, p).stack = mc.stack
<1> DEFINE a == Unary(mc, "op_read_addr", p + 1, p)
           b == Load(a, p + 2)
<1>1. "op_read_addr" \in TermOps /\ "op_add" \in TermOps
    BY DEF TermOps, BinaryOps
<1>2. a \in Machine /\ a.stack = mc.stack
    BY <1>1, UnaryMachine
<1>3. b \in Machine /\ b.stack = a.stack
    BY <1>2, LoadMachine
<1> HIDE DEF b
<1>4. Apply(b, "op_add", p + 1, p + 2) \in Machine /\ Apply(b, "op_add", p + 1, p + 2).stack = b.stack
    BY <1>1, <1>3, ApplyMachine
<1> QED
    BY <1>2, <1>3, <1>4 DEF Prefixed, b

\* A postfix increment: one word for a while.
LEMMA PostfixedMachine ==
    ASSUME NEW mc \in Machine, NEW p, p \in Regs, p + 1 \in Regs, p + 2 \in Regs
    PROVE  Postfixed(mc, p) \in Machine /\ Len(Postfixed(mc, p).stack) = Len(mc.stack)
<1> DEFINE a == Unary(mc, "op_read_addr", p + 1, p)
           b == Push(a, p + 1)
           c == Load(b, p + 2)
           d == Apply(c, "op_add", p + 1, p + 2)
<1>1. "op_read_addr" \in TermOps /\ "op_add" \in TermOps
    BY DEF TermOps, BinaryOps
<1>2. a \in Machine /\ a.stack = mc.stack
    BY <1>1, UnaryMachine
<1>3. b \in Machine /\ Len(b.stack) = Len(a.stack) + 1
    BY <1>2, PushMachine
<1>4. c \in Machine /\ c.stack = b.stack
    BY <1>3, LoadMachine
<1>5. d \in Machine /\ d.stack = c.stack
    BY <1>1, <1>4, ApplyMachine
<1>6. Len(mc.stack) \in Nat
    BY DEF Machine
<1>7. Len(d.stack) = Len(mc.stack) + 1
    BY <1>2, <1>3, <1>4, <1>5
<1> HIDE DEF d
<1>8. Pop(d, p) \in Machine /\ Len(Pop(d, p).stack) = Len(d.stack) - 1
    BY <1>5, <1>6, <1>7, PopMachine
<1> QED
    BY <1>6, <1>7, <1>8 DEF Postfixed, d

\* Two words are popped and combined.
LEMMA ApplyTopMachine ==
    ASSUME NEW f \in FrameType, m \in Machine, Len(m.stack) > 1, Len(f.ops) > 0,
           f.pn \in Regs, f.pn + 1 \in Regs
    PROVE  ApplyTop(f) \in Machine /\ Len(ApplyTop(f).stack) = Len(m.stack) - 2
<1> DEFINE a == Pop(m, f.pn + 1)
           b == Pop(a, f.pn)
<1>0. Len(m.stack) \in Nat
    BY DEF Machine
<1>1. f.ops[Len(f.ops)] \in TermOps
    BY DEF FrameType, TermOps
<1>2. a \in Machine /\ Len(a.stack) = Len(m.stack) - 1
    BY <1>0, PopMachine
<1>3. b \in Machine /\ Len(b.stack) = Len(a.stack) - 1
    BY <1>0, <1>2, PopMachine
<1> HIDE DEF a, b
<1>4. /\ Apply(b, f.ops[Len(f.ops)], f.pn, f.pn + 1) \in Machine
      /\ Apply(b, f.ops[Len(f.ops)], f.pn, f.pn + 1).stack = b.stack
    BY <1>1, <1>3, ApplyMachine
<1> QED
    BY <1>0, <1>2, <1>3, <1>4 DEF ApplyTop, a, b

-----------------------------------------------------------------------------
(* The stack of activations.                                               *)

\* What holds of every activation by itself.
Good(f) ==
    /\ FrameOK(f)
    /\ Ordered(f.ops) /\ Len(f.ops) <= 4
    /\ f.at \in {"later", "unwind"} => Len(f.ops) > 0

\* f may have called g, and g's words start where f's end.
Link(f, g) == Calls(f, g) /\ g.base = f.base + Held(f)

\* A stack of activations that parser.c can build.
Activations(fs) ==
    /\ fs \in Seq(FrameType)
    /\ Len(fs) > 0
    /\ fs[1].fn = "expression" /\ fs[1].base = 0
    /\ \A i \in 1..Len(fs) : Good(fs[i])
    /\ \A i \in 1..(Len(fs) - 1) : Link(fs[i], fs[i + 1])

\* Calling: a good activation on top of one that waits for it.
LEMMA PushActivation ==
    ASSUME NEW fs, Activations(fs), NEW g \in FrameType, Good(g),
           Link(fs[Len(fs)], g)
    PROVE  /\ Activations(Append(fs, g))
           /\ Len(Append(fs, g)) = Len(fs) + 1
           /\ Append(fs, g)[Len(fs) + 1] = g
<1> DEFINE n == Len(fs)
           gs == Append(fs, g)
<1>1. fs \in Seq(FrameType) /\ n \in Nat /\ n > 0
    BY DEF Activations
<1>2. gs \in Seq(FrameType) /\ Len(gs) = n + 1 /\ gs[n + 1] = g
    BY <1>1
<1>3. \A i \in 1..n : gs[i] = fs[i]
    BY <1>1
<1> HIDE DEF gs
<1>4. gs[1].fn = "expression" /\ gs[1].base = 0
    BY <1>1, <1>3 DEF Activations
<1>5. ASSUME NEW i \in 1..Len(gs)
      PROVE  Good(gs[i])
    BY <1>1, <1>2, <1>3 DEF Activations
<1>6. ASSUME NEW i \in 1..(Len(gs) - 1)
      PROVE  Link(gs[i], gs[i + 1])
    <2>1. CASE i = n
        BY <2>1, <1>1, <1>2, <1>3
    <2>2. CASE i < n
        <3>1. i \in 1..n /\ i + 1 \in 1..n /\ i \in 1..(n - 1)
            BY <2>2, <1>1, <1>2
        <3> QED
            BY <3>1, <1>3 DEF Activations
    <2> QED
        BY <2>1, <2>2, <1>1, <1>2
<1>7. Activations(gs)
    BY <1>1, <1>2, <1>4, <1>5, <1>6 DEF Activations
<1> QED
    BY <1>2, <1>7 DEF gs

\* Returning: the caller is on top again, and its words end where those of
\* the activation that returned began.
LEMMA PopActivation ==
    ASSUME NEW fs, Activations(fs), Len(fs) > 1
    PROVE  LET gs == SubSeq(fs, 1, Len(fs) - 1) IN
           /\ Activations(gs)
           /\ Len(gs) = Len(fs) - 1
           /\ gs[Len(gs)] = fs[Len(fs) - 1]
           /\ fs[Len(fs) - 1] \in FrameType /\ Good(fs[Len(fs) - 1])
           /\ Link(fs[Len(fs) - 1], fs[Len(fs)])
<1> DEFINE n == Len(fs)
           gs == SubSeq(fs, 1, n - 1)
<1>1. fs \in Seq(FrameType) /\ n \in Nat /\ n > 1
    BY DEF Activations
<1>2. gs \in Seq(FrameType) /\ Len(gs) = n - 1 /\ \A i \in 1..(n - 1) : gs[i] = fs[i]
    BY <1>1
<1> HIDE DEF gs
<1>3. gs[1].fn = "expression" /\ gs[1].base = 0
    BY <1>1, <1>2 DEF Activations
<1>4. \A i \in 1..Len(gs) : Good(gs[i])
    BY <1>1, <1>2 DEF Activations
<1>5. ASSUME NEW i \in 1..(Len(gs) - 1)
      PROVE  Link(gs[i], gs[i + 1])
    <2>1. i \in 1..(n - 1) /\ i + 1 \in 1..(n - 1)
        BY <1>1, <1>2
    <2> QED
        BY <2>1, <1>2 DEF Activations
<1>6. Activations(gs)
    BY <1>1, <1>2, <1>3, <1>4, <1>5 DEF Activations
<1>7. n - 1 \in 1..n /\ n - 1 \in 1..(n - 1) /\ (n - 1) + 1 = n
    BY <1>1
<1>8. fs[n - 1] \in FrameType /\ Good(fs[n - 1]) /\ Link(fs[n - 1], fs[n])
    BY <1>1, <1>7 DEF Activations
<1> QED
    BY <1>1, <1>2, <1>6, <1>7, <1>8 DEF gs

\* Going on: the activation on top changes, its caller and its base do not.
LEMMA ReplaceActivation ==
    ASSUME NEW fs, Activations(fs), NEW g \in FrameType, Good(g),
           g.base = fs[Len(fs)].base,
           (g.fn = "expression") <=> (fs[Len(fs)].fn = "expression")
    PROVE  LET gs == Append(SubSeq(fs, 1, Len(fs) - 1), g) IN
           /\ Activations(gs)
           /\ Len(gs) = Len(fs)
           /\ gs[Len(gs)] = g
<1> DEFINE n == Len(fs)
           hs == SubSeq(fs, 1, n - 1)
           gs == Append(hs, g)
<1>1. fs \in Seq(FrameType) /\ n \in Nat /\ n > 0
    BY DEF Activations
<1>2. CASE n = 1
    <2>1. hs \in Seq(FrameType) /\ Len(hs) = 0
        BY <1>1, <1>2
    <2> HIDE DEF hs
    <2>2. gs \in Seq(FrameType) /\ Len(gs) = 1 /\ gs[1] = g
        BY <2>1
    <2> HIDE DEF gs
    <2>3. g.fn = "expression" /\ g.base = 0
        BY <1>2 DEF Activations
    <2>4. Activations(gs)
        BY <2>2, <2>3 DEF Activations
    <2> QED
        BY <2>2, <2>4, <1>2 DEF gs, hs
<1>3. CASE n > 1
    <2>1. /\ Activations(hs) /\ Len(hs) = n - 1 /\ hs[Len(hs)] = fs[n - 1]
          /\ Link(fs[n - 1], fs[n])
        BY <1>3, PopActivation
    <2>2. Link(fs[n - 1], g)
        BY <2>1 DEF Link, Calls, AwaitsExpression, AwaitsOperand
    <2> HIDE DEF hs
    <2>3. Activations(gs) /\ Len(gs) = Len(hs) + 1 /\ gs[Len(hs) + 1] = g
        BY <2>1, <2>2, PushActivation
    <2> QED
        BY <2>1, <2>3, <1>1 DEF hs
<1>4. \A k \in Nat : k > 0 => k = 1 \/ k > 1
    OBVIOUS
<1>5. n = 1 \/ n > 1
    BY <1>1, <1>4, Zenon
<1> QED
    BY <1>2, <1>3, <1>5

\* The parser at point p with activations fs on machine mc: the inductive
\* invariant, for one state.
State(p, fs, mc) ==
    /\ p \in Points
    /\ mc \in Machine
    /\ Activations(fs)
    /\ AtPoint(p, fs[Len(fs)])
    /\ Len(mc.stack) = fs[Len(fs)].base + Held(fs[Len(fs)])

IInv == State(pc, frames, m) /\ tokens \in Nat

\* The inductive invariant says no more and no less than the four properties.
LEMMA Invariants ==
    IInv <=> TypeOK /\ OpStackOrdered /\ NoUnexpectedEnd /\ StackBalanced
BY DEF IInv, State, Activations, Good, Link, TypeOK, OpStackOrdered,
       NoUnexpectedEnd, StackBalanced, Top

\* What the invariant says of the activation on top.
LEMMA TopFacts ==
    ASSUME IInv
    PROVE  /\ m \in Machine /\ Activations(frames) /\ AtPoint(pc, Top)
           /\ Len(frames) \in Nat /\ Len(frames) > 0
           /\ Len(m.stack) = Top.base + Held(Top)
           /\ Top \in FrameType /\ Good(Top)
           /\ Top.base \in Nat /\ Top.pn \in Nat
           /\ {Top.pn, Top.pn + 1, Top.pn + 2, Top.pn + 3} \subseteq Regs
           /\ tokens \in Nat
<1>1. /\ m \in Machine /\ Activations(frames) /\ AtPoint(pc, Top)
      /\ Len(m.stack) = Top.base + Held(Top) /\ tokens \in Nat
    BY DEF IInv, State, Top
<1>2. frames \in Seq(FrameType) /\ Len(frames) \in Nat /\ Len(frames) > 0
    BY <1>1 DEF Activations
<1>3. Top \in FrameType /\ Good(Top)
    BY <1>1, <1>2 DEF Activations, Top
<1>4. Top.pn \in Regs /\ Top.base \in Nat
    BY <1>3 DEF FrameType
<1>5. Top.pn \in Nat /\ Top.pn + 3 <= MaxReg /\ MaxReg \in Nat
    BY <1>3, <1>4, BoundsAssumption DEF Regs, Good, FrameOK
<1>6. {Top.pn, Top.pn + 1, Top.pn + 2, Top.pn + 3} \subseteq Regs
    BY <1>5 DEF Regs
<1> QED
    BY <1>1, <1>2, <1>3, <1>4, <1>5, <1>6

\* A step that changes only the activation on top.
LEMMA Going ==
    ASSUME IInv, NEW g \in FrameType, Good(g), g.base = Top.base,
           (g.fn = "expression") <=> (Top.fn = "expression"),
           NEW p \in Points, AtPoint(p, g),
           NEW mc \in Machine, Len(mc.stack) = g.base + Held(g)
    PROVE  State(p, Append(Below(1), g), mc)
<1>1. Activations(frames) /\ Len(frames) \in Nat /\ Len(frames) > 0
    BY TopFacts
<1>2. /\ Activations(Append(Below(1), g))
      /\ Append(Below(1), g)[Len(Append(Below(1), g))] = g
    BY <1>1, ReplaceActivation DEF Below, Top
<1> QED
    BY <1>2 DEF State

\* A step that calls g.
LEMMA Calling ==
    ASSUME IInv, NEW g \in FrameType, Good(g), Link(Top, g),
           NEW p \in Points, AtPoint(p, g),
           NEW mc \in Machine, Len(mc.stack) = g.base + Held(g)
    PROVE  State(p, Append(frames, g), mc)
<1>1. Activations(frames)
    BY TopFacts
<1>2. /\ Activations(Append(frames, g))
      /\ Append(frames, g)[Len(Append(frames, g))] = g
    BY <1>1, PushActivation DEF Top
<1> QED
    BY <1>2 DEF State

\* A step that returns to the caller.
LEMMA Returning ==
    ASSUME IInv, Len(frames) > 1, NEW p \in Points, AtPoint(p, Caller),
           NEW mc \in Machine, Len(mc.stack) = Top.base
    PROVE  State(p, Below(1), mc)
<1>1. Activations(frames)
    BY TopFacts
<1>2. /\ Activations(Below(1)) /\ Below(1)[Len(Below(1))] = Caller
      /\ Link(Caller, Top)
    BY <1>1, PopActivation DEF Below, Caller, Top
<1> QED
    BY <1>2 DEF State, Link

\* Only the outermost activation has no caller, and it is an expression.
LEMMA CallerFacts ==
    ASSUME IInv, Len(frames) > 1 \/ Top.fn # "expression"
    PROVE  /\ Len(frames) > 1
           /\ Caller \in FrameType /\ Good(Caller) /\ Link(Caller, Top)
           /\ Activations(Below(1)) /\ Len(Below(1)) = Len(frames) - 1
           /\ Below(1)[Len(Below(1))] = Caller
<1>1. Activations(frames) /\ Len(frames) \in Nat /\ Len(frames) > 0
    BY TopFacts
<1>2. Len(frames) = 1 => Top.fn = "expression"
    BY <1>1 DEF Activations, Top
<1>3. Len(frames) > 1
    BY <1>1, <1>2
<1> QED
    BY <1>1, <1>3, PopActivation DEF Below, Caller, Top

\* A new activation is a good one.
LEMMA NewFrame ==
    ASSUME NEW mc \in Machine, NEW fn \in Functions, NEW at \in Ats(fn),
           at \notin {"second", "later", "climb", "unwind"},
           NEW pn \in Nat, pn + 3 <= MaxReg, NEW neg \in BOOLEAN
    PROVE  LET f == Frame(mc, fn, at, pn, neg) IN
           /\ f \in FrameType /\ Good(f)
           /\ f.base = Len(mc.stack) /\ f.fn = fn /\ f.at = at /\ f.pn = pn
<1> DEFINE f == Frame(mc, fn, at, pn, neg)
<1>1. mc.reg \in [Regs -> Nat] /\ Len(mc.stack) \in Nat
    BY DEF Machine
<1>2. pn \in Regs
    BY BoundsAssumption DEF Regs
<1>3. at \in UNION {Ats(c) : c \in Functions}
    OBVIOUS
<1>4. NoVariable \in VariableKinds
    BY DEF NoVariable, VariableKinds
<1>5. f \in FrameType
    BY <1>1, <1>2, <1>3, <1>4 DEF Frame, FrameType
<1>6. f.base = Len(mc.stack) /\ f.fn = fn /\ f.at = at /\ f.pn = pn /\ f.ops = <<>>
    BY DEF Frame
<1>7. FrameOK(f)
    BY <1>6 DEF FrameOK
<1>8. Ordered(f.ops) /\ Len(f.ops) <= 4
    BY <1>6 DEF Ordered
<1> QED
    BY <1>5, <1>6, <1>7, <1>8 DEF Good

\* So is a new expression.
LEMMA NewExpression ==
    ASSUME NEW mc \in Machine, NEW pn \in Nat, pn + 3 <= MaxReg
    PROVE  LET f == Frame(mc, "expression", "first", pn, FALSE) IN
           /\ f \in FrameType /\ Good(f)
           /\ f.base = Len(mc.stack) /\ f.fn = "expression" /\ f.at = "first"
           /\ f.pn = pn
<1>1. "expression" \in Functions /\ "first" \in Ats("expression")
    BY DEF Functions, Ats
<1>2. "first" \notin {"second", "later", "climb", "unwind"} /\ FALSE \in BOOLEAN
    OBVIOUS
<1>3. ASSUME NEW fn \in Functions, NEW at \in Ats(fn), NEW neg \in BOOLEAN,
             fn = "expression", at = "first", neg = FALSE
      PROVE  LET f == Frame(mc, fn, at, pn, neg) IN
             /\ f \in FrameType /\ Good(f)
             /\ f.base = Len(mc.stack) /\ f.fn = fn /\ f.at = at /\ f.pn = pn
    <2>1. at \notin {"second", "later", "climb", "unwind"}
        BY <1>3
    <2> QED
        BY <2>1, NewFrame
<1> QED
    BY <1>1, <1>2, <1>3

\* The register of an operand.
LEMMA TargetFacts ==
    ASSUME IInv
    PROVE  Target(Top) \in Regs /\ Target(Top) \in Nat
<1>1. Target(Top) \in {Top.pn, Top.pn + 1}
    BY DEF Target
<1> QED
    BY <1>1, TopFacts

-----------------------------------------------------------------------------
(* Each action preserves the inductive invariant: the operands.            *)

\* A constant is loaded: the stack stays.
LEMMA OperandConstantStep ==
    ASSUME IInv, OperandConstant
    PROVE  State(pc', frames', m')
<1> DEFINE p == Target(Top)
<1>1. PICK negate \in Signs : m' = Negated(Load(m, p), negate, p)
    BY DEF OperandConstant
<1>2. m' \in Machine /\ m'.stack = m.stack
    BY <1>1, TopFacts, TargetFacts, LoadMachine, NegatedMachine
<1> QED
    BY <1>2 DEF OperandConstant, IInv, State, AtPoint, Points

\* The name of a function: what is pushed around the load is popped.
LEMMA OperandFunctionNameStep ==
    ASSUME IInv, OperandFunctionName
    PROVE  State(pc', frames', m')
<1> DEFINE p == Target(Top)
           a == PushRegs(m, p)
           b == Load(a, p)
           c == PopRegs(b, p)
<1>1. PICK neg \in Signs : m' = Negated(c, neg, p)
    BY DEF OperandFunctionName
<1>0. m \in Machine /\ p \in Regs /\ p \in Nat /\ Len(m.stack) \in Nat
    BY TopFacts, TargetFacts, SMTT(30) DEF Machine
<1>2. a \in Machine /\ Len(a.stack) = Len(m.stack) + p
    BY <1>0, PushRegsMachine
<1>3. b \in Machine /\ b.stack = a.stack
    BY <1>2, LoadMachine
<1> HIDE DEF b
<1>4. c \in Machine /\ Len(c.stack) = Len(b.stack) - p
    BY <1>0, <1>2, <1>3, PopRegsMachine
<1> HIDE DEF c
<1>5. m' \in Machine /\ m'.stack = c.stack
    BY <1>0, <1>1, <1>4, NegatedMachine
<1>6. Len(m'.stack) = Len(m.stack)
    BY <1>0, <1>2, <1>3, <1>4, <1>5
<1> QED
    BY <1>5, <1>6 DEF OperandFunctionName, IInv, State, AtPoint, Points

\* The operand a not, a bracket or a call opens is called from an activation
\* that waits for one, with all its words on the stack.
LEMMA OperandContext ==
    ASSUME IInv, pc = "operand" \/ pc = "operand_done"
    PROVE  AwaitsOperand(Top)
BY TopFacts DEF AtPoint

\* An activation that reads an operand, called by one that waits for it.
LEMMA CallingNew ==
    ASSUME IInv, NEW mc \in Machine, Len(mc.stack) = Len(m.stack),
           NEW fn \in Functions, NEW at \in Ats(fn),
           at \notin {"second", "later", "climb", "unwind", "direct", "pointer"},
           NEW pn \in Nat, pn + 3 <= MaxReg, NEW neg \in BOOLEAN,
           IF fn = "expression" THEN AwaitsExpression(Top) ELSE AwaitsOperand(Top),
           NEW p \in Points, AtPoint(p, Frame(mc, fn, at, pn, neg))
    PROVE  State(p, Append(frames, Frame(mc, fn, at, pn, neg)), mc)
<1> DEFINE f == Frame(mc, fn, at, pn, neg)
<1>1. f \in FrameType /\ Good(f) /\ f.base = Len(mc.stack) /\ f.fn = fn /\ f.at = at
    BY NewFrame
<1> HIDE DEF f
<1>2. Held(f) = 0
    BY <1>1 DEF Held
<1>3. Link(Top, f)
    BY <1>1, TopFacts DEF Link, Calls
<1>4. Len(mc.stack) = f.base + Held(f)
    BY <1>1, <1>2 DEF Machine
<1>5. State(p, Append(frames, f), mc)
    BY <1>1, <1>3, <1>4, Calling DEF f
<1> QED
    BY <1>5 DEF f

\* ! opens an activation of its own.
LEMMA OperandNotStep ==
    ASSUME IInv, OperandNot
    PROVE  State(pc', frames', m')
<1> DEFINE q == Target(Top)
           f == Frame(m, "not", "operand", q, FALSE)
<1>1. m \in Machine /\ q \in Nat /\ q + 3 <= MaxReg /\ AwaitsOperand(Top)
    BY TopFacts, TargetFacts, OperandContext DEF OperandNot, Room
<1>2. /\ "not" \in Functions /\ "operand" \in Ats("not") /\ "operand" \in Points
      /\ "operand" \notin {"second", "later", "climb", "unwind", "direct", "pointer"}
      /\ FALSE \in BOOLEAN
    BY DEF Functions, Ats, Points
<1>3. AtPoint("operand", f)
    BY DEF AtPoint, AwaitsOperand, Frame
<1> HIDE DEF q
<1>4. State("operand", Append(frames, f), m)
    BY <1>1, <1>2, <1>3, CallingNew
<1> QED
    BY <1>4 DEF OperandNot, q

\* * ends in an error, in an lvalue that was just opened.
LEMMA OperandStarStep ==
    ASSUME IInv, OperandStar
    PROVE  State(pc', frames', m')
<1> DEFINE q == Target(Top)
           f == Frame(m, "lvalue", "deref", q, FALSE)
<1>1. m \in Machine /\ q \in Nat /\ q + 3 <= MaxReg /\ AwaitsOperand(Top)
    BY TopFacts, TargetFacts, OperandContext DEF OperandStar, Room
<1>2. /\ "lvalue" \in Functions /\ "deref" \in Ats("lvalue") /\ "error" \in Points
      /\ "deref" \notin {"second", "later", "climb", "unwind", "direct", "pointer"}
      /\ FALSE \in BOOLEAN
    BY DEF Functions, Ats, Points
<1>3. AtPoint("error", f)
    BY DEF AtPoint
<1> HIDE DEF q
<1>4. State("error", Append(frames, f), m)
    BY <1>1, <1>2, <1>3, CallingNew
<1> QED
    BY <1>4 DEF OperandStar, q

\* ( opens two activations at once.
LEMMA OperandParenStep ==
    ASSUME IInv, OperandParen
    PROVE  State(pc', frames', m')
<1> DEFINE q == Target(Top)
<1>1. m \in Machine /\ q \in Nat /\ q + 3 <= MaxReg /\ AwaitsOperand(Top)
    BY TopFacts, TargetFacts, OperandContext DEF OperandParen, Room
<1>2. PICK neg \in Signs :
          frames' = frames \o << Frame(m, "paren", "expression", q, neg),
                                 Frame(m, "expression", "first", q, FALSE) >>
    BY DEF OperandParen
<1> HIDE DEF q
<1> DEFINE f == Frame(m, "paren", "expression", q, neg)
           g == Frame(m, "expression", "first", q, FALSE)
<1>3. /\ "paren" \in Functions /\ "expression" \in Ats("paren")
      /\ "expression" \in Functions /\ "first" \in Ats("expression")
      /\ neg \in BOOLEAN /\ FALSE \in BOOLEAN /\ "operand" \in Points
    BY DEF Functions, Ats, Signs, Points
<1>4. /\ f \in FrameType /\ Good(f) /\ f.base = Len(m.stack) /\ f.fn = "paren"
      /\ f.at = "expression"
    <2>1. "expression" \notin {"second", "later", "climb", "unwind"}
        OBVIOUS
    <2> QED
        BY <1>1, <1>3, <2>1, NewFrame
<1>5. /\ g \in FrameType /\ Good(g) /\ g.base = Len(m.stack) /\ g.fn = "expression"
      /\ g.at = "first"
    BY <1>1, NewExpression
<1> HIDE DEF f, g
<1>6. Held(f) = 0 /\ Held(g) = 0 /\ Len(m.stack) \in Nat
    BY <1>1, <1>4, <1>5 DEF Held, Machine
<1>7. Link(Top, f) /\ Link(f, g) /\ AtPoint("operand", g)
    BY <1>1, <1>4, <1>5, <1>6, TopFacts
    DEF Link, Calls, AwaitsExpression, AtPoint, AwaitsOperand
<1>8. /\ Activations(Append(frames, f))
      /\ Append(frames, f)[Len(Append(frames, f))] = f
    BY <1>4, <1>7, TopFacts, PushActivation DEF Top
<1>9. /\ Activations(Append(Append(frames, f), g))
      /\ Append(Append(frames, f), g)[Len(Append(Append(frames, f), g))] = g
    BY <1>5, <1>7, <1>8, PushActivation
<1>10. frames \o <<f, g>> = Append(Append(frames, f), g)
    <2>1. frames \in Seq(FrameType)
        BY TopFacts DEF Activations
    <2> QED
        BY <2>1, <1>4, <1>5
<1> DEFINE hs == Append(Append(frames, f), g)
<1> HIDE DEF hs
<1>11. Activations(hs) /\ hs[Len(hs)] = g
    BY <1>9 DEF hs
<1>12. Len(m.stack) = g.base + Held(g)
    BY <1>5, <1>6
<1>13. State("operand", hs, m)
    BY <1>1, <1>3, <1>7, <1>11, <1>12 DEF State
<1>14. frames' = hs
    BY <1>2, <1>10 DEF f, g, hs, q
<1> QED
    BY <1>13, <1>14 DEF OperandParen

\* A variable opens p_read_lvalue.
LEMMA OperandLvalueStep ==
    ASSUME IInv, OperandLvalue
    PROVE  State(pc', frames', m')
<1> DEFINE q == Target(Top)
<1>1. m \in Machine /\ q \in Nat /\ q + 3 <= MaxReg /\ AwaitsOperand(Top)
    BY TopFacts, TargetFacts, OperandContext DEF OperandLvalue, Room
<1>2. PICK v \in Variables, at \in {"value", "address"}, neg \in BOOLEAN,
           prefix \in BOOLEAN :
          frames' = Append(frames, [Frame(m, "lvalue", at, q, neg) EXCEPT
                      !.var = v, !.prefix = prefix, !.is_reference = ~v.is_array])
    BY DEF OperandLvalue
<1> DEFINE e == Frame(m, "lvalue", at, q, neg)
           f == [e EXCEPT !.var = v, !.prefix = prefix, !.is_reference = ~v.is_array]
<1>3. /\ "lvalue" \in Functions /\ at \in Ats("lvalue") /\ "lvalue" \in Points
      /\ at \notin {"second", "later", "climb", "unwind"}
    BY DEF Functions, Ats, Points
<1>4. /\ e \in FrameType /\ Good(e) /\ e.base = Len(m.stack) /\ e.fn = "lvalue"
      /\ e.at = at
    BY <1>1, <1>3, NewFrame
<1> HIDE DEF e
<1>5. v \in VariableKinds
    BY VariablesAssumption DEF VariableKinds
<1>6. f \in FrameType
    BY <1>4, <1>5 DEF FrameType, VariableKinds
<1>7. /\ f.base = e.base /\ f.fn = e.fn /\ f.at = e.at /\ f.ops = e.ops
      /\ f.pn = e.pn /\ f.oprs = e.oprs
    BY <1>4 DEF FrameType
<1> HIDE DEF f
<1>8. Good(f)
    BY <1>4, <1>7 DEF Good, FrameOK
<1>9. Held(f) = 0 /\ AtPoint("lvalue", f) /\ Link(Top, f)
    BY <1>1, <1>4, <1>7, TopFacts DEF Held, AtPoint, Link, Calls
<1>10. m' \in Machine /\ m'.stack = m.stack /\ Len(m.stack) \in Nat
    BY <1>1, LoadMachine DEF OperandLvalue, Machine
<1>11. Len(m'.stack) = f.base + Held(f)
    BY <1>4, <1>7, <1>9, <1>10
<1>12. State("lvalue", Append(frames, f), m')
    BY <1>3, <1>6, <1>8, <1>9, <1>10, <1>11, Calling
<1> QED
    BY <1>2, <1>12 DEF OperandLvalue, f, e

\* A call opens with the preserved registers on the stack.
LEMMA OperandCallStep ==
    ASSUME IInv, OperandCall
    PROVE  State(pc', frames', m')
<1> DEFINE q == Target(Top)
<1>1. /\ m \in Machine /\ q \in Nat /\ q \in Regs /\ q + 3 <= MaxReg
      /\ AwaitsOperand(Top)
    BY TopFacts, TargetFacts, OperandContext DEF OperandCall, Room
<1>2. PICK neg \in Signs : frames' = Append(frames, Frame(m, "call", "direct", q, neg))
    BY DEF OperandCall
<1> DEFINE f == Frame(m, "call", "direct", q, neg)
<1>3. /\ "call" \in Functions /\ "direct" \in Ats("call") /\ "params" \in Points
      /\ "direct" \notin {"second", "later", "climb", "unwind"} /\ neg \in BOOLEAN
    BY DEF Functions, Ats, Points, Signs
<1>4. /\ f \in FrameType /\ Good(f) /\ f.base = Len(m.stack) /\ f.fn = "call"
      /\ f.at = "direct" /\ f.pn = q
    BY <1>1, <1>3, NewFrame
<1> HIDE DEF f
<1>5. Held(f) = q /\ AtPoint("params", f) /\ Link(Top, f)
    BY <1>1, <1>4, TopFacts DEF Held, AtPoint, Link, Calls
<1>6. m' \in Machine /\ Len(m'.stack) = Len(m.stack) + q
    BY <1>1, PushRegsMachine DEF OperandCall
<1>7. Len(m'.stack) = f.base + Held(f)
    BY <1>4, <1>5, <1>6
<1>8. State("params", Append(frames, f), m')
    BY <1>3, <1>4, <1>5, <1>6, <1>7, Calling
<1> QED
    BY <1>2, <1>8 DEF OperandCall, f

\* ! returns to the activation that asked for the operand.
LEMMA NotDoneStep ==
    ASSUME IInv, NotDone
    PROVE  State(pc', frames', m')
<1>1. m' = Unary(m, "op_not", Top.pn, Top.pn) /\ "op_not" \in TermOps
    BY DEF NotDone, TermOps
<1>2. m' \in Machine /\ m'.stack = m.stack
    BY <1>1, TopFacts, UnaryMachine
<1>3. Len(frames) > 1 /\ Link(Caller, Top)
    BY CallerFacts DEF NotDone
<1>4. AtPoint("operand_done", Caller)
    BY <1>3 DEF Link, Calls, AtPoint, NotDone
<1>5. Held(Top) = 0
    BY TopFacts DEF Good, FrameOK, Ats, Held, NotDone
<1>6. Len(m'.stack) = Top.base
    BY <1>2, <1>5, TopFacts
<1> QED
    BY <1>2, <1>3, <1>4, <1>6, Returning DEF NotDone, Points

\* An error leaves everything where it was.
LEMMA RejectStep ==
    ASSUME IInv, Reject
    PROVE  State(pc', frames', m')
BY DEF Reject, IInv, State, AtPoint, Points

-----------------------------------------------------------------------------
(* Calls.                                                                  *)

\* An activation that waits for an expression calls p_read_expression.
LEMMA CallingExpression ==
    ASSUME IInv, NEW mc \in Machine, Len(mc.stack) = Len(m.stack),
           NEW pn \in Nat, pn + 3 <= MaxReg, AwaitsExpression(Top)
    PROVE  State("operand", Append(frames, Frame(mc, "expression", "first", pn, FALSE)), mc)
<1> DEFINE f == Frame(mc, "expression", "first", pn, FALSE)
<1>1. /\ f \in FrameType /\ Good(f) /\ f.base = Len(mc.stack) /\ f.fn = "expression"
      /\ f.at = "first"
    BY NewExpression
<1> HIDE DEF f
<1>2. Held(f) = 0 /\ AtPoint("operand", f) /\ "operand" \in Points
    BY <1>1 DEF Held, AtPoint, AwaitsOperand, Points
<1>3. Link(Top, f)
    BY <1>1, TopFacts DEF Link, Calls
<1>4. Len(mc.stack) = f.base + Held(f)
    BY <1>1, <1>2 DEF Machine
<1>5. State("operand", Append(frames, f), mc)
    BY <1>1, <1>2, <1>3, <1>4, Calling
<1> QED
    BY <1>5 DEF f

\* An argument is read with an expression of its own.
LEMMA NextArgumentStep ==
    ASSUME IInv, NextArgument
    PROVE  State(pc', frames', m')
<1> DEFINE n == Len(Top.args)
<1>1. n \in Nat
    BY TopFacts DEF FrameType
<1>2. n + 3 <= MaxReg
    BY DEF NextArgument
<1>3. AwaitsExpression(Top)
    BY TopFacts DEF NextArgument, AtPoint, AwaitsExpression, Good, FrameOK, Ats
<1> HIDE DEF n
<1>4. State("operand", Append(frames, Frame(m, "expression", "first", n, FALSE)), m)
    BY <1>1, <1>2, <1>3, TopFacts, CallingExpression
<1> QED
    BY <1>4 DEF NextArgument, n

\* A call returns with exactly the words it had pushed taken off.
LEMMA EndCallStep ==
    ASSUME IInv, EndCall
    PROVE  State(pc', frames', m')
<1> DEFINE c == IF Top.at = "pointer" THEN Pop(m, MAX_PARAMS - 1) ELSE m
           d == Called(c, Top.pn)
           e == PopRegs(d, Top.pn)
<1>1. /\ m \in Machine /\ Top.pn \in Nat /\ Top.pn \in Regs /\ Top.base \in Nat
      /\ Len(m.stack) = Top.base + Held(Top) /\ Top.fn = "call"
    BY TopFacts DEF EndCall, AtPoint
<1>2. Top.at \in {"direct", "pointer"}
    BY <1>1, TopFacts DEF Good, FrameOK, Ats
<1>3. c \in Machine /\ Len(c.stack) = Top.base + Top.pn
    <2>1. CASE Top.at = "pointer"
        <3>1. Len(m.stack) = Top.base + Top.pn + 1
            BY <1>1, <2>1 DEF Held
        <3>2. /\ Pop(m, MAX_PARAMS - 1) \in Machine
              /\ Len(Pop(m, MAX_PARAMS - 1).stack) = Len(m.stack) - 1
            BY <1>1, <3>1, PopMachine
        <3> QED
            BY <1>1, <2>1, <3>1, <3>2
    <2>2. CASE Top.at = "direct"
        BY <1>1, <2>2 DEF Held
    <2> QED
        BY <1>2, <2>1, <2>2
<1> HIDE DEF c
<1>4. d \in Machine /\ d.stack = c.stack
    BY <1>3, CalledMachine
<1> HIDE DEF d
<1>5. e \in Machine /\ Len(e.stack) = Top.base
    BY <1>1, <1>3, <1>4, PopRegsMachine
<1> HIDE DEF e
<1>6. m' = Negated(e, Top.neg, Top.pn)
    BY DEF EndCall, AtCall, c, d, e
<1>7. m' \in Machine /\ Len(m'.stack) = Top.base
    BY <1>1, <1>5, <1>6, NegatedMachine
<1>8. Len(frames) > 1 /\ Link(Caller, Top)
    BY <1>1, CallerFacts
<1>9. AtPoint("operand_done", Caller)
    BY <1>1, <1>8 DEF Link, Calls, AtPoint
<1> QED
    BY <1>7, <1>8, <1>9, Returning DEF EndCall, Points

\* An lvalue has nothing on the stack, and is called for an operand.
LEMMA LvalueFacts ==
    ASSUME IInv, Top.fn = "lvalue"
    PROVE  /\ Top.at \in {"value", "address", "deref"}
           /\ Held(Top) = 0 /\ Len(m.stack) = Top.base
           /\ Len(frames) > 1 /\ Link(Caller, Top)
           /\ AwaitsOperand(Caller)
           /\ Top.at # "deref" => AwaitsExpression(Top)
<1>1. Top.at \in {"value", "address", "deref"}
    BY TopFacts DEF Good, FrameOK, Ats
<1>2. Held(Top) = 0
    BY <1>1 DEF Held
<1>3. Len(frames) > 1 /\ Link(Caller, Top)
    BY CallerFacts
<1>4. AwaitsOperand(Caller) /\ (Top.at # "deref" => AwaitsExpression(Top))
    BY <1>3 DEF Link, Calls, AwaitsExpression
<1> QED
    BY <1>1, <1>2, <1>3, <1>4, TopFacts

\* The points inside p_read_lvalue.
LEMMA LvaluePoint ==
    ASSUME IInv, pc \in {"lvalue", "lvalue_done"}
    PROVE  Top.fn = "lvalue" /\ Top.at \in {"value", "address"}
BY TopFacts DEF AtPoint, Good, FrameOK, Ats, FrameType, Functions

\* A call through a pointer takes the place of the lvalue.
LEMMA PointerCallStep ==
    ASSUME IInv, PointerCall
    PROVE  State(pc', frames', m')
<1> DEFINE q == Top.pn
           a == PushRegs(m, q)
           f == Frame(m, "call", "pointer", q, Top.neg)
<1>1. Top.fn = "lvalue"
    BY LvaluePoint DEF PointerCall
<1>2. /\ m \in Machine /\ q \in Nat /\ q \in Regs /\ q + 3 <= MaxReg
      /\ Top.neg \in BOOLEAN
    BY TopFacts DEF PointerCall, Room, FrameType
<1>3. /\ "call" \in Functions /\ "pointer" \in Ats("call") /\ "params" \in Points
      /\ "pointer" \notin {"second", "later", "climb", "unwind"}
    BY DEF Functions, Ats, Points
<1>4. a \in Machine /\ Len(a.stack) = Len(m.stack) + q
    BY <1>2, PushRegsMachine
<1>5. m' \in Machine /\ Len(m'.stack) = Len(m.stack) + q + 1
    BY <1>2, <1>4, PushMachine DEF PointerCall
<1> HIDE DEF q
<1>6. /\ f \in FrameType /\ Good(f) /\ f.base = Len(m.stack) /\ f.fn = "call"
      /\ f.at = "pointer" /\ f.pn = q
    BY <1>2, <1>3, NewFrame
<1> HIDE DEF f
<1>7. Held(f) = q + 1 /\ AtPoint("params", f)
    BY <1>6 DEF Held, AtPoint
<1>8. f.base = Top.base /\ Len(m.stack) \in Nat
    BY <1>1, <1>2, <1>6, LvalueFacts DEF Machine
<1>9. Len(m'.stack) = f.base + Held(f)
    BY <1>2, <1>5, <1>6, <1>7, <1>8
<1>10. (f.fn = "expression") <=> (Top.fn = "expression")
    BY <1>1, <1>6
<1>11. State("params", Append(Below(1), f), m')
    BY <1>3, <1>5, <1>6, <1>7, <1>8, <1>9, <1>10, Going
<1> QED
    BY <1>11 DEF PointerCall, f, q

-----------------------------------------------------------------------------
(* Lvalues.                                                                *)

\* An index is read with an expression of its own.
LEMMA StartIndexStep ==
    ASSUME IInv, StartIndex
    PROVE  State(pc', frames', m')
<1> DEFINE c == IF Top.var.is_pointer > 0 THEN Unary(m, "op_read_addr", Top.pn, Top.pn)
                ELSE m
           n == Top.pn + 1
<1>1. Top.fn = "lvalue" /\ Top.at # "deref" /\ "op_read_addr" \in TermOps
    BY LvaluePoint DEF StartIndex, TermOps
<1>2. AwaitsExpression(Top)
    BY <1>1, LvalueFacts
<1>3. c \in Machine /\ c.stack = m.stack
    BY <1>1, TopFacts, UnaryMachine
<1>4. n \in Nat /\ n + 3 <= MaxReg
    BY TopFacts, SMTT(30) DEF StartIndex, Room
<1> HIDE DEF c, n
<1>5. State("operand", Append(frames, Frame(c, "expression", "first", n, FALSE)), c)
    BY <1>2, <1>3, <1>4, CallingExpression
<1> QED
    BY <1>5 DEF StartIndex, c, n

\* A change of the lvalue that keeps its place, its base and its operators.
LEMMA LvalueGoing ==
    ASSUME IInv, Top.fn = "lvalue", NEW g \in FrameType,
           g.fn = Top.fn, g.at = Top.at, g.pn = Top.pn, g.base = Top.base,
           g.ops = Top.ops, g.oprs = Top.oprs,
           Top.at \in {"value", "address"},
           NEW mc \in Machine, Len(mc.stack) = Len(m.stack)
    PROVE  State("lvalue", Append(Below(1), g), mc)
<1>1. Good(g)
    BY TopFacts DEF Good, FrameOK
<1>2. Held(g) = 0 /\ AtPoint("lvalue", g) /\ "lvalue" \in Points
    BY DEF Held, AtPoint, Points
<1>3. Len(mc.stack) = g.base + Held(g)
    BY <1>2, LvalueFacts, TopFacts
<1> QED
    BY <1>1, <1>2, <1>3, Going

\* A member replaces the variable.
LEMMA MemberStep ==
    ASSUME IInv, Member
    PROVE  State(pc', frames', m')
<1> DEFINE p == Top.pn
<1>1. PICK v \in Variables, arrow \in BOOLEAN :
          LET c == IF arrow THEN Unary(m, "op_read_addr", p, p) ELSE m IN
          /\ m' = Apply(Load(c, p + 1), "op_add", p, p + 1)
          /\ frames' = Append(Below(1),
                 [Top EXCEPT !.var = v, !.is_reference = ~v.is_array,
                             !.indexed = FALSE])
    BY DEF Member
<1> DEFINE c == IF arrow THEN Unary(m, "op_read_addr", p, p) ELSE m
           d == Load(c, p + 1)
           g == [Top EXCEPT !.var = v, !.is_reference = ~v.is_array,
                            !.indexed = FALSE]
<1>2. Top.fn = "lvalue" /\ Top.at \in {"value", "address"}
    BY LvaluePoint DEF Member
<1>3. "op_read_addr" \in TermOps /\ "op_add" \in TermOps
    BY DEF TermOps, BinaryOps
<1>4. c \in Machine /\ c.stack = m.stack
    BY <1>3, TopFacts, UnaryMachine
<1> HIDE DEF c
<1>5. d \in Machine /\ d.stack = c.stack
    BY <1>4, LoadMachine
<1> HIDE DEF d
<1>6. m' = Apply(d, "op_add", p, p + 1)
    BY <1>1 DEF c, d
<1>7. m' \in Machine /\ m'.stack = d.stack
    BY <1>3, <1>5, <1>6, TopFacts, ApplyMachine, ZenonT(30)
<1>8. Len(m'.stack) = Len(m.stack)
    BY <1>4, <1>5, <1>7
<1>9. v \in VariableKinds
    BY VariablesAssumption DEF VariableKinds
<1>10. g \in FrameType
    BY <1>9, TopFacts DEF FrameType, VariableKinds
<1>11. /\ g.fn = Top.fn /\ g.at = Top.at /\ g.pn = Top.pn /\ g.base = Top.base
       /\ g.ops = Top.ops /\ g.oprs = Top.oprs
    BY TopFacts DEF FrameType
<1>12. frames' = Append(Below(1), g)
    BY <1>1
<1> HIDE DEF g
<1>13. State("lvalue", Append(Below(1), g), m')
    BY <1>2, <1>7, <1>8, <1>10, <1>11, LvalueGoing
<1> QED
    BY <1>12, <1>13 DEF Member

\* An lvalue that is complete returns to the operand it is part of.
LEMMA LvalueReturn ==
    ASSUME IInv, Top.fn = "lvalue", NEW mc \in Machine, Len(mc.stack) = Len(m.stack)
    PROVE  State("operand_done", Below(1), mc)
<1>1. AtPoint("operand_done", Caller) /\ "operand_done" \in Points
    BY LvalueFacts DEF AtPoint, Points
<1> QED
    BY <1>1, LvalueFacts, Returning

\* & returns the address.
LEMMA AddressOfStep ==
    ASSUME IInv, AddressOf
    PROVE  State(pc', frames', m')
<1>1. Top.fn = "lvalue"
    BY LvaluePoint DEF AddressOf
<1>2. State("operand_done", Below(1), m)
    BY <1>1, TopFacts, LvalueReturn
<1> QED
    BY <1>2 DEF AddressOf

\* A value that has been read is returned, perhaps negated.
LEMMA LvalueDoneStep ==
    ASSUME IInv, LvalueDone
    PROVE  State(pc', frames', m')
<1>1. Top.fn = "lvalue"
    BY LvaluePoint DEF LvalueDone
<1>2. m' = Negated(m, Top.neg, Top.pn)
    BY DEF LvalueDone
<1>3. m' \in Machine /\ m'.stack = m.stack
    BY <1>2, TopFacts, NegatedMachine
<1>4. State("operand_done", Below(1), m')
    BY <1>1, <1>3, LvalueReturn
<1> QED
    BY <1>4 DEF LvalueDone

\* A step that changes only the machine and the point.
LEMMA Staying ==
    ASSUME IInv, NEW p \in Points, AtPoint(p, Top), NEW mc \in Machine,
           Len(mc.stack) = Len(m.stack)
    PROVE  State(p, frames, mc)
BY TopFacts DEF State, Top

\* An operand added to a pointer is read in the same activation.
LEMMA PointerPlusStep ==
    ASSUME IInv, PointerPlus
    PROVE  State(pc', frames', m')
<1>1. Top.fn = "lvalue" /\ Top.at = "value" /\ "op_read_addr" \in TermOps
    BY LvaluePoint DEF PointerPlus, TermOps
<1>2. m' = IF Top.is_reference THEN Unary(m, "op_read_addr", Top.pn, Top.pn) ELSE m
    BY DEF PointerPlus
<1>3. m' \in Machine /\ m'.stack = m.stack
    BY <1>1, <1>2, TopFacts, UnaryMachine
<1>4. AtPoint("operand", Top) /\ "operand" \in Points
    BY <1>1 DEF AtPoint, AwaitsOperand, Points
<1>5. State("operand", frames, m')
    BY <1>3, <1>4, Staying
<1> QED
    BY <1>5 DEF PointerPlus

\* The operand added to a pointer is scaled.
LEMMA PointerPlusDoneStep ==
    ASSUME IInv, PointerPlusDone
    PROVE  State(pc', frames', m')
<1>1. Top.fn = "lvalue" /\ AwaitsOperand(Top)
    BY OperandContext DEF PointerPlusDone
<1>2. Top.at \in {"value", "address"}
    BY <1>1, LvalueFacts DEF AwaitsOperand
<1>3. m' = AddScaled(m, Top.pn, Top.var.wide)
    BY DEF PointerPlusDone
<1>4. m' \in Machine /\ m'.stack = m.stack
    BY <1>3, TopFacts, AddScaledMachine
<1>5. AtPoint("lvalue_done", Top) /\ "lvalue_done" \in Points
    BY <1>2 DEF AtPoint, Points
<1>6. State("lvalue_done", frames, m')
    BY <1>4, <1>5, Staying
<1> QED
    BY <1>6 DEF PointerPlusDone

\* Reading the value, with what ++ and -- do around it.
LEMMA EvaluateStep ==
    ASSUME IInv, Evaluate
    PROVE  State(pc', frames', m')
<1> DEFINE p == Top.pn
           c == IF Top.prefix THEN Prefixed(m, p) ELSE m
<1>1. Top.at \in {"value", "address"} /\ "op_read_addr" \in TermOps
    BY LvaluePoint DEF Evaluate, TermOps
<1>2. c \in Machine /\ c.stack = m.stack
    BY TopFacts, PrefixedMachine
<1>3. m' = Postfixed(c, p) \/ m' = Unary(c, "op_read_addr", p, p) \/ m' = m
    BY DEF Evaluate
<1> HIDE DEF c
<1>4. m' \in Machine /\ Len(m'.stack) = Len(m.stack)
    <2>1. CASE m' = Postfixed(c, p)
        BY <2>1, <1>2, TopFacts, PostfixedMachine
    <2>2. CASE m' = Unary(c, "op_read_addr", p, p)
        BY <2>2, <1>1, <1>2, TopFacts, UnaryMachine
    <2>3. CASE m' = m
        BY <2>3, TopFacts
    <2> QED
        BY <1>3, <2>1, <2>2, <2>3
<1>5. AtPoint("lvalue_done", Top) /\ "lvalue_done" \in Points
    BY <1>1 DEF AtPoint, Points
<1>6. State("lvalue_done", frames, m')
    BY <1>4, <1>5, Staying
<1> QED
    BY <1>6 DEF Evaluate

-----------------------------------------------------------------------------
(* p_read_expression.                                                      *)

ExpressionAts == {"first", "second", "later", "climb", "unwind", "end"}

\* Where an activation is tells that it is an expression.
LEMMA ExpressionAt ==
    ASSUME IInv, Top.at \in ExpressionAts
    PROVE  Top.fn = "expression"
BY TopFacts DEF Good, FrameOK, Ats, ExpressionAts, FrameType, Functions

\* Priorities are the four numbers 0..3.
LEMMA PriorityRange ==
    ASSUME NEW op
    PROVE  /\ p_get_operator_priority(op) \in Nat
           /\ p_get_operator_priority(op) <= 3
BY DEF p_get_operator_priority

\* An ordered op_stack stays within four operators.
LEMMA OrderedFits ==
    ASSUME NEW ops \in Seq(BinaryOps), Ordered(ops)
    PROVE  Len(ops) <= 4
<1>1. Len(ops) \in Nat
    OBVIOUS
<1>2. CASE Len(ops) > 4
    <2>1. Len(ops) \in 1..Len(ops)
        BY <1>1, <1>2
    <2>2. p_get_operator_priority(ops[Len(ops)]) >= Len(ops) - 1
        BY <2>1 DEF Ordered
    <2>3. /\ p_get_operator_priority(ops[Len(ops)]) \in Nat
          /\ p_get_operator_priority(ops[Len(ops)]) <= 3
        BY PriorityRange
    <2> QED
        BY <1>1, <1>2, <2>2, <2>3
<1> QED
    BY <1>1, <1>2

\* A sequence without its last element.
LEMMA AllButLast ==
    ASSUME NEW S, NEW s \in Seq(S), Len(s) > 0
    PROVE  LET r == SubSeq(s, 1, Len(s) - 1) IN
           /\ r \in Seq(S)
           /\ Len(r) = Len(s) - 1
           /\ \A j \in 1..Len(r) : r[j] = s[j]
<1>1. Len(s) \in Nat
    OBVIOUS
<1> DEFINE n == Len(s) - 1
<1>2. n \in Nat /\ n \in Int /\ n <= Len(s)
    BY <1>1
<1>3. \A i \in 1..n : s[i] \in S
    BY <1>1
<1>8. \A k \in Nat : k - 1 + 1 = k /\ (k < 1 => k = 0)
    OBVIOUS
<1> HIDE DEF n
<1>4. n - 1 + 1 = n /\ (n < 1 => n = 0)
    BY <1>2, <1>8
<1>5. /\ SubSeq(s, 1, n) \in Seq(S)
      /\ Len(SubSeq(s, 1, n)) = IF 1 <= n THEN n - 1 + 1 ELSE 0
      /\ \A i \in 1..(n - 1 + 1) : SubSeq(s, 1, n)[i] = s[1 + i - 1]
    BY <1>2, <1>3, SubSeqProperties
<1>6. Len(SubSeq(s, 1, n)) = n
    BY <1>2, <1>4, <1>5
<1>7. \A i \in 1..n : SubSeq(s, 1, n)[i] = s[i]
    <2>1. \A i \in 1..n : 1 + i - 1 = i
        BY <1>2
    <2> QED
        BY <2>1, <1>4, <1>5
<1> QED
    BY <1>5, <1>6, <1>7 DEF n

\* Popping op_stack keeps its order.
LEMMA OrderedPop ==
    ASSUME NEW ops \in Seq(BinaryOps), Ordered(ops), Len(ops) > 0
    PROVE  /\ SubSeq(ops, 1, Len(ops) - 1) \in Seq(BinaryOps)
           /\ Len(SubSeq(ops, 1, Len(ops) - 1)) = Len(ops) - 1
           /\ Ordered(SubSeq(ops, 1, Len(ops) - 1))
<1> DEFINE r == SubSeq(ops, 1, Len(ops) - 1)
<1>1. ops \in Seq(BinaryOps) /\ Len(ops) \in Nat /\ Len(ops) > 0
    OBVIOUS
<1>2. r \in Seq(BinaryOps) /\ Len(r) = Len(ops) - 1 /\ \A j \in 1..Len(r) : r[j] = ops[j]
    BY <1>1, AllButLast
<1>3. \A j \in 1..Len(r) : r[j] = ops[j]
    BY <1>2
<1> HIDE DEF r
<1>4. ASSUME NEW j \in 1..(Len(r) - 1)
      PROVE  p_get_operator_priority(r[j]) < p_get_operator_priority(r[j + 1])
    <2>1. j \in 1..Len(r) /\ j + 1 \in 1..Len(r) /\ j \in 1..(Len(ops) - 1)
        BY <1>1, <1>2
    <2> QED
        BY <2>1, <1>3 DEF Ordered
<1>5. ASSUME NEW j \in 1..Len(r)
      PROVE  p_get_operator_priority(r[j]) >= j - 1
    <2>1. j \in 1..Len(ops)
        BY <1>1, <1>2
    <2> QED
        BY <2>1, <1>3 DEF Ordered
<1> QED
    BY <1>2, <1>4, <1>5 DEF Ordered, r

\* Pushing an operator that binds tighter than the one on top keeps it.
LEMMA OrderedPush ==
    ASSUME NEW ops \in Seq(BinaryOps), Ordered(ops), NEW op \in BinaryOps,
           Len(ops) > 0 => p_get_operator_priority(ops[Len(ops)])
                             < p_get_operator_priority(op)
    PROVE  /\ Append(ops, op) \in Seq(BinaryOps)
           /\ Len(Append(ops, op)) = Len(ops) + 1
           /\ Ordered(Append(ops, op))
<1> DEFINE r == Append(ops, op)
           n == Len(ops)
<1>1. n \in Nat
    OBVIOUS
<1>2. r \in Seq(BinaryOps) /\ Len(r) = n + 1 /\ r[n + 1] = op
    BY <1>1
<1>3. \A j \in 1..n : r[j] = ops[j]
    BY <1>1
<1> HIDE DEF r
<1>4. ASSUME NEW j \in 1..(Len(r) - 1)
      PROVE  p_get_operator_priority(r[j]) < p_get_operator_priority(r[j + 1])
    <2>1. CASE j = n
        BY <2>1, <1>1, <1>2, <1>3
    <2>2. CASE j < n
        <3>1. j \in 1..n /\ j + 1 \in 1..n /\ j \in 1..(n - 1)
            BY <2>2, <1>1, <1>2
        <3> QED
            BY <3>1, <1>3 DEF Ordered
    <2> QED
        BY <2>1, <2>2, <1>1, <1>2
<1>5. ASSUME NEW j \in 1..Len(r)
      PROVE  p_get_operator_priority(r[j]) >= j - 1
    <2>1. CASE j = n + 1
        <3>1. p_get_operator_priority(op) \in Nat
            BY PriorityRange
        <3>2. CASE n = 0
            BY <3>1, <3>2, <2>1, <1>2
        <3>3. CASE n > 0
            <4>1. n \in 1..n
                BY <1>1, <3>3
            <4>2. p_get_operator_priority(ops[n]) >= n - 1
                BY <4>1 DEF Ordered
            <4>3. p_get_operator_priority(ops[n]) \in Nat
                BY PriorityRange
            <4> QED
                BY <4>2, <4>3, <3>1, <3>3, <2>1, <1>1, <1>2
        <3> QED
            BY <3>2, <3>3, <1>1
    <2>2. CASE j \in 1..n
        BY <2>2, <1>3 DEF Ordered
    <2> QED
        BY <2>1, <2>2, <1>1, <1>2
<1> QED
    BY <1>2, <1>4, <1>5 DEF Ordered, r

\* A change of an expression that keeps its place and base: what has to hold
\* of its new operators for it to be a good one.
LEMMA ExpressionGoing ==
    ASSUME IInv, Top.fn = "expression", NEW g \in FrameType,
           g.fn = Top.fn, g.pn = Top.pn, g.base = Top.base,
           g.at \in ExpressionAts, Ordered(g.ops),
           g.at \in {"second", "climb"} => Len(g.oprs) > 0,
           g.at \in {"later", "unwind"} => Len(g.ops) > 0,
           NEW p \in Points, AtPoint(p, g),
           NEW mc \in Machine, Len(mc.stack) = g.base + Held(g)
    PROVE  State(p, Append(Below(1), g), mc)
<1>1. g.pn + 3 <= MaxReg
    BY TopFacts DEF Good, FrameOK
<1>2. g.at \in Ats(g.fn)
    BY DEF Ats, ExpressionAts
<1>3. FrameOK(g)
    BY <1>1, <1>2 DEF FrameOK
<1>4. Len(g.ops) <= 4
    BY OrderedFits DEF FrameType
<1>5. Good(g)
    BY <1>3, <1>4 DEF Good
<1> QED
    BY <1>5, Going

\* The operand just read joins args and changes nothing else.
LEMMA WithOperandFacts ==
    ASSUME IInv
    PROVE  LET f == WithOperand(Top) IN
           /\ f \in FrameType
           /\ f.fn = Top.fn /\ f.at = Top.at /\ f.pn = Top.pn /\ f.base = Top.base
           /\ f.ops = Top.ops /\ f.oprs = Top.oprs
<1> DEFINE r == IF Top.at = "second" THEN Top.pn + 1 ELSE Top.pn
<1>1. r \in Regs
    BY TopFacts
<1>2. m.reg[r] \in Nat
    BY <1>1, TopFacts DEF Machine
<1>3. Append(Top.args, m.reg[r]) \in Seq(Nat)
    BY <1>2, TopFacts DEF FrameType
<1> HIDE DEF r
<1>4. WithOperand(Top) = [Top EXCEPT !.args = Append(@, m.reg[r])]
    BY DEF WithOperand, r
<1> QED
    BY <1>3, <1>4, TopFacts DEF FrameType

\* Reading an operator adds it to oprs.
LEMMA FollowingFacts ==
    ASSUME NEW f \in FrameType, NEW op \in BinaryOps, NEW at \in ExpressionAts
    PROVE  LET g == Following(f, op, at) IN
           /\ g \in FrameType
           /\ g.fn = f.fn /\ g.at = at /\ g.pn = f.pn /\ g.base = f.base
           /\ g.ops = f.ops /\ g.oprs \in Seq(BinaryOps) /\ Len(g.oprs) = Len(f.oprs) + 1
           /\ Len(g.oprs) > 0
<1>1. at \in UNION {Ats(c) : c \in Functions}
    <2>1. "expression" \in Functions /\ at \in Ats("expression")
        BY DEF Functions, Ats, ExpressionAts
    <2> QED
        BY <2>1
<1> DEFINE s == Append(f.oprs, op)
           g == [f EXCEPT !.oprs = s, !.at = at]
<1>2. s \in Seq(BinaryOps) /\ Len(s) = Len(f.oprs) + 1 /\ Len(f.oprs) \in Nat
    BY DEF FrameType
<1>3. Following(f, op, at) = g
    BY DEF Following
<1> HIDE DEF s
<1>4. /\ g \in FrameType
      /\ g.fn = f.fn /\ g.at = at /\ g.pn = f.pn /\ g.base = f.base
      /\ g.ops = f.ops /\ g.oprs = s
    BY <1>1, <1>2 DEF FrameType
<1> HIDE DEF g
<1>5. Len(s) > 0
    BY <1>2
<1> QED
    BY <1>2, <1>3, <1>4, <1>5

\* The words an expression that is using op_stack holds.
LEMMA HeldFacts ==
    ASSUME NEW f
    PROVE  /\ f.at = "climb" => Held(f) = Len(f.ops) + 1
           /\ f.at = "unwind" => Held(f) = Len(f.ops) + 1
           /\ f.at = "later" => Held(f) = Len(f.ops)
           /\ f.at = "end" => Held(f) = 0
BY DEF Held

\* Only the place changes.
LEMMA PlacedFacts ==
    ASSUME NEW f \in FrameType, NEW at \in ExpressionAts
    PROVE  LET g == [f EXCEPT !.at = at] IN
           /\ g \in FrameType
           /\ g.fn = f.fn /\ g.at = at /\ g.pn = f.pn /\ g.base = f.base
           /\ g.ops = f.ops /\ g.oprs = f.oprs
<1>1. at \in UNION {Ats(c) : c \in Functions}
    <2>1. "expression" \in Functions /\ at \in Ats("expression")
        BY DEF Functions, Ats, ExpressionAts
    <2> QED
        BY <2>1
<1> QED
    BY <1>1 DEF FrameType

\* The first operand waits in its register.
LEMMA FirstOperandStep ==
    ASSUME IInv, FirstOperand
    PROVE  State(pc', frames', m')
<1> DEFINE f == WithOperand(Top)
<1>1. /\ f \in FrameType /\ f.fn = Top.fn /\ f.pn = Top.pn /\ f.base = Top.base
      /\ f.ops = Top.ops /\ f.oprs = Top.oprs
    BY WithOperandFacts
<1>2. Top.fn = "expression" /\ Top.at = "first" /\ m' = m
    BY ExpressionAt DEF FirstOperand, ExpressionAts
<1>3. Ordered(Top.ops) /\ m \in Machine /\ Len(m.stack) = Top.base /\ Top.base \in Nat
    BY <1>2, TopFacts DEF Good, Held
<1> HIDE DEF f
<1>4. CASE frames' = Append(Below(1), [f EXCEPT !.at = "end"]) /\ pc' = "expr_done"
    <2> DEFINE g == [f EXCEPT !.at = "end"]
    <2>1. /\ g \in FrameType /\ g.fn = f.fn /\ g.at = "end" /\ g.pn = f.pn
          /\ g.base = f.base /\ g.ops = f.ops
        BY <1>1, PlacedFacts DEF ExpressionAts
    <2> HIDE DEF g
    <2>2. /\ g.at \in ExpressionAts /\ Held(g) = 0 /\ AtPoint("expr_done", g)
          /\ "expr_done" \in Points /\ g.at \notin {"second", "climb", "later", "unwind"}
        BY <2>1 DEF ExpressionAts, Held, AtPoint, Points
    <2>3. Len(m.stack) = g.base + Held(g)
        BY <1>1, <1>3, <2>1, <2>2
    <2>4. State("expr_done", Append(Below(1), g), m)
        BY <1>1, <1>2, <1>3, <2>1, <2>2, <2>3, ExpressionGoing
    <2> QED
        BY <1>2, <1>4, <2>4 DEF g
<1>5. CASE \E op \in BinaryOps :
              frames' = Append(Below(1), Following(f, op, "second")) /\ pc' = "operand"
    <2>1. PICK op \in BinaryOps : frames' = Append(Below(1), Following(f, op, "second"))
        BY <1>5
    <2> DEFINE g == Following(f, op, "second")
    <2>2. /\ g \in FrameType /\ g.fn = f.fn /\ g.at = "second" /\ g.pn = f.pn
          /\ g.base = f.base /\ g.ops = f.ops /\ Len(g.oprs) > 0
        BY <1>1, FollowingFacts DEF ExpressionAts
    <2> HIDE DEF g
    <2>3. /\ g.at \in ExpressionAts /\ Held(g) = 0 /\ AtPoint("operand", g)
          /\ "operand" \in Points /\ g.at \notin {"later", "unwind"}
        BY <2>2 DEF ExpressionAts, Held, AtPoint, AwaitsOperand, Points
    <2>4. Len(m.stack) = g.base + Held(g)
        BY <1>1, <1>3, <2>2, <2>3
    <2>5. State("operand", Append(Below(1), g), m)
        BY <1>1, <1>2, <1>3, <2>2, <2>3, <2>4, ExpressionGoing
    <2> QED
        BY <1>2, <1>5, <2>1, <2>5 DEF g
<1> QED
    BY <1>4, <1>5 DEF FirstOperand, f

\* The second is combined with it, or both are pushed.
LEMMA SecondOperandStep ==
    ASSUME IInv, SecondOperand
    PROVE  State(pc', frames', m')
<1> DEFINE f == WithOperand(Top)
           p == Top.pn
<1>1. /\ f \in FrameType /\ f.fn = Top.fn /\ f.pn = Top.pn /\ f.base = Top.base
      /\ f.ops = Top.ops /\ f.oprs = Top.oprs
    BY WithOperandFacts
<1>2. Top.fn = "expression" /\ Top.at = "second"
    BY ExpressionAt DEF SecondOperand, ExpressionAts
<1>3. Ordered(Top.ops) /\ m \in Machine /\ Len(m.stack) = Top.base /\ Top.base \in Nat
    BY <1>2, TopFacts DEF Good, Held
<1>4. f.oprs[1] \in BinaryOps
    <2>1. Top.oprs \in Seq(BinaryOps) /\ Len(Top.oprs) > 0
        BY <1>2, TopFacts DEF FrameType, Good, FrameOK
    <2> QED
        BY <2>1, <1>1
<1> HIDE DEF f
<1>5. CASE /\ m' = Apply(m, f.oprs[1], f.pn, f.pn + 1)
           /\ frames' = Append(Below(1), [f EXCEPT !.at = "end"]) /\ pc' = "expr_done"
    <2> DEFINE g == [f EXCEPT !.at = "end"]
    <2>1. /\ g \in FrameType /\ g.fn = f.fn /\ g.at = "end" /\ g.pn = f.pn
          /\ g.base = f.base /\ g.ops = f.ops
        BY <1>1, PlacedFacts DEF ExpressionAts
    <2> HIDE DEF g
    <2>2. /\ g.at \in ExpressionAts /\ Held(g) = 0 /\ AtPoint("expr_done", g)
          /\ "expr_done" \in Points /\ g.at \notin {"second", "climb", "later", "unwind"}
        BY <2>1 DEF ExpressionAts, Held, AtPoint, Points
    <2>3. m' \in Machine /\ m'.stack = m.stack
        <3>1. f.oprs[1] \in TermOps
            BY <1>4 DEF TermOps
        <3>2. f.pn \in Regs /\ f.pn + 1 \in Regs
            BY <1>1, TopFacts
        <3> QED
            BY <3>1, <3>2, <1>3, <1>5, ApplyMachine
    <2>4. Len(m'.stack) = g.base + Held(g)
        BY <1>1, <1>3, <2>1, <2>2, <2>3
    <2>5. State("expr_done", Append(Below(1), g), m')
        BY <1>1, <1>2, <1>3, <2>1, <2>2, <2>3, <2>4, ExpressionGoing
    <2> QED
        BY <1>5, <2>5 DEF g
<1>6. CASE \E op \in BinaryOps :
              /\ m' = Push(Push(m, f.pn), f.pn + 1)
              /\ frames' = Append(Below(1),
                     [Following(f, op, "climb") EXCEPT !.ops = <<f.oprs[1]>>])
              /\ pc' = "apply"
    <2>1. PICK op \in BinaryOps :
              frames' = Append(Below(1),
                     [Following(f, op, "climb") EXCEPT !.ops = <<f.oprs[1]>>])
        BY <1>6
    <2> DEFINE e == Following(f, op, "climb")
               o == <<f.oprs[1]>>
               g == [e EXCEPT !.ops = o]
    <2>2. /\ e \in FrameType /\ e.fn = f.fn /\ e.at = "climb" /\ e.pn = f.pn
          /\ e.base = f.base /\ Len(e.oprs) > 0
        BY <1>1, FollowingFacts DEF ExpressionAts
    <2>3. o \in Seq(BinaryOps) /\ Len(o) = 1 /\ o[1] = f.oprs[1]
        BY <1>4
    <2> HIDE DEF e, o
    <2>4. Ordered(o)
        <3>1. p_get_operator_priority(o[1]) \in Nat
            BY PriorityRange
        <3> QED
            BY <3>1, <2>3 DEF Ordered
    <2>5. /\ g \in FrameType /\ g.fn = e.fn /\ g.at = e.at /\ g.pn = e.pn
          /\ g.base = e.base /\ g.ops = o /\ g.oprs = e.oprs
        BY <2>2, <2>3 DEF FrameType
    <2> HIDE DEF g
    <2>6. /\ g.at = "climb" /\ g.at \in ExpressionAts /\ AtPoint("apply", g)
          /\ "apply" \in Points
        BY <2>2, <2>5 DEF ExpressionAts, AtPoint, Points
    <2>16. Held(g) = Len(g.ops) + 1
        BY <2>6, HeldFacts, Zenon
    <2>17. Len(g.ops) = 1
        BY <2>3, <2>5
    <2>7. Held(g) = 2
        BY <2>16, <2>17
    <2> DEFINE a == Push(m, f.pn)
    <2>14. f.pn \in Regs /\ f.pn + 1 \in Regs
        BY <1>1, TopFacts
    <2>8. a \in Machine /\ Len(a.stack) = Len(m.stack) + 1
        BY <2>14, <1>3, PushMachine
    <2>15. m' = Push(a, f.pn + 1)
        BY <1>6
    <2> HIDE DEF a
    <2>9. m' \in Machine /\ Len(m'.stack) = Len(m.stack) + 1 + 1
        BY <2>8, <2>14, <2>15, PushMachine
    <2>10. Len(m'.stack) = g.base + Held(g)
        BY <1>1, <1>3, <2>2, <2>5, <2>7, <2>9
    <2>11. g.at \notin {"later", "unwind"} /\ Len(g.oprs) > 0 /\ Ordered(g.ops)
        BY <2>2, <2>4, <2>5, <2>6
    <2>12. g.fn = Top.fn /\ g.pn = Top.pn /\ g.base = Top.base
        BY <1>1, <2>2, <2>5
    <2>13. State("apply", Append(Below(1), g), m')
        BY <1>2, <2>5, <2>6, <2>9, <2>10, <2>11, <2>12, ExpressionGoing
    <2> QED
        BY <1>6, <2>1, <2>13 DEF g, e, o
<1> QED
    BY <1>5, <1>6 DEF SecondOperand, f

\* Any further one is pushed.
LEMMA LaterOperandStep ==
    ASSUME IInv, LaterOperand
    PROVE  State(pc', frames', m')
<1> DEFINE f == WithOperand(Top)
<1>1. /\ f \in FrameType /\ f.fn = Top.fn /\ f.pn = Top.pn /\ f.base = Top.base
      /\ f.ops = Top.ops /\ f.oprs = Top.oprs
    BY WithOperandFacts
<1>2. Top.fn = "expression" /\ Top.at = "later" /\ pc' = "apply"
    BY ExpressionAt DEF LaterOperand, ExpressionAts
<1>3. /\ Ordered(Top.ops) /\ Len(Top.ops) > 0 /\ m \in Machine /\ Top.base \in Nat
      /\ Top.ops \in Seq(BinaryOps)
    BY <1>2, TopFacts DEF Good, FrameType
<1>4. Len(m.stack) = Top.base + Len(Top.ops)
    BY <1>2, TopFacts, HeldFacts
<1>5. m' = Push(m, f.pn)
    BY DEF LaterOperand
<1>6. f.pn \in Regs
    BY <1>1, TopFacts
<1> HIDE DEF f
<1>7. m' \in Machine /\ Len(m'.stack) = Len(m.stack) + 1
    BY <1>3, <1>5, <1>6, PushMachine
<1>8. Len(m'.stack) = Top.base + (Len(Top.ops) + 1)
    BY <1>3, <1>4, <1>7
<1>9. CASE frames' = Append(Below(1), [f EXCEPT !.at = "unwind"])
    <2> DEFINE g == [f EXCEPT !.at = "unwind"]
    <2>1. /\ g \in FrameType /\ g.fn = f.fn /\ g.at = "unwind" /\ g.pn = f.pn
          /\ g.base = f.base /\ g.ops = f.ops
        BY <1>1, PlacedFacts DEF ExpressionAts
    <2> HIDE DEF g
    <2>2. /\ g.at \in ExpressionAts /\ AtPoint("apply", g) /\ "apply" \in Points
          /\ g.at \notin {"second", "climb"}
        BY <2>1 DEF ExpressionAts, AtPoint, Points
    <2>3. Held(g) = Len(g.ops) + 1
        BY <2>1, HeldFacts, Zenon
    <2>4. Len(m'.stack) = g.base + Held(g)
        BY <1>1, <1>8, <2>1, <2>3
    <2>5. State("apply", Append(Below(1), g), m')
        BY <1>1, <1>2, <1>3, <1>7, <2>1, <2>2, <2>4, ExpressionGoing
    <2> QED
        BY <1>2, <1>9, <2>5 DEF g
<1>10. CASE \E op \in BinaryOps :
               frames' = Append(Below(1), Following(f, op, "climb"))
    <2>1. PICK op \in BinaryOps : frames' = Append(Below(1), Following(f, op, "climb"))
        BY <1>10
    <2> DEFINE g == Following(f, op, "climb")
    <2>2. /\ g \in FrameType /\ g.fn = f.fn /\ g.at = "climb" /\ g.pn = f.pn
          /\ g.base = f.base /\ g.ops = f.ops /\ Len(g.oprs) > 0
        BY <1>1, FollowingFacts DEF ExpressionAts
    <2> HIDE DEF g
    <2>3. /\ g.at \in ExpressionAts /\ AtPoint("apply", g) /\ "apply" \in Points
          /\ g.at \notin {"later", "unwind"}
        BY <2>2 DEF ExpressionAts, AtPoint, Points
    <2>4. Held(g) = Len(g.ops) + 1
        BY <2>2, HeldFacts, Zenon
    <2>5. Len(m'.stack) = g.base + Held(g)
        BY <1>1, <1>8, <2>2, <2>4
    <2>6. State("apply", Append(Below(1), g), m')
        BY <1>1, <1>2, <1>3, <1>7, <2>2, <2>3, <2>5, ExpressionGoing
    <2> QED
        BY <1>2, <2>1, <2>6 DEF g
<1> QED
    BY <1>9, <1>10 DEF LaterOperand, f

\* What applying the operator on top of op_stack does.
LEMMA ApplyFacts ==
    ASSUME IInv, pc = "apply", Len(Top.ops) > 0
    PROVE  LET g == PopOp(Top) IN
           /\ Top.fn = "expression" /\ Top.at \in {"climb", "unwind"}
           /\ ApplyTop(Top) \in Machine
           /\ Len(ApplyTop(Top).stack) = Top.base + (Len(Top.ops) - 1)
           /\ g \in FrameType /\ g.fn = Top.fn /\ g.at = Top.at /\ g.pn = Top.pn
           /\ g.base = Top.base /\ g.oprs = Top.oprs
           /\ Ordered(g.ops) /\ Len(g.ops) = Len(Top.ops) - 1
<1> DEFINE r == SubSeq(Top.ops, 1, Len(Top.ops) - 1)
           g == [Top EXCEPT !.ops = r]
<1>1. Top.at \in {"climb", "unwind"}
    BY TopFacts DEF AtPoint
<1>2. Top.fn = "expression"
    BY <1>1, ExpressionAt DEF ExpressionAts
<1>3. /\ Top.ops \in Seq(BinaryOps) /\ Ordered(Top.ops) /\ Len(Top.ops) \in Nat
      /\ Top.base \in Nat /\ Top \in FrameType /\ m \in Machine
    BY TopFacts, SMTT(30) DEF Good, FrameType
<1>4. Len(m.stack) = Top.base + (Len(Top.ops) + 1)
    <2>1. Held(Top) = Len(Top.ops) + 1
        BY <1>1, HeldFacts
    <2> QED
        BY <2>1, TopFacts
<1>5. Len(m.stack) > 1
    BY <1>3, <1>4
<1>6. ApplyTop(Top) \in Machine /\ Len(ApplyTop(Top).stack) = Len(m.stack) - 2
    BY <1>3, <1>5, TopFacts, ApplyTopMachine
<1>7. Len(ApplyTop(Top).stack) = Top.base + (Len(Top.ops) - 1)
    BY <1>3, <1>4, <1>6
<1>8. r \in Seq(BinaryOps) /\ Len(r) = Len(Top.ops) - 1 /\ Ordered(r)
    BY <1>3, OrderedPop
<1>9. PopOp(Top) = g
    BY DEF PopOp
<1> HIDE DEF r
<1>10. /\ g \in FrameType /\ g.fn = Top.fn /\ g.at = Top.at /\ g.pn = Top.pn
       /\ g.base = Top.base /\ g.oprs = Top.oprs /\ g.ops = r
    BY <1>3, <1>8 DEF FrameType
<1> HIDE DEF g
<1> QED
    BY <1>1, <1>2, <1>6, <1>7, <1>8, <1>9, <1>10

\* A stacked operator takes two words and pushes one.
LEMMA ApplyStackedStep ==
    ASSUME IInv, ApplyStacked
    PROVE  State(pc', frames', m')
<1> DEFINE a == ApplyTop(Top)
           g == PopOp(Top)
<1>1. pc = "apply" /\ Len(Top.ops) > 0 /\ Top.at = "climb"
    BY DEF ApplyStacked, AppliesFirst
<1>2. /\ Top.fn = "expression" /\ a \in Machine
      /\ Len(a.stack) = Top.base + (Len(Top.ops) - 1)
      /\ g \in FrameType /\ g.fn = Top.fn /\ g.at = "climb" /\ g.pn = Top.pn
      /\ g.base = Top.base /\ g.oprs = Top.oprs
      /\ Ordered(g.ops) /\ Len(g.ops) = Len(Top.ops) - 1
    BY <1>1, ApplyFacts
<1>3. Top.base \in Nat /\ Len(Top.ops) \in Nat /\ Top.pn \in Regs /\ Len(Top.oprs) > 0
    BY <1>1, TopFacts DEF FrameType, Good, FrameOK
<1>4. m' = Push(a, Top.pn) /\ frames' = Append(Below(1), g) /\ pc' = "apply"
    BY DEF ApplyStacked
<1> HIDE DEF a, g
<1>5. m' \in Machine /\ Len(m'.stack) = Len(a.stack) + 1
    BY <1>2, <1>3, <1>4, PushMachine
<1>6. Held(g) = Len(g.ops) + 1
    BY <1>2, HeldFacts, Zenon
<1>7. Len(m'.stack) = g.base + Held(g)
    BY <1>2, <1>3, <1>5, <1>6
<1>8. /\ g.at \in ExpressionAts /\ AtPoint("apply", g) /\ "apply" \in Points
      /\ g.at \notin {"later", "unwind"} /\ Len(g.oprs) > 0
    BY <1>2, <1>3 DEF ExpressionAts, AtPoint, Points
<1>9. State("apply", Append(Below(1), g), m')
    BY <1>2, <1>5, <1>7, <1>8, ExpressionGoing
<1> QED
    BY <1>4, <1>9

\* An operator is stacked on one of lower priority only.
LEMMA PushOperatorStep ==
    ASSUME IInv, PushOperator
    PROVE  State(pc', frames', m')
<1> DEFINE op == Top.oprs[Len(Top.oprs)]
           o == Append(Top.ops, op)
           g == [Top EXCEPT !.ops = o, !.at = "later"]
<1>1. Top.at = "climb" /\ Top.fn = "expression" /\ m' = m /\ pc' = "operand"
    BY ExpressionAt DEF PushOperator, ExpressionAts
<1>2. /\ Top.ops \in Seq(BinaryOps) /\ Top.oprs \in Seq(BinaryOps)
      /\ Len(Top.oprs) > 0 /\ Ordered(Top.ops) /\ Top \in FrameType
      /\ Top.base \in Nat /\ Len(Top.ops) \in Nat
    BY <1>1, TopFacts, SMTT(30) DEF FrameType, Good, FrameOK
<1>3. op \in BinaryOps
    BY <1>2
<1>4. Len(Top.ops) > 0 => p_get_operator_priority(Top.ops[Len(Top.ops)])
                            < p_get_operator_priority(op)
    <2>1. ~AppliesFirst(Top)
        BY DEF PushOperator
    <2>2. /\ p_get_operator_priority(Top.ops[Len(Top.ops)]) \in Nat
          /\ p_get_operator_priority(op) \in Nat
        BY PriorityRange
    <2> QED
        BY <2>1, <2>2 DEF AppliesFirst
<1>5. frames' = Append(Below(1), g)
    BY DEF PushOperator
<1> HIDE DEF op
<1>6. o \in Seq(BinaryOps) /\ Len(o) = Len(Top.ops) + 1 /\ Ordered(o)
    BY <1>2, <1>3, <1>4, OrderedPush
<1> HIDE DEF o
<1>7. /\ g \in FrameType /\ g.fn = Top.fn /\ g.at = "later" /\ g.pn = Top.pn
      /\ g.base = Top.base /\ g.ops = o
    <2>1. "later" \in Ats("expression") /\ "expression" \in Functions
        BY DEF Ats, Functions
    <2>2. "later" \in UNION {Ats(c) : c \in Functions}
        BY <2>1
    <2>3. Top \in FrameType /\ o \in Seq(BinaryOps)
        BY <1>2, <1>6
    <2> QED
        BY <2>2, <2>3 DEF FrameType
<1> HIDE DEF g
<1>8. Held(g) = Len(o)
    BY <1>7, HeldFacts, Zenon
<1>9. Len(m.stack) = Top.base + (Len(Top.ops) + 1) /\ m \in Machine
    <2>1. Held(Top) = Len(Top.ops) + 1
        BY <1>1, HeldFacts, Zenon
    <2> QED
        BY <2>1, TopFacts
<1>10. Len(m.stack) = g.base + Held(g)
    BY <1>6, <1>7, <1>8, <1>9
<1>11. /\ g.at \in ExpressionAts /\ AtPoint("operand", g) /\ "operand" \in Points
       /\ g.at \notin {"second", "climb"} /\ Len(g.ops) > 0 /\ Ordered(g.ops)
    BY <1>2, <1>6, <1>7 DEF ExpressionAts, AtPoint, AwaitsOperand, Points
<1>12. State("operand", Append(Below(1), g), m)
    BY <1>1, <1>7, <1>9, <1>10, <1>11, ExpressionGoing
<1> QED
    BY <1>1, <1>5, <1>12

\* The operators left are applied one by one.
LEMMA UnwindStep ==
    ASSUME IInv, Unwind
    PROVE  State(pc', frames', m')
<1> DEFINE a == ApplyTop(Top)
           h == PopOp(Top)
<1>1. pc = "apply" /\ Len(Top.ops) > 0 /\ Top.at = "unwind"
    BY DEF Unwind
<1>2. /\ Top.fn = "expression" /\ a \in Machine
      /\ Len(a.stack) = Top.base + (Len(Top.ops) - 1)
      /\ h \in FrameType /\ h.fn = Top.fn /\ h.at = "unwind" /\ h.pn = Top.pn
      /\ h.base = Top.base /\ Ordered(h.ops) /\ Len(h.ops) = Len(Top.ops) - 1
    BY <1>1, ApplyFacts
<1>3. Top.base \in Nat /\ Len(Top.ops) \in Nat /\ Top.pn \in Regs
    BY TopFacts DEF FrameType
<1> HIDE DEF a, h
<1>4. CASE Len(Top.ops) = 1
    <2> DEFINE g == [h EXCEPT !.at = "end"]
    <2>1. /\ g \in FrameType /\ g.fn = h.fn /\ g.at = "end" /\ g.pn = h.pn
          /\ g.base = h.base /\ g.ops = h.ops
        BY <1>2, PlacedFacts DEF ExpressionAts
    <2>2. m' = a /\ frames' = Append(Below(1), g) /\ pc' = "expr_done"
        BY <1>4 DEF Unwind, a, h
    <2> HIDE DEF g
    <2>3. Held(g) = 0
        BY <2>1, HeldFacts, Zenon
    <2>4. Len(m'.stack) = g.base + Held(g)
        BY <1>2, <1>3, <1>4, <2>1, <2>2, <2>3
    <2>5. /\ g.at \in ExpressionAts /\ AtPoint("expr_done", g) /\ "expr_done" \in Points
          /\ g.at \notin {"second", "climb", "later", "unwind"} /\ Ordered(g.ops)
        BY <1>2, <2>1 DEF ExpressionAts, AtPoint, Points
    <2>6. State("expr_done", Append(Below(1), g), m')
        BY <1>2, <2>1, <2>2, <2>4, <2>5, ExpressionGoing
    <2> QED
        BY <2>2, <2>6
<1>5. CASE Len(Top.ops) # 1
    <2>1. m' = Push(a, Top.pn) /\ frames' = Append(Below(1), h) /\ pc' = "apply"
        BY <1>1, <1>5 DEF Unwind, a, h
    <2>2. m' \in Machine /\ Len(m'.stack) = Len(a.stack) + 1
        BY <1>2, <1>3, <2>1, PushMachine
    <2>3. Held(h) = Len(h.ops) + 1
        BY <1>2, HeldFacts, Zenon
    <2>7. Len(h.ops) > 0 /\ Len(h.ops) \in Nat
        <3>1. \A k \in Nat : k > 0 /\ k # 1 => k - 1 > 0 /\ k - 1 \in Nat
            OBVIOUS
        <3>2. Len(Top.ops) - 1 > 0 /\ Len(Top.ops) - 1 \in Nat
            BY <3>1, <1>1, <1>3, <1>5, Zenon
        <3> QED
            BY <3>2, <1>2
    <2>4. Len(m'.stack) = h.base + Held(h)
        <3>1. Len(m'.stack) = h.base + Len(h.ops) + 1
            BY <1>2, <2>2
        <3> QED
            BY <3>1, <1>2, <1>3, <2>3, <2>7, SMTT(30)
    <2>5. /\ h.at \in ExpressionAts /\ AtPoint("apply", h) /\ "apply" \in Points
          /\ h.at \notin {"second", "climb"}
        BY <1>2 DEF ExpressionAts, AtPoint, Points
    <2>6. State("apply", Append(Below(1), h), m')
        BY <1>2, <2>2, <2>4, <2>5, <2>7, ExpressionGoing
    <2> QED
        BY <2>1, <2>6
<1> QED
    BY <1>4, <1>5

\* A finished expression has nothing on the stack.
LEMMA ExprDoneFacts ==
    ASSUME IInv, pc = "expr_done"
    PROVE  Top.fn = "expression" /\ Len(m.stack) = Top.base
<1>1. Top.at = "end"
    BY TopFacts DEF AtPoint
<1>2. Held(Top) = 0
    BY <1>1, HeldFacts, Zenon
<1> QED
    BY <1>1, <1>2, ExpressionAt, TopFacts DEF ExpressionAts

\* Taking two activations off the stack is taking one off, twice.
LEMMA BelowTwo ==
    ASSUME IInv, Len(frames) > 1
    PROVE  LET fs == Below(1) IN
           Below(2) = SubSeq(fs, 1, Len(fs) - 1)
<1>1. frames \in Seq(FrameType) /\ Len(frames) \in Nat
    BY TopFacts DEF Activations
<1> DEFINE fs == SubSeq(frames, 1, Len(frames) - 1)
<1>2. fs \in Seq(FrameType) /\ Len(fs) = Len(frames) - 1
      /\ \A i \in 1..Len(fs) : fs[i] = frames[i]
    BY <1>1, AllButLast
<1> DEFINE n == Len(frames) - 2
<1>3. n \in Nat /\ n \in Int /\ Len(fs) - 1 = n /\ n <= Len(frames) /\ n <= Len(fs)
    BY <1>1, <1>2
<1> HIDE DEF fs, n
<1>4. \A i \in 1..n : fs[i] = frames[i] /\ frames[i] \in FrameType
    <2>1. \A i \in 1..n : i \in 1..Len(fs) /\ i \in 1..Len(frames)
        BY <1>1, <1>2, <1>3
    <2> QED
        BY <2>1, <1>1, <1>2
<1>5. SubSeq(fs, 1, n) = SubSeq(frames, 1, n)
    BY <1>3, <1>4
<1> QED
    BY <1>3, <1>5 DEF Below, fs, n

\* The caller goes on with g in its place.
LEMMA CallerGoing ==
    ASSUME IInv, Len(frames) > 1, NEW g \in FrameType, Good(g),
           g.base = Caller.base, (g.fn = "expression") <=> (Caller.fn = "expression"),
           NEW p \in Points, AtPoint(p, g),
           NEW mc \in Machine, Len(mc.stack) = g.base + Held(g)
    PROVE  State(p, Append(Below(2), g), mc)
<1> DEFINE fs == Below(1)
<1>1. Activations(fs) /\ fs[Len(fs)] = Caller
    BY CallerFacts
<1>2. Below(2) = SubSeq(fs, 1, Len(fs) - 1)
    BY BelowTwo
<1> HIDE DEF fs
<1> DEFINE gs == Append(SubSeq(fs, 1, Len(fs) - 1), g)
<1>3. Activations(gs) /\ gs[Len(gs)] = g
    BY <1>1, ReplaceActivation
<1> HIDE DEF gs
<1>4. State(p, gs, mc)
    BY <1>3 DEF State
<1> QED
    BY <1>2, <1>4 DEF gs

\* A bracket closes.
LEMMA ReturnToParenStep ==
    ASSUME IInv, ReturnToParen
    PROVE  State(pc', frames', m')
<1>1. Len(frames) > 1 /\ Caller.fn = "paren" /\ pc = "expr_done"
    BY DEF ReturnToParen
<1> DEFINE fs == Below(1)
           hs == SubSeq(fs, 1, Len(fs) - 1)
           c == fs[Len(fs) - 1]
<1>2. /\ Activations(fs) /\ Len(fs) = Len(frames) - 1 /\ fs[Len(fs)] = Caller
      /\ Caller \in FrameType /\ Good(Caller) /\ Link(Caller, Top)
    BY <1>1, CallerFacts
<1>3. Below(2) = hs
    BY <1>1, BelowTwo
<1> HIDE DEF fs
<1>4. Caller.at = "expression"
    BY <1>1, <1>2 DEF Good, FrameOK, Ats
<1>5. Held(Caller) = 0
    BY <1>4 DEF Held
<1>6. Len(m.stack) = Caller.base
    BY <1>1, <1>2, <1>5, ExprDoneFacts DEF Link, FrameType
<1>7. Len(fs) > 1
    <2>1. Len(fs) \in Nat /\ Len(fs) > 0 /\ fs[1].fn = "expression"
        BY <1>2 DEF Activations
    <2>2. Len(fs) # 1
        BY <2>1, <1>1, <1>2
    <2>3. \A k \in Nat : k > 0 /\ k # 1 => k > 1
        OBVIOUS
    <2> QED
        BY <2>1, <2>2, <2>3, Zenon
<1>8. Activations(hs) /\ hs[Len(hs)] = c /\ Link(c, Caller)
    BY <1>2, <1>7, PopActivation
<1> HIDE DEF hs, c
<1>9. AtPoint("operand_done", c) /\ "operand_done" \in Points
    BY <1>1, <1>8 DEF Link, Calls, AtPoint, Points
<1>10. m' = Negated(m, Caller.neg, Caller.pn) /\ Caller.pn \in Regs
    BY <1>2 DEF ReturnToParen, FrameType
<1>11. m' \in Machine /\ m'.stack = m.stack
    BY <1>10, TopFacts, NegatedMachine
<1>12. Len(m'.stack) = c.base + Held(c)
    BY <1>6, <1>8, <1>11 DEF Link
<1>13. State("operand_done", hs, m')
    BY <1>8, <1>9, <1>11, <1>12 DEF State
<1> QED
    BY <1>3, <1>13 DEF ReturnToParen

\* An argument is complete.
LEMMA ReturnToCallStep ==
    ASSUME IInv, ReturnToCall
    PROVE  State(pc', frames', m')
<1> DEFINE a == Append(Caller.args, m.reg[Top.pn])
           g == [Caller EXCEPT !.args = a]
<1>1. /\ Len(frames) > 1 /\ Caller.fn = "call" /\ pc = "expr_done"
      /\ frames' = Append(Below(2), g) /\ pc' = "params" /\ m' = m
    BY DEF ReturnToCall
<1>2. Caller \in FrameType /\ Good(Caller) /\ Link(Caller, Top)
    BY <1>1, CallerFacts
<1>3. a \in Seq(Nat)
    <2>1. m.reg[Top.pn] \in Nat
        BY TopFacts DEF Machine
    <2> QED
        BY <2>1, <1>2 DEF FrameType
<1> HIDE DEF a
<1>4. /\ g \in FrameType /\ g.fn = Caller.fn /\ g.at = Caller.at /\ g.pn = Caller.pn
      /\ g.base = Caller.base /\ g.ops = Caller.ops /\ g.oprs = Caller.oprs
    BY <1>2, <1>3 DEF FrameType
<1> HIDE DEF g
<1>5. Good(g)
    BY <1>2, <1>4 DEF Good, FrameOK
<1>6. AtPoint("params", g) /\ "params" \in Points
    BY <1>1, <1>4 DEF AtPoint, Points
<1>7. Held(g) = Held(Caller)
    <2>1. g.at \in {"direct", "pointer"}
        BY <1>1, <1>2, <1>4 DEF Good, FrameOK, Ats
    <2> QED
        BY <2>1, <1>4 DEF Held
<1>8. Len(m.stack) = g.base + Held(g) /\ m \in Machine
    BY <1>1, <1>2, <1>4, <1>7, ExprDoneFacts, TopFacts DEF Link
<1>9. (g.fn = "expression") <=> (Caller.fn = "expression")
    BY <1>4
<1>10. State("params", Append(Below(2), g), m)
    BY <1>1, <1>4, <1>5, <1>6, <1>8, <1>9, CallerGoing
<1> QED
    BY <1>1, <1>10

\* An index is complete.
LEMMA ReturnToIndexStep ==
    ASSUME IInv, ReturnToIndex
    PROVE  State(pc', frames', m')
<1> DEFINE g == [Caller EXCEPT !.is_reference = TRUE, !.indexed = TRUE]
<1>1. /\ Len(frames) > 1 /\ Caller.fn = "lvalue" /\ pc = "expr_done"
      /\ frames' = Append(Below(2), g) /\ pc' = "lvalue"
      /\ m' = AddScaled(m, Caller.pn, WideElement(Caller.var))
    BY DEF ReturnToIndex
<1>2. Caller \in FrameType /\ Good(Caller) /\ Link(Caller, Top)
    BY <1>1, CallerFacts
<1>3. /\ g \in FrameType /\ g.fn = Caller.fn /\ g.at = Caller.at /\ g.pn = Caller.pn
      /\ g.base = Caller.base /\ g.ops = Caller.ops /\ g.oprs = Caller.oprs
    BY <1>2 DEF FrameType
<1> HIDE DEF g
<1>4. Good(g)
    BY <1>2, <1>3 DEF Good, FrameOK
<1>5. Caller.at \in {"value", "address"}
    <2>1. Caller.at # "deref"
        BY <1>1, <1>2, ExprDoneFacts DEF Link, Calls, AwaitsExpression
    <2> QED
        BY <2>1, <1>1, <1>2 DEF Good, FrameOK, Ats
<1>6. AtPoint("lvalue", g) /\ "lvalue" \in Points /\ Held(g) = 0 /\ Held(Caller) = 0
    BY <1>3, <1>5 DEF AtPoint, Points, Held
<1>7. Caller.pn \in Regs /\ Caller.pn + 1 \in Regs /\ Caller.pn + 2 \in Regs
    <2>1. Caller.pn \in Regs /\ Caller.pn + 3 <= MaxReg
        BY <1>2 DEF FrameType, Good, FrameOK
    <2> QED
        BY <2>1, BoundsAssumption DEF Regs
<1>8. m' \in Machine /\ m'.stack = m.stack
    BY <1>1, <1>7, TopFacts, AddScaledMachine
<1>9. Len(m'.stack) = g.base + Held(g)
    BY <1>1, <1>2, <1>3, <1>6, <1>8, ExprDoneFacts DEF Link
<1>10. (g.fn = "expression") <=> (Caller.fn = "expression")
    BY <1>3
<1>11. State("lvalue", Append(Below(2), g), m')
    BY <1>1, <1>3, <1>4, <1>6, <1>8, <1>9, <1>10, CallerGoing
<1> QED
    BY <1>1, <1>11

-----------------------------------------------------------------------------
(* The invariant of the specification.                                     *)

\* The statement's expression opens on an empty stack.
LEMMA Initially ==
    ASSUME Init
    PROVE  IInv
<1>1. PICK pn \in StartRegs :
          frames = << Frame(Machine0, "expression", "first", pn, FALSE) >>
    BY DEF Init
<1>2. pn \in Nat /\ pn + 3 <= MaxReg
    BY BoundsAssumption
<1>3. m = Machine0 /\ pc = "operand" /\ tokens = 0
    BY DEF Init
<1>4. Machine0 \in Machine /\ Machine0.stack = << >>
    <2>1. [r \in Regs |-> r + 1] \in [Regs -> Nat]
        BY BoundsAssumption DEF Regs
    <2>2. [op |-> "leaf", l |-> 0, r |-> 0] \in Term
        BY DEF Term, TermOps
    <2>3. MaxReg + 1 \in Nat
        BY BoundsAssumption
    <2> DEFINE ts == [i \in 1..(MaxReg + 1) |-> [op |-> "leaf", l |-> 0, r |-> 0]]
    <2>4. ts \in Seq(Term)
        BY <2>2, <2>3
    <2>5. << >> \in Seq(Nat)
        OBVIOUS
    <2> QED
        BY <2>1, <2>4, <2>5 DEF Machine0, Machine
<1> DEFINE f == Frame(Machine0, "expression", "first", pn, FALSE)
<1>5. /\ f \in FrameType /\ Good(f) /\ f.base = Len(Machine0.stack)
      /\ f.fn = "expression" /\ f.at = "first"
    BY <1>2, <1>4, NewExpression
<1> HIDE DEF f
<1>6. f.base = 0 /\ Len(Machine0.stack) = 0
    BY <1>4, <1>5
<1>7. Held(f) = 0 /\ AtPoint("operand", f) /\ "operand" \in Points
    BY <1>5 DEF Held, AtPoint, AwaitsOperand, Points
<1>8. Activations(<<f>>)
    BY <1>5, <1>6 DEF Activations
<1>9. State("operand", <<f>>, Machine0)
    BY <1>4, <1>6, <1>7, <1>8 DEF State
<1>10. frames = <<f>>
    BY <1>1 DEF f
<1> QED
    BY <1>3, <1>9, <1>10 DEF IInv

\* The steps of p_read_expression_operand,
LEMMA OperandSteps ==
    ASSUME IInv, Operand
    PROVE  State(pc', frames', m') /\ tokens' \in Nat
<1>0. tokens \in Nat
    BY DEF IInv
<1>1. CASE OperandConstant
    <2>1. State(pc', frames', m')
        BY <1>1, OperandConstantStep
    <2>2. tokens' = tokens \/ tokens' = tokens + 1
        BY <1>1 DEF OperandConstant, Consume
    <2> QED
        BY <1>0, <2>1, <2>2
<1>2. CASE OperandFunctionName
    <2>1. State(pc', frames', m')
        BY <1>2, OperandFunctionNameStep
    <2>2. tokens' = tokens \/ tokens' = tokens + 1
        BY <1>2 DEF OperandFunctionName, Consume
    <2> QED
        BY <1>0, <2>1, <2>2
<1>3. CASE OperandNot
    <2>1. State(pc', frames', m')
        BY <1>3, OperandNotStep
    <2>2. tokens' = tokens \/ tokens' = tokens + 1
        BY <1>3 DEF OperandNot, Consume
    <2> QED
        BY <1>0, <2>1, <2>2
<1>4. CASE OperandParen
    <2>1. State(pc', frames', m')
        BY <1>4, OperandParenStep
    <2>2. tokens' = tokens \/ tokens' = tokens + 1
        BY <1>4 DEF OperandParen, Consume
    <2> QED
        BY <1>0, <2>1, <2>2
<1>5. CASE OperandLvalue
    <2>1. State(pc', frames', m')
        BY <1>5, OperandLvalueStep
    <2>2. tokens' = tokens \/ tokens' = tokens + 1
        BY <1>5 DEF OperandLvalue, Consume
    <2> QED
        BY <1>0, <2>1, <2>2
<1>6. CASE OperandStar
    <2>1. State(pc', frames', m')
        BY <1>6, OperandStarStep
    <2>2. tokens' = tokens \/ tokens' = tokens + 1
        BY <1>6 DEF OperandStar, Consume
    <2> QED
        BY <1>0, <2>1, <2>2
<1>7. CASE OperandCall
    <2>1. State(pc', frames', m')
        BY <1>7, OperandCallStep
    <2>2. tokens' = tokens \/ tokens' = tokens + 1
        BY <1>7 DEF OperandCall, Consume
    <2> QED
        BY <1>0, <2>1, <2>2
<1>8. CASE NotDone
    <2>1. State(pc', frames', m')
        BY <1>8, NotDoneStep
    <2>2. tokens' = tokens \/ tokens' = tokens + 1
        BY <1>8 DEF NotDone, Consume
    <2> QED
        BY <1>0, <2>1, <2>2
<1>9. CASE Reject
    <2>1. State(pc', frames', m')
        BY <1>9, RejectStep
    <2>2. tokens' = tokens \/ tokens' = tokens + 1
        BY <1>9 DEF Reject, Consume
    <2> QED
        BY <1>0, <2>1, <2>2
<1> QED
    BY <1>1, <1>2, <1>3, <1>4, <1>5, <1>6, <1>7, <1>8, <1>9 DEF Operand

\* those of a call,
LEMMA CallSteps ==
    ASSUME IInv, Call
    PROVE  State(pc', frames', m') /\ tokens' \in Nat
<1>0. tokens \in Nat
    BY DEF IInv
<1>1. CASE NextArgument
    <2>1. State(pc', frames', m')
        BY <1>1, NextArgumentStep
    <2>2. tokens' = tokens \/ tokens' = tokens + 1
        BY <1>1 DEF NextArgument, Consume
    <2> QED
        BY <1>0, <2>1, <2>2
<1>2. CASE EndCall
    <2>1. State(pc', frames', m')
        BY <1>2, EndCallStep
    <2>2. tokens' = tokens \/ tokens' = tokens + 1
        BY <1>2 DEF EndCall, Consume
    <2> QED
        BY <1>0, <2>1, <2>2
<1>3. CASE PointerCall
    <2>1. State(pc', frames', m')
        BY <1>3, PointerCallStep
    <2>2. tokens' = tokens \/ tokens' = tokens + 1
        BY <1>3 DEF PointerCall, Consume
    <2> QED
        BY <1>0, <2>1, <2>2
<1> QED
    BY <1>1, <1>2, <1>3 DEF Call

\* those of p_read_lvalue,
LEMMA LvalueSteps ==
    ASSUME IInv, Lvalue
    PROVE  State(pc', frames', m') /\ tokens' \in Nat
<1>0. tokens \in Nat
    BY DEF IInv
<1>1. CASE StartIndex
    <2>1. State(pc', frames', m')
        BY <1>1, StartIndexStep
    <2>2. tokens' = tokens \/ tokens' = tokens + 1
        BY <1>1 DEF StartIndex, Consume
    <2> QED
        BY <1>0, <2>1, <2>2
<1>2. CASE Member
    <2>1. State(pc', frames', m')
        BY <1>2, MemberStep
    <2>2. tokens' = tokens \/ tokens' = tokens + 1
        BY <1>2 DEF Member, Consume
    <2> QED
        BY <1>0, <2>1, <2>2
<1>3. CASE AddressOf
    <2>1. State(pc', frames', m')
        BY <1>3, AddressOfStep
    <2>2. tokens' = tokens \/ tokens' = tokens + 1
        BY <1>3 DEF AddressOf, Consume
    <2> QED
        BY <1>0, <2>1, <2>2
<1>4. CASE PointerPlus
    <2>1. State(pc', frames', m')
        BY <1>4, PointerPlusStep
    <2>2. tokens' = tokens \/ tokens' = tokens + 1
        BY <1>4 DEF PointerPlus, Consume
    <2> QED
        BY <1>0, <2>1, <2>2
<1>5. CASE PointerPlusDone
    <2>1. State(pc', frames', m')
        BY <1>5, PointerPlusDoneStep
    <2>2. tokens' = tokens \/ tokens' = tokens + 1
        BY <1>5 DEF PointerPlusDone, Consume
    <2> QED
        BY <1>0, <2>1, <2>2
<1>6. CASE Evaluate
    <2>1. State(pc', frames', m')
        BY <1>6, EvaluateStep
    <2>2. tokens' = tokens \/ tokens' = tokens + 1
        BY <1>6 DEF Evaluate, Consume
    <2> QED
        BY <1>0, <2>1, <2>2
<1>7. CASE LvalueDone
    <2>1. State(pc', frames', m')
        BY <1>7, LvalueDoneStep
    <2>2. tokens' = tokens \/ tokens' = tokens + 1
        BY <1>7 DEF LvalueDone, Consume
    <2> QED
        BY <1>0, <2>1, <2>2
<1> QED
    BY <1>1, <1>2, <1>3, <1>4, <1>5, <1>6, <1>7 DEF Lvalue

\* and those of p_read_expression keep the invariant.
LEMMA ExprSteps ==
    ASSUME IInv, Expr
    PROVE  State(pc', frames', m') /\ tokens' \in Nat
<1>0. tokens \in Nat
    BY DEF IInv
<1>1. CASE FirstOperand
    <2>1. State(pc', frames', m')
        BY <1>1, FirstOperandStep
    <2>2. tokens' = tokens \/ tokens' = tokens + 1
        BY <1>1 DEF FirstOperand, Consume
    <2> QED
        BY <1>0, <2>1, <2>2
<1>2. CASE SecondOperand
    <2>1. State(pc', frames', m')
        BY <1>2, SecondOperandStep
    <2>2. tokens' = tokens \/ tokens' = tokens + 1
        BY <1>2 DEF SecondOperand, Consume
    <2> QED
        BY <1>0, <2>1, <2>2
<1>3. CASE LaterOperand
    <2>1. State(pc', frames', m')
        BY <1>3, LaterOperandStep
    <2>2. tokens' = tokens \/ tokens' = tokens + 1
        BY <1>3 DEF LaterOperand, Consume
    <2> QED
        BY <1>0, <2>1, <2>2
<1>4. CASE ApplyStacked
    <2>1. State(pc', frames', m')
        BY <1>4, ApplyStackedStep
    <2>2. tokens' = tokens \/ tokens' = tokens + 1
        BY <1>4 DEF ApplyStacked, Consume
    <2> QED
        BY <1>0, <2>1, <2>2
<1>5. CASE PushOperator
    <2>1. State(pc', frames', m')
        BY <1>5, PushOperatorStep
    <2>2. tokens' = tokens \/ tokens' = tokens + 1
        BY <1>5 DEF PushOperator, Consume
    <2> QED
        BY <1>0, <2>1, <2>2
<1>6. CASE Unwind
    <2>1. State(pc', frames', m')
        BY <1>6, UnwindStep
    <2>2. tokens' = tokens \/ tokens' = tokens + 1
        BY <1>6 DEF Unwind, Consume
    <2> QED
        BY <1>0, <2>1, <2>2
<1>7. CASE ReturnToParen
    <2>1. State(pc', frames', m')
        BY <1>7, ReturnToParenStep
    <2>2. tokens' = tokens \/ tokens' = tokens + 1
        BY <1>7 DEF ReturnToParen, Consume
    <2> QED
        BY <1>0, <2>1, <2>2
<1>8. CASE ReturnToCall
    <2>1. State(pc', frames', m')
        BY <1>8, ReturnToCallStep
    <2>2. tokens' = tokens \/ tokens' = tokens + 1
        BY <1>8 DEF ReturnToCall, Consume
    <2> QED
        BY <1>0, <2>1, <2>2
<1>9. CASE ReturnToIndex
    <2>1. State(pc', frames', m')
        BY <1>9, ReturnToIndexStep
    <2>2. tokens' = tokens \/ tokens' = tokens + 1
        BY <1>9 DEF ReturnToIndex, Consume
    <2> QED
        BY <1>0, <2>1, <2>2
<1> QED
    BY <1>1, <1>2, <1>3, <1>4, <1>5, <1>6, <1>7, <1>8, <1>9 DEF Expr

\* Every step keeps the inductive invariant.
LEMMA Inductive ==
    ASSUME IInv, [Next]_vars
    PROVE  IInv'
<1>1. CASE UNCHANGED vars
    BY <1>1 DEF IInv, vars, State
<1>2. CASE Terminating
    BY <1>1, <1>2 DEF Terminating
<1>3. ASSUME State(pc', frames', m') /\ tokens' \in Nat
      PROVE  IInv'
    BY <1>3 DEF IInv
<1> QED
    BY <1>1, <1>2, <1>3, OperandSteps, CallSteps, LvalueSteps, ExprSteps DEF Next

\* The inductive invariant holds of every reachable state.
LEMMA Invariance == Spec => []IInv
BY Initially, Inductive, PTL DEF Spec

\* The activations of the parser are always those of the functions of
\* parser.c, each called by one that waits for it.
THEOREM ExpressionTyped == Spec => []TypeOK
BY Invariance, Invariants, PTL

\* op_stack of p_read_expression never holds more than four operators, so
\* its ten entries suffice for every expression.
THEOREM OpStackBounded == Spec => []OpStackOrdered
BY Invariance, Invariants, PTL

\* The unwinding loop of p_read_expression never runs out of operators: the
\* error after it is dead code.
THEOREM UnexpectedEndUnreachable == Spec => []NoUnexpectedEnd
BY Invariance, Invariants, PTL

\* The code of every expression pops exactly what it pushed, and no code of
\* an operand pops a word of the expression around it.
THEOREM ExpressionBalancesStack == Spec => []StackBalanced
BY Invariance, Invariants, PTL

-----------------------------------------------------------------------------
(* What an activation relies on.                                           *)

\* What an activation relies on of the registers, while it runs or one it
\* called does: those below its own are as it found them, the first operand
\* is in its register while the second is read, and the arguments read so far
\* are in theirs.  A call gives up the registers below its own: they are on
\* the stack.
Relies(f, reg) ==
    /\ f.fn # "call" => \A r \in Regs : r < f.pn => reg[r] = f.low[r]
    /\ f.at = "second" => reg[f.pn] = f.args[1]
    /\ f.fn = "call" => \A k \in 1..Len(f.args) : reg[k - 1] = f.args[k]

\* The register an activation gives to the one it calls.
Given(f) == IF f.fn = "call" THEN Len(f.args) ELSE Target(f)

\* What f relies on is in place when g begins.
Passes(f, g) == g.pn = Given(f) /\ Relies(f, g.low)

\* The words a call has saved.
Saved(f, stack) ==
    f.fn = "call" =>
        /\ \A r \in Regs : r < f.pn => stack[f.base + 1 + r] = f.low[r]
        /\ f.at = "pointer" => stack[f.base + 1 + f.pn] = f.low[f.pn]

\* How many values an activation has read.
Counted(f) ==
    /\ f.fn = "call" => Len(f.args) + 2 <= MaxReg
    /\ f.at = "first" => f.args = << >>
    /\ f.at = "second" => Len(f.args) = 1

\* The words of an activation lie below those of the ones it has called.
Stacked(fs) ==
    \A i, j \in 1..Len(fs) : i < j => fs[i].base + Held(fs[i]) <= fs[j].base

\* What the activations fs rely on holds of machine mc.
Values(fs, mc) ==
    /\ \A i \in 1..Len(fs) : Counted(fs[i]) /\ Saved(fs[i], mc.stack)
    /\ Stacked(fs)
    /\ \A i \in 1..(Len(fs) - 1) : Passes(fs[i], fs[i + 1])
    /\ Relies(fs[Len(fs)], mc.reg)

-----------------------------------------------------------------------------
(* What instructions leave alone.                                          *)

\* From mc to md the registers below p and the first h words stay.
Spares(mc, md, p, h) ==
    /\ \A r \in Regs : r < p => md.reg[r] = mc.reg[r]
    /\ \A k \in 1..h : md.stack[k] = mc.stack[k]

\* One after the other.
LEMMA SparesTwice ==
    ASSUME NEW a, NEW b, NEW c, NEW p, NEW h, Spares(a, b, p, h), Spares(b, c, p, h)
    PROVE  Spares(a, c, p, h)
BY DEF Spares

\* An instruction writes its own register.
LEMMA FreshSpares ==
    ASSUME NEW mc \in Machine, NEW p \in Nat, NEW d \in Nat, p <= d, NEW t, NEW h
    PROVE  Spares(mc, Fresh(mc, d, t), p, h)
<1>1. mc.reg \in [Regs -> Nat]
    BY DEF Machine
<1> DEFINE new == [mc.reg EXCEPT ![d] = Len(mc.term) + 1]
<1>2. Fresh(mc, d, t).reg = new /\ Fresh(mc, d, t).stack = mc.stack
    BY DEF Fresh, Machine
<1>3. ASSUME NEW r \in Regs, r < p
      PROVE  new[r] = mc.reg[r]
    <2>1. r \in Nat /\ r # d
        BY <1>3 DEF Regs
    <2> QED
        BY <1>1, <2>1
<1> QED
    BY <1>2, <1>3 DEF Spares

\* Loading.
LEMMA LoadSpares ==
    ASSUME NEW mc \in Machine, NEW p \in Nat, NEW d \in Nat, p <= d, NEW h
    PROVE  Spares(mc, Load(mc, d), p, h)
BY FreshSpares DEF Load

\* One source.
LEMMA UnarySpares ==
    ASSUME NEW mc \in Machine, NEW op, NEW p \in Nat, NEW d \in Nat, p <= d, NEW s,
           NEW h
    PROVE  Spares(mc, Unary(mc, op, d, s), p, h)
BY FreshSpares DEF Unary

\* Two sources.
LEMMA ApplySpares ==
    ASSUME NEW mc \in Machine, NEW op, NEW p \in Nat, NEW d \in Nat, p <= d, NEW s,
           NEW h
    PROVE  Spares(mc, Apply(mc, op, d, s), p, h)
BY FreshSpares DEF Apply

\* The sign of an operand.
LEMMA NegatedSpares ==
    ASSUME NEW mc \in Machine, NEW neg, NEW p \in Nat, NEW d \in Nat, p <= d, NEW h
    PROVE  Spares(mc, Negated(mc, neg, d), p, h)
<1>1. Spares(mc, Unary(mc, "op_negate", d, d), p, h)
    BY UnarySpares
<1>2. Spares(mc, mc, p, h)
    BY DEF Spares
<1> QED
    BY <1>1, <1>2 DEF Negated

\* A push writes no register and no word that is there.
LEMMA PushSpares ==
    ASSUME NEW mc \in Machine, NEW r \in Regs, NEW p \in Nat,
           NEW h \in Nat, h <= Len(mc.stack)
    PROVE  Spares(mc, Push(mc, r), p, h)
<1>1. mc.stack \in Seq(Nat) /\ mc.reg[r] \in Nat
    BY DEF Machine
<1>2. Push(mc, r).reg = mc.reg /\ Push(mc, r).stack = Append(mc.stack, mc.reg[r])
    BY DEF Push, Machine
<1>3. ASSUME NEW k \in 1..h
      PROVE  Append(mc.stack, mc.reg[r])[k] = mc.stack[k]
    BY <1>1
<1> QED
    BY <1>2, <1>3 DEF Spares

\* A pop writes its register and takes the last word.
LEMMA PopSpares ==
    ASSUME NEW mc \in Machine, Len(mc.stack) > 0, NEW d \in Nat, NEW p \in Nat,
           p <= d, NEW h \in Nat, h < Len(mc.stack)
    PROVE  Spares(mc, Pop(mc, d), p, h)
<1>1. mc.stack \in Seq(Nat) /\ mc.reg \in [Regs -> Nat]
    BY DEF Machine
<1> DEFINE new == [mc.reg EXCEPT ![d] = mc.stack[Len(mc.stack)]]
           left == SubSeq(mc.stack, 1, Len(mc.stack) - 1)
<1>2. Pop(mc, d).reg = new /\ Pop(mc, d).stack = left
    BY DEF Pop, Machine
<1>3. ASSUME NEW r \in Regs, r < p
      PROVE  new[r] = mc.reg[r]
    <2>1. r \in Nat /\ r # d
        BY <1>3 DEF Regs
    <2> QED
        BY <1>1, <2>1
<1>4. ASSUME NEW k \in 1..h
      PROVE  left[k] = mc.stack[k]
    BY <1>1
<1> HIDE DEF new, left
<1> QED
    BY <1>2, <1>3, <1>4 DEF Spares

\* The scaled index.
LEMMA AddScaledSpares ==
    ASSUME NEW mc \in Machine, NEW p, p \in Regs, p + 1 \in Regs, p + 2 \in Regs,
           NEW scaled, NEW h
    PROVE  Spares(mc, AddScaled(mc, p, scaled), p, h)
<1> DEFINE lc == Load(mc, p + 2)
           sc == Apply(lc, "op_mul", p + 1, p + 2)
           c == IF scaled THEN sc ELSE mc
<1>0. p \in Nat /\ p + 1 \in Nat /\ p + 2 \in Nat /\ p <= p /\ p <= p + 1 /\ p <= p + 2
    BY DEF Regs
<1>1. "op_mul" \in TermOps
    BY DEF TermOps, BinaryOps
<1>2. lc \in Machine /\ Spares(mc, lc, p, h)
    BY <1>0, LoadMachine, LoadSpares
<1>3. sc \in Machine /\ Spares(lc, sc, p, h)
    BY <1>0, <1>1, <1>2, ApplyMachine, ApplySpares
<1>4. Spares(mc, mc, p, h) /\ Spares(mc, sc, p, h)
    <2> HIDE DEF lc, sc
    <2>1. Spares(mc, sc, p, h)
        BY <1>2, <1>3, SparesTwice
    <2> QED
        BY <2>1 DEF Spares
<1>5. c \in Machine /\ Spares(mc, c, p, h)
    BY <1>3, <1>4
<1> HIDE DEF c
<1>6. Spares(c, Apply(c, "op_add", p, p + 1), p, h)
    BY <1>0, <1>5, ApplySpares
<1>7. Spares(mc, Apply(c, "op_add", p, p + 1), p, h)
    BY <1>5, <1>6, SparesTwice
<1> QED
    BY <1>7 DEF AddScaled, c

\* A prefix increment.
LEMMA PrefixedSpares ==
    ASSUME NEW mc \in Machine, NEW p, p \in Regs, p + 1 \in Regs, p + 2 \in Regs,
           NEW h
    PROVE  Spares(mc, Prefixed(mc, p), p, h)
<1> DEFINE a == Unary(mc, "op_read_addr", p + 1, p)
           b == Load(a, p + 2)
<1>0. p \in Nat /\ p + 1 \in Nat /\ p + 2 \in Nat /\ p <= p /\ p <= p + 1 /\ p <= p + 2
    BY DEF Regs
<1>1. "op_read_addr" \in TermOps
    BY DEF TermOps
<1>2. a \in Machine /\ Spares(mc, a, p, h)
    BY <1>0, <1>1, UnaryMachine, UnarySpares
<1>3. b \in Machine /\ Spares(a, b, p, h)
    BY <1>0, <1>2, LoadMachine, LoadSpares
<1> HIDE DEF b
<1>4. Spares(b, Apply(b, "op_add", p + 1, p + 2), p, h)
    BY <1>0, <1>3, ApplySpares
<1> HIDE DEF a
<1>5. Spares(mc, b, p, h)
    BY <1>2, <1>3, SparesTwice
<1>6. Spares(mc, Apply(b, "op_add", p + 1, p + 2), p, h)
    BY <1>4, <1>5, SparesTwice
<1> QED
    BY <1>6 DEF Prefixed, b, a

\* A postfix increment: the word pushed is the word popped.
LEMMA PostfixedSpares ==
    ASSUME NEW mc \in Machine, NEW p, p \in Regs, p + 1 \in Regs, p + 2 \in Regs
    PROVE  Spares(mc, Postfixed(mc, p), p, Len(mc.stack))
<1> DEFINE a == Unary(mc, "op_read_addr", p + 1, p)
           b == Push(a, p + 1)
           c == Load(b, p + 2)
           d == Apply(c, "op_add", p + 1, p + 2)
           h == Len(mc.stack)
<1>0. /\ p \in Nat /\ p + 1 \in Nat /\ p + 2 \in Nat /\ p <= p /\ p <= p + 1 /\ p <= p + 2
      /\ h \in Nat
    BY DEF Regs, Machine
<1>1. "op_read_addr" \in TermOps /\ "op_add" \in TermOps
    BY DEF TermOps, BinaryOps
<1>2. a \in Machine /\ a.stack = mc.stack /\ Spares(mc, a, p, h)
    BY <1>0, <1>1, UnaryMachine, UnarySpares
<1>3. b \in Machine /\ Len(b.stack) = h + 1 /\ Spares(a, b, p, h)
    <2> HIDE DEF a
    <2>1. h <= Len(a.stack)
        BY <1>0, <1>2
    <2> QED
        BY <1>0, <1>2, <2>1, PushMachine, PushSpares
<1>4. c \in Machine /\ c.stack = b.stack /\ Spares(b, c, p, h)
    BY <1>0, <1>3, LoadMachine, LoadSpares
<1>5. d \in Machine /\ d.stack = c.stack /\ Spares(c, d, p, h)
    BY <1>0, <1>1, <1>4, ApplyMachine, ApplySpares
<1>6. Len(d.stack) = h + 1
    BY <1>3, <1>4, <1>5
<1> HIDE DEF d
<1>7. Spares(d, Pop(d, p), p, h)
    BY <1>0, <1>5, <1>6, PopSpares
<1> HIDE DEF a, b, c, h
<1>8. Spares(mc, d, p, h)
    BY <1>2, <1>3, <1>4, <1>5, SparesTwice
<1>9. Spares(mc, Pop(d, p), p, h)
    BY <1>7, <1>8, SparesTwice
<1> QED
    BY <1>9 DEF Postfixed, d, c, b, a, h

\* Two words are popped and combined.
LEMMA ApplyTopSpares ==
    ASSUME NEW f \in FrameType, m \in Machine, Len(m.stack) > 1, Len(f.ops) > 0,
           f.pn \in Regs, f.pn + 1 \in Regs,
           NEW h \in Nat, h + 2 <= Len(m.stack)
    PROVE  Spares(m, ApplyTop(f), f.pn, h)
<1> DEFINE a == Pop(m, f.pn + 1)
           b == Pop(a, f.pn)
           p == f.pn
<1>0. Len(m.stack) \in Nat /\ p \in Nat /\ p + 1 \in Nat /\ p <= p /\ p <= p + 1
    BY DEF Machine, Regs
<1>2. a \in Machine /\ Len(a.stack) = Len(m.stack) - 1 /\ Spares(m, a, p, h)
    BY <1>0, PopMachine, PopSpares
<1>3. b \in Machine /\ Spares(a, b, p, h)
    <2> HIDE DEF a
    <2> QED
        BY <1>0, <1>2, PopMachine, PopSpares
<1> HIDE DEF a, b
<1>4. Spares(b, Apply(b, f.ops[Len(f.ops)], p, p + 1), p, h)
    BY <1>0, <1>3, ApplySpares
<1>5. Spares(m, b, p, h)
    BY <1>2, <1>3, SparesTwice
<1>6. Spares(m, Apply(b, f.ops[Len(f.ops)], p, p + 1), p, h)
    BY <1>4, <1>5, SparesTwice
<1> QED
    BY <1>6 DEF ApplyTop, a, b

\* The registers saved for a call: word i of them is register i - 1.
LEMMA PushRegsSpares ==
    ASSUME NEW mc \in Machine, NEW n \in Regs, NEW p
    PROVE  /\ Spares(mc, PushRegs(mc, n), p, Len(mc.stack))
           /\ PushRegs(mc, n).reg = mc.reg
           /\ \A r \in Regs : r < n =>
                  PushRegs(mc, n).stack[Len(mc.stack) + 1 + r] = mc.reg[r]
<1> DEFINE saved == [i \in 1..n |-> mc.reg[i - 1]]
           h == Len(mc.stack)
<1>1. n \in Nat /\ MaxReg \in Nat /\ n <= MaxReg /\ mc.stack \in Seq(Nat) /\ h \in Nat
    BY BoundsAssumption DEF Regs, Machine
<1>2. \A i \in 1..n : mc.reg[i - 1] \in Nat
    BY <1>1 DEF Machine, Regs
<1>3. saved \in Seq(Nat) /\ Len(saved) = n /\ \A i \in 1..n : saved[i] = mc.reg[i - 1]
    BY <1>1, <1>2
<1> HIDE DEF saved
<1> DEFINE all == mc.stack \o saved
<1>4. /\ Len(all) = h + n
      /\ \A i \in 1..(h + n) :
             all[i] = IF i <= h THEN mc.stack[i] ELSE saved[i - h]
    BY <1>1, <1>3, ConcatProperties
<1>5. PushRegs(mc, n).reg = mc.reg /\ PushRegs(mc, n).stack = all
    BY DEF PushRegs, Machine, saved
<1> HIDE DEF all
<1>6. \A k \in 1..h : all[k] = mc.stack[k]
    BY <1>1, <1>4
<1>7. ASSUME NEW r \in Regs, r < n
      PROVE  all[h + 1 + r] = mc.reg[r]
    <2>1. r \in Nat
        BY DEF Regs
    <2> HIDE DEF h
    <2>2. h + 1 + r \in 1..(h + n) /\ ~(h + 1 + r <= h) /\ (h + 1 + r) - h = r + 1
        BY <1>1, <1>7, <2>1
    <2>3. r + 1 \in 1..n /\ (r + 1) - 1 = r
        BY <1>1, <1>7, <2>1
    <2>4. all[h + 1 + r] = saved[r + 1]
        BY <1>4, <2>2
    <2>5. saved[r + 1] = mc.reg[r]
        BY <1>3, <2>3
    <2> QED
        BY <2>4, <2>5
<1> QED
    BY <1>5, <1>6, <1>7 DEF Spares

\* The registers restored after a call.
LEMMA PopRegsSpares ==
    ASSUME NEW mc \in Machine, NEW n \in Regs, NEW h \in Nat,
           Len(mc.stack) = h + n
    PROVE  /\ \A r \in Regs : r < n =>
                  PopRegs(mc, n).reg[r] = mc.stack[h + 1 + r]
           /\ \A k \in 1..h : PopRegs(mc, n).stack[k] = mc.stack[k]
<1> DEFINE back == [r \in Regs |-> IF r < n
                                   THEN mc.stack[Len(mc.stack) - n + 1 + r]
                                   ELSE mc.reg[r]]
           left == SubSeq(mc.stack, 1, Len(mc.stack) - n)
<1>1. n \in Nat /\ mc.stack \in Seq(Nat)
    BY DEF Regs, Machine
<1>2. PopRegs(mc, n).reg = back /\ PopRegs(mc, n).stack = left
    BY DEF PopRegs, Machine
<1>3. ASSUME NEW r \in Regs, r < n
      PROVE  back[r] = mc.stack[h + 1 + r]
    <2>1. Len(mc.stack) - n + 1 + r = h + 1 + r
        BY <1>1 DEF Regs
    <2>2. back[r] = mc.stack[Len(mc.stack) - n + 1 + r]
        BY <1>3
    <2> QED
        BY <2>1, <2>2
<1>4. ASSUME NEW k \in 1..h
      PROVE  left[k] = mc.stack[k]
    <2>1. Len(mc.stack) - n = h
        BY <1>1
    <2> QED
        BY <1>1, <2>1
<1> HIDE DEF back, left
<1> QED
    BY <1>2, <1>3, <1>4

-----------------------------------------------------------------------------
(* Activations and what they rely on.                                      *)

\* An activation that returns with the registers below its own as it found
\* them gives its caller back what the caller relies on.
LEMMA ReliesAgain ==
    ASSUME NEW f \in FrameType, Good(f), NEW g \in FrameType, Passes(f, g),
           NEW reg, \A r \in Regs : r < g.pn => reg[r] = g.low[r]
    PROVE  Relies(f, reg)
<1>0. f.pn \in Regs /\ f.pn \in Nat /\ f.at \in Ats(f.fn) /\ f.fn \in Functions
    BY DEF Good, FrameOK, FrameType, Regs
<1>00. Len(f.args) \in Nat /\ g.pn \in Regs /\ g.pn \in Nat /\ MaxReg \in Nat /\ g.pn <= MaxReg
    BY BoundsAssumption DEF FrameType, Regs
<1>1. CASE f.fn = "call"
    <2>1. f.at # "second"
        BY <1>0, <1>1 DEF Ats
    <2>2. ASSUME NEW k \in 1..Len(f.args)
          PROVE  reg[k - 1] = f.args[k]
        <3>1. k - 1 < g.pn
            BY <1>1, <1>00 DEF Passes, Given
        <3>2. k - 1 \in Regs
            BY <3>1, <1>00 DEF Regs
        <3> QED
            BY <3>1, <3>2, <1>1 DEF Passes, Relies
    <2> QED
        BY <1>1, <2>1, <2>2 DEF Relies
<1>2. CASE f.fn # "call"
    <2>1. g.pn = Target(f)
        BY <1>2 DEF Passes, Given
    <2>2. g.pn \in {f.pn, f.pn + 1}
        BY <2>1 DEF Target
    <2>3. ASSUME NEW r \in Regs, r < f.pn
          PROVE  reg[r] = f.low[r]
        <3>1. r < g.pn
            BY <2>2, <2>3, <1>0 DEF Regs
        <3> QED
            BY <3>1, <1>2, <2>3 DEF Passes, Relies
    <2>4. f.at = "second" => reg[f.pn] = f.args[1]
        <3>1. SUFFICES ASSUME f.at = "second"
                       PROVE  reg[f.pn] = f.args[1]
            OBVIOUS
        <3>2. f.pn < g.pn
            BY <3>1, <2>1, <1>0 DEF Target
        <3> QED
            BY <3>1, <3>2, <1>0 DEF Passes, Relies
    <2> QED
        BY <1>2, <2>3, <2>4 DEF Relies
<1> QED
    BY <1>1, <1>2

\* An activation that waits for an operand is not a call, and code that keeps
\* the registers below the operand's keeps what the activation relies on.
LEMMA OperandStays ==
    ASSUME NEW f \in FrameType, Good(f), f.fn # "call", NEW mc, NEW md,
           Relies(f, mc.reg), NEW h, Spares(mc, md, Target(f), h)
    PROVE  Relies(f, md.reg)
<1>0. f.pn \in Regs /\ f.pn \in Nat
    BY DEF FrameType, Regs
<1>1. Target(f) \in {f.pn, f.pn + 1}
    BY DEF Target
<1>2. ASSUME NEW r \in Regs, r < f.pn
      PROVE  md.reg[r] = f.low[r]
    <2>1. r < Target(f)
        BY <1>0, <1>1, <1>2 DEF Regs
    <2> QED
        BY <2>1, <1>2 DEF Relies, Spares
<1>3. f.at = "second" => md.reg[f.pn] = f.args[1]
    <2>1. SUFFICES ASSUME f.at = "second"
                   PROVE  md.reg[f.pn] = f.args[1]
        OBVIOUS
    <2>2. f.pn < Target(f)
        BY <2>1, <1>0 DEF Target
    <2> QED
        BY <2>1, <2>2, <1>0 DEF Relies, Spares
<1> QED
    BY <1>2, <1>3 DEF Relies

\* A word a call saved is one of the words it holds.
LEMMA SavedKept ==
    ASSUME NEW f \in FrameType, Good(f), NEW s, NEW t, Saved(f, s),
           NEW h \in Nat, f.base + Held(f) <= h, \A k \in 1..h : t[k] = s[k]
    PROVE  Saved(f, t)
<1>1. SUFFICES ASSUME f.fn = "call"
               PROVE  Saved(f, t)
    BY DEF Saved
<1>2. f.base \in Nat /\ f.pn \in Nat /\ f.at \in {"direct", "pointer"}
    BY <1>1 DEF FrameType, Regs, Good, FrameOK, Ats
<1>3. f.base + f.pn <= h /\ (f.at = "pointer" => f.base + f.pn + 1 <= h)
    BY <1>2 DEF Held
<1>4. ASSUME NEW r \in Regs, r < f.pn
      PROVE  t[f.base + 1 + r] = f.low[r]
    <2>1. r \in Nat
        BY DEF Regs
    <2>2. f.base + 1 + r \in 1..h
        BY <1>2, <1>3, <1>4, <2>1
    <2> QED
        BY <1>1, <1>4, <2>2 DEF Saved
<1>5. ASSUME f.at = "pointer"
      PROVE  t[f.base + 1 + f.pn] = f.low[f.pn]
    <2>1. f.base + 1 + f.pn \in 1..h
        BY <1>2, <1>3, <1>5
    <2> QED
        BY <1>1, <1>5, <2>1 DEF Saved
<1> QED
    BY <1>4, <1>5 DEF Saved

\* The same, for the words below those of another activation.
LEMMA SavedBelow ==
    ASSUME NEW e \in FrameType, Good(e), NEW g \in FrameType,
           NEW mc, NEW md, Saved(e, mc.stack), e.base + Held(e) <= g.base,
           \A k \in 1..g.base : md.stack[k] = mc.stack[k]
    PROVE  Saved(e, md.stack)
<1>1. PICK s : s = mc.stack
    OBVIOUS
<1>2. PICK t : t = md.stack
    OBVIOUS
<1>3. PICK h \in Nat : h = g.base
    BY DEF FrameType
<1>4. Saved(e, s) /\ e.base + Held(e) <= h /\ \A k \in 1..h : t[k] = s[k]
    BY <1>1, <1>2, <1>3
<1>5. Saved(e, t)
    BY <1>4, SavedKept
<1> QED
    BY <1>2, <1>5

\* The words an activation holds are a number.
LEMMA HeldNat ==
    ASSUME NEW f \in FrameType
    PROVE  Held(f) \in Nat
<1>1. f.pn \in Nat /\ Len(f.ops) \in Nat
    BY DEF FrameType, Regs
<1> QED
    BY <1>1 DEF Held

\* A new activation relies on nothing but the machine it starts on.
LEMMA NewRelies ==
    ASSUME NEW mc \in Machine, NEW fn, NEW at, at # "second", NEW pn, NEW neg
    PROVE  LET f == Frame(mc, fn, at, pn, neg) IN
           /\ Relies(f, mc.reg) /\ f.low = mc.reg /\ f.pn = pn /\ f.fn = fn
           /\ f.at = at /\ f.args = << >> /\ f.base = Len(mc.stack)
<1>1. LET f == Frame(mc, fn, at, pn, neg) IN
      /\ f.low = mc.reg /\ f.pn = pn /\ f.fn = fn
      /\ f.at = at /\ f.args = << >> /\ f.base = Len(mc.stack)
    BY DEF Frame
<1> DEFINE f == Frame(mc, fn, at, pn, neg)
<1>2. /\ f.low = mc.reg /\ f.pn = pn /\ f.fn = fn
      /\ f.at = at /\ f.args = << >> /\ f.base = Len(mc.stack)
    BY <1>1
<1> HIDE DEF f
<1>3. 1..Len(f.args) = {}
    BY <1>2
<1>4. Relies(f, mc.reg)
    BY <1>2, <1>3 DEF Relies
<1> QED
    BY <1>2, <1>4 DEF f

-----------------------------------------------------------------------------
(* The stack of activations.                                               *)

\* The activation on top changes what it relies on, or the machine does, and
\* its caller and the words below its own stay.
LEMMA ValuesReplace ==
    ASSUME NEW fs, Activations(fs), NEW mc, Values(fs, mc),
           NEW g \in FrameType, g.base = fs[Len(fs)].base, Counted(g),
           NEW md, Saved(g, md.stack), Relies(g, md.reg),
           Len(fs) > 1 => Passes(fs[Len(fs) - 1], g),
           \A k \in 1..g.base : md.stack[k] = mc.stack[k]
    PROVE  Values(Append(SubSeq(fs, 1, Len(fs) - 1), g), md)
<1> DEFINE n == Len(fs)
           gs == Append(SubSeq(fs, 1, n - 1), g)
<1>1. fs \in Seq(FrameType) /\ n \in Nat /\ n > 0
    BY DEF Activations
<1>2. Len(gs) = n /\ gs[n] = g /\ \A i \in 1..(n - 1) : gs[i] = fs[i]
    <2> DEFINE hs == SubSeq(fs, 1, n - 1)
    <2>1. hs \in Seq(FrameType) /\ Len(hs) = n - 1 /\ \A i \in 1..(n - 1) : hs[i] = fs[i]
        <3>1. CASE n = 1
            BY <1>1, <3>1
        <3>2. CASE n > 1
            BY <1>1, <3>2
        <3>3. \A k \in Nat : k > 0 => k = 1 \/ k > 1
            OBVIOUS
        <3>4. n = 1 \/ n > 1
            BY <1>1, <3>3, Zenon
        <3> QED
            BY <3>1, <3>2, <3>4
    <2> HIDE DEF hs
    <2> QED
        BY <1>1, <2>1
<1> HIDE DEF gs
<1>3. ASSUME NEW i \in 1..n, i # n
      PROVE  /\ gs[i] = fs[i] /\ fs[i] \in FrameType /\ Good(fs[i])
             /\ Counted(fs[i]) /\ Saved(fs[i], mc.stack)
             /\ fs[i].base + Held(fs[i]) <= g.base
    <2>1. i \in 1..(n - 1) /\ n \in 1..n /\ i < n
        BY <1>1, <1>3
    <2> QED
        BY <1>1, <1>2, <2>1 DEF Activations, Values, Stacked
<1>4. ASSUME NEW i \in 1..n
      PROVE  Counted(gs[i]) /\ Saved(gs[i], md.stack)
    <2>1. CASE i = n
        BY <2>1, <1>2
    <2>2. CASE i # n
        <3>1. PICK e \in FrameType : e = fs[i]
            BY <1>3, <2>2
        <3>2. Good(e) /\ Saved(e, mc.stack) /\ e.base + Held(e) <= g.base
            BY <1>3, <2>2, <3>1
        <3>3. Saved(e, md.stack)
            BY <3>2, SavedBelow
        <3> QED
            BY <1>3, <2>2, <3>1, <3>3
    <2> QED
        BY <2>1, <2>2
<1>5. ASSUME NEW i \in 1..n, NEW j \in 1..n, i < j
      PROVE  gs[i].base + Held(gs[i]) <= gs[j].base
    <2>1. i # n
        BY <1>1, <1>5
    <2>2. CASE j = n
        BY <1>2, <1>3, <2>1, <2>2
    <2>3. CASE j # n
        BY <1>3, <1>5, <2>1, <2>3 DEF Values, Stacked
    <2> QED
        BY <2>2, <2>3
<1>6. ASSUME NEW i \in 1..(n - 1)
      PROVE  Passes(gs[i], gs[i + 1])
    <2>0. gs[i] = fs[i]
        BY <1>2
    <2>1. CASE i = n - 1
        <3>1. n > 1 /\ i + 1 = n
            BY <1>1, <2>1
        <3> QED
            BY <2>0, <2>1, <3>1, <1>2
    <2>2. CASE i # n - 1
        <3>1. i + 1 \in 1..(n - 1)
            BY <1>1, <2>2
        <3> QED
            BY <2>0, <3>1, <1>2 DEF Values
    <2> QED
        BY <2>1, <2>2
<1>7. Values(gs, md)
    BY <1>2, <1>4, <1>5, <1>6 DEF Values, Stacked
<1> QED
    BY <1>7 DEF gs

\* A new activation on top, given its register by its caller.
LEMMA ValuesPush ==
    ASSUME NEW fs, Activations(fs), NEW mc, Values(fs, mc),
           NEW g \in FrameType, g.base = fs[Len(fs)].base + Held(fs[Len(fs)]),
           Held(fs[Len(fs)]) \in Nat,
           Counted(g), NEW md, Saved(g, md.stack), Relies(g, md.reg),
           Passes(fs[Len(fs)], g),
           \A k \in 1..g.base : md.stack[k] = mc.stack[k]
    PROVE  Values(Append(fs, g), md)
<1> DEFINE n == Len(fs)
           gs == Append(fs, g)
<1>1. fs \in Seq(FrameType) /\ n \in Nat /\ n > 0
    BY DEF Activations
<1>2. Len(gs) = n + 1 /\ gs[n + 1] = g /\ \A i \in 1..n : gs[i] = fs[i]
    BY <1>1
<1> HIDE DEF gs
<1>0. fs[n].base \in Nat /\ g.base \in Nat /\ fs[n].base <= g.base
    <2>1. fs[n] \in FrameType
        BY <1>1
    <2> QED
        BY <2>1, SMTT(30) DEF FrameType
<1>3. ASSUME NEW i \in 1..n
      PROVE  /\ gs[i] = fs[i] /\ fs[i] \in FrameType /\ Good(fs[i])
             /\ Counted(fs[i]) /\ Saved(fs[i], mc.stack)
    BY <1>1, <1>2 DEF Activations, Values
<1>4. ASSUME NEW i \in 1..n
      PROVE  fs[i].base + Held(fs[i]) <= g.base
    <2>1. CASE i = n
        BY <2>1, <1>0
    <2>2. CASE i # n
        <3>1. n \in 1..n /\ i < n
            BY <1>1, <2>2
        <3>2. fs[i].base + Held(fs[i]) <= fs[n].base
            BY <3>1 DEF Values, Stacked
        <3>3. Held(fs[i]) \in Nat
            BY <1>3, HeldNat
        <3>4. fs[i].base \in Nat
            BY <1>3 DEF FrameType
        <3> QED
            BY <3>2, <3>3, <3>4, <1>0
    <2> QED
        BY <2>1, <2>2
<1>5. ASSUME NEW i \in 1..(n + 1)
      PROVE  Counted(gs[i]) /\ Saved(gs[i], md.stack)
    <2>1. CASE i = n + 1
        BY <2>1, <1>2
    <2>2. CASE i # n + 1
        <3>1. i \in 1..n
            BY <2>2, <1>1
        <3>2. PICK e \in FrameType : e = fs[i]
            BY <1>3, <3>1
        <3>3. Good(e) /\ Saved(e, mc.stack) /\ e.base + Held(e) <= g.base
            BY <1>3, <1>4, <3>1, <3>2
        <3>4. Saved(e, md.stack)
            BY <3>3, SavedBelow
        <3> QED
            BY <1>3, <3>1, <3>2, <3>4
    <2> QED
        BY <2>1, <2>2
<1>6. ASSUME NEW i \in 1..(n + 1), NEW j \in 1..(n + 1), i < j
      PROVE  gs[i].base + Held(gs[i]) <= gs[j].base
    <2>1. i \in 1..n
        BY <1>1, <1>6
    <2>2. CASE j = n + 1
        BY <1>2, <1>3, <1>4, <2>1, <2>2
    <2>3. CASE j # n + 1
        <3>1. j \in 1..n
            BY <2>3, <1>1
        <3> QED
            BY <1>3, <1>6, <2>1, <3>1 DEF Values, Stacked
    <2> QED
        BY <2>2, <2>3
<1>7. ASSUME NEW i \in 1..n
      PROVE  Passes(gs[i], gs[i + 1])
    <2>0. gs[i] = fs[i]
        BY <1>2
    <2>1. CASE i = n
        BY <2>0, <2>1, <1>2
    <2>2. CASE i # n
        <3>1. i \in 1..(n - 1) /\ i + 1 \in 1..n
            BY <1>1, <2>2
        <3> QED
            BY <2>0, <3>1, <1>2 DEF Values
    <2> QED
        BY <2>1, <2>2
<1>8. Values(gs, md)
    BY <1>1, <1>2, <1>5, <1>6, <1>7 DEF Values, Stacked
<1> QED
    BY <1>8 DEF gs

\* The activation on top returns with the registers below its own as it found
\* them, and the words of its caller.
LEMMA ValuesPop ==
    ASSUME NEW fs, Activations(fs), Len(fs) > 1, NEW mc, Values(fs, mc),
           NEW md, \A r \in Regs : r < fs[Len(fs)].pn => md.reg[r] = fs[Len(fs)].low[r],
           \A k \in 1..fs[Len(fs)].base : md.stack[k] = mc.stack[k]
    PROVE  Values(SubSeq(fs, 1, Len(fs) - 1), md)
<1> DEFINE n == Len(fs)
           g == fs[n]
           gs == SubSeq(fs, 1, n - 1)
<1>1. fs \in Seq(FrameType) /\ n \in Nat /\ n > 1
    BY DEF Activations
<1>2. Len(gs) = n - 1 /\ \A i \in 1..(n - 1) : gs[i] = fs[i]
    BY <1>1
<1> HIDE DEF gs
<1>3. ASSUME NEW i \in 1..(n - 1)
      PROVE  /\ gs[i] = fs[i] /\ fs[i] \in FrameType /\ Good(fs[i])
             /\ Counted(fs[i]) /\ Saved(fs[i], mc.stack)
             /\ fs[i].base + Held(fs[i]) <= g.base
    <2>1. i \in 1..n /\ n \in 1..n /\ i < n
        BY <1>1
    <2> QED
        BY <1>1, <1>2, <2>1 DEF Activations, Values, Stacked
<1>4. ASSUME NEW i \in 1..(n - 1)
      PROVE  Counted(gs[i]) /\ Saved(gs[i], md.stack)
    <2>1. PICK h \in FrameType : h = g
        BY <1>1
    <2>2. PICK e \in FrameType : e = fs[i]
        BY <1>3
    <2>3. /\ Good(e) /\ Saved(e, mc.stack) /\ e.base + Held(e) <= h.base
          /\ \A k \in 1..h.base : md.stack[k] = mc.stack[k]
        BY <1>3, <2>1, <2>2
    <2>4. Saved(e, md.stack)
        BY <2>3, SavedBelow
    <2> QED
        BY <1>3, <2>2, <2>4
<1>5. ASSUME NEW i \in 1..(n - 1), NEW j \in 1..(n - 1), i < j
      PROVE  gs[i].base + Held(gs[i]) <= gs[j].base
    <2>1. i \in 1..n /\ j \in 1..n
        BY <1>1
    <2> QED
        BY <1>3, <1>5, <2>1 DEF Values, Stacked
<1>6. ASSUME NEW i \in 1..(n - 2)
      PROVE  Passes(gs[i], gs[i + 1])
    <2>1. i \in 1..(n - 1) /\ i + 1 \in 1..(n - 1)
        BY <1>1
    <2> QED
        BY <1>2, <2>1 DEF Values
<1>7. Relies(gs[n - 1], md.reg)
    <2>1. n - 1 \in 1..(n - 1) /\ (n - 1) + 1 = n
        BY <1>1
    <2>2. Passes(fs[n - 1], g) /\ g \in FrameType
        BY <1>1, <2>1 DEF Values
    <2>3. fs[n - 1] \in FrameType /\ Good(fs[n - 1]) /\ gs[n - 1] = fs[n - 1]
        BY <1>3, <2>1
    <2> QED
        BY <2>2, <2>3, ReliesAgain
<1>8. (n - 1) - 1 = n - 2
    BY <1>1
<1>9. Values(gs, md)
    BY <1>2, <1>4, <1>5, <1>6, <1>7, <1>8 DEF Values, Stacked
<1> QED
    BY <1>9 DEF gs

\* Only the machine changes.
LEMMA ValuesSame ==
    ASSUME NEW fs, Activations(fs), NEW mc, Values(fs, mc),
           NEW md, Relies(fs[Len(fs)], md.reg),
           NEW h \in Nat, fs[Len(fs)].base + Held(fs[Len(fs)]) <= h,
           \A k \in 1..h : md.stack[k] = mc.stack[k]
    PROVE  Values(fs, md)
<1> DEFINE n == Len(fs)
<1>1. fs \in Seq(FrameType) /\ n \in Nat /\ n > 0 /\ n \in 1..n
    BY DEF Activations
<1>2. ASSUME NEW i \in 1..n
      PROVE  Counted(fs[i]) /\ Saved(fs[i], md.stack)
    <2>1. PICK e \in FrameType : e = fs[i]
        BY <1>1
    <2>2. PICK t \in FrameType : t = fs[n]
        BY <1>1
    <2>3. e.base \in Nat /\ t.base \in Nat /\ Held(e) \in Nat /\ Held(t) \in Nat
        BY HeldNat DEF FrameType
    <2>4. e.base + Held(e) <= h
        <3>1. CASE i = n
            BY <2>1, <3>1
        <3>2. CASE i # n
            <4>1. i < n
                BY <1>1, <3>2
            <4>2. e.base + Held(e) <= t.base /\ t.base + Held(t) <= h
                BY <1>1, <2>1, <2>2, <4>1 DEF Values, Stacked
            <4> QED
                BY <2>3, <4>2
        <3> QED
            BY <3>1, <3>2
    <2>5. Good(e)
        BY <2>1 DEF Activations
    <2>10. Saved(e, mc.stack) /\ Counted(e)
        BY <2>1 DEF Values
    <2>6. PICK s : s = mc.stack
        OBVIOUS
    <2>7. PICK u : u = md.stack
        OBVIOUS
    <2>8. Saved(e, s)
        BY <2>10, <2>6
    <2>9. \A k \in 1..h : u[k] = s[k]
        BY <2>6, <2>7
    <2>11. Saved(e, u)
        BY <2>4, <2>5, <2>8, <2>9, SavedKept
    <2> QED
        BY <2>1, <2>10, <2>7, <2>11
<1> QED
    BY <1>2 DEF Values

-----------------------------------------------------------------------------
(* Each action keeps what the activations rely on.                         *)

\* The invariant that carries the registers.
VInv == IInv /\ Values(frames, m)

\* What it says of the activation on top.
LEMMA TopValues ==
    ASSUME VInv
    PROVE  /\ IInv /\ Values(frames, m) /\ Relies(Top, m.reg)
           /\ Counted(Top) /\ Saved(Top, m.stack)
           /\ Len(frames) > 1 => Passes(Caller, Top)
           /\ Held(Top) \in Nat /\ Len(m.stack) \in Nat
<1>1. IInv /\ Values(frames, m) /\ Len(frames) \in Nat /\ Len(frames) > 0
    BY TopFacts DEF VInv
<1>2. Len(frames) \in 1..Len(frames)
    BY <1>1
<1>3. Len(frames) > 1 => /\ Len(frames) - 1 \in 1..(Len(frames) - 1)
                         /\ (Len(frames) - 1) + 1 = Len(frames)
    BY <1>1
<1>4. Held(Top) \in Nat /\ Len(m.stack) \in Nat
    BY <1>1, TopFacts, HeldNat DEF Machine
<1> QED
    BY <1>1, <1>2, <1>3, <1>4 DEF Values, Top, Caller

\* The frames stay, and the machine keeps what is on the stack and the
\* registers below that of the operand.
LEMMA MachineKept ==
    ASSUME VInv, Top.fn # "call", NEW mc,
           Spares(m, mc, Target(Top), Len(m.stack))
    PROVE  Values(frames, mc)
<1>1. /\ Activations(frames) /\ Top \in FrameType /\ Good(Top) /\ Relies(Top, m.reg)
      /\ Values(frames, m)
    BY TopFacts, TopValues
<1>2. Len(m.stack) \in Nat /\ Len(m.stack) = Top.base + Held(Top)
    BY TopFacts, TopValues
<1>3. Relies(Top, mc.reg)
    BY <1>1, OperandStays
<1>4. Top.base + Held(Top) <= Len(m.stack)
    BY <1>2
<1>5. \A k \in 1..Len(m.stack) : mc.stack[k] = m.stack[k]
    BY DEF Spares
<1>6. Top = frames[Len(frames)]
    BY DEF Top
<1> QED
    BY <1>1, <1>2, <1>3, <1>4, <1>5, <1>6, ValuesSame

\* An activation that is not a call returns.
LEMMA ReturningKept ==
    ASSUME VInv, Top.fn # "expression" \/ Len(frames) > 1, Top.fn # "call",
           NEW mc, Spares(m, mc, Top.pn, Top.base)
    PROVE  Values(Below(1), mc)
<1>1. Len(frames) > 1 /\ Activations(frames) /\ Values(frames, m) /\ Relies(Top, m.reg)
    BY TopFacts, TopValues, CallerFacts
<1>2. \A r \in Regs : r < Top.pn => mc.reg[r] = Top.low[r]
    BY <1>1 DEF Relies, Spares
<1>3. \A k \in 1..Top.base : mc.stack[k] = m.stack[k]
    BY DEF Spares
<1> QED
    BY <1>1, <1>2, <1>3, ValuesPop DEF Below, Top

\* An activation that is not a call calls g.
LEMMA CallingKept ==
    ASSUME VInv, Top.fn # "call", NEW g \in FrameType, g.base = Top.base + Held(Top),
           g.pn = Target(Top), Counted(g),
           \A r \in Regs : r < Target(Top) => g.low[r] = m.reg[r],
           NEW mc, Saved(g, mc.stack), Relies(g, mc.reg),
           \A k \in 1..g.base : mc.stack[k] = m.stack[k]
    PROVE  Values(Append(frames, g), mc)
<1>1. /\ Activations(frames) /\ Top \in FrameType /\ Good(Top) /\ Relies(Top, m.reg)
      /\ Values(frames, m) /\ Held(Top) \in Nat
    BY TopFacts, TopValues
<1>2. PICK f \in FrameType : f = Top
    BY <1>1
<1>3. PICK md : md = [reg |-> g.low, stack |-> m.stack]
    OBVIOUS
<1>4. Spares(m, md, Target(f), 0) /\ Good(f) /\ f.fn # "call" /\ Relies(f, m.reg)
    BY <1>1, <1>2, <1>3 DEF Spares
<1>5. Relies(f, md.reg)
    BY <1>4, OperandStays
<1>6. Passes(Top, g)
    BY <1>2, <1>3, <1>5 DEF Passes, Given
<1> QED
    BY <1>1, <1>6, ValuesPush DEF Top

\* The activation on top goes on, as one that relies on g's values.
LEMMA GoingKept ==
    ASSUME VInv, NEW g \in FrameType, g.base = Top.base, g.pn = Top.pn,
           g.low = Top.low, Counted(g),
           NEW mc, Saved(g, mc.stack), Relies(g, mc.reg),
           \A k \in 1..g.base : mc.stack[k] = m.stack[k]
    PROVE  Values(Append(Below(1), g), mc)
<1>1. Activations(frames) /\ Values(frames, m)
    BY TopFacts, TopValues
<1>2. Len(frames) > 1 => Passes(Caller, g)
    BY TopValues DEF Passes
<1> QED
    BY <1>1, <1>2, ValuesReplace DEF Below, Top, Caller

\* An expression past its second operand relies on the registers below its
\* own only.
LEMMA ExpressionKept ==
    ASSUME VInv, Top.fn = "expression", NEW g \in FrameType, g.base = Top.base,
           g.pn = Top.pn, g.low = Top.low, g.fn = "expression",
           g.at \notin {"first", "second"},
           NEW mc, Spares(m, mc, Top.pn, Top.base)
    PROVE  Values(Append(Below(1), g), mc)
<1>1. \A r \in Regs : r < g.pn => mc.reg[r] = g.low[r]
    BY TopValues DEF Relies, Spares
<1>2. Relies(g, mc.reg) /\ Counted(g) /\ Saved(g, mc.stack)
    BY <1>1 DEF Relies, Counted, Saved
<1>3. \A k \in 1..g.base : mc.stack[k] = m.stack[k]
    BY DEF Spares
<1> QED
    BY <1>2, <1>3, GoingKept

-----------------------------------------------------------------------------
(* The operands.                                                           *)

\* A call does not read an operand itself.
LEMMA OperandReader ==
    ASSUME IInv, pc \in {"operand", "operand_done", "lvalue", "lvalue_done"}
    PROVE  Top.fn # "call" /\ Top.fn # "paren"
<1>1. Top.at \in {"first", "second", "later", "operand", "value", "address"}
    BY TopFacts DEF AtPoint, AwaitsOperand
<1>2. Top.at \in Ats(Top.fn)
    BY TopFacts DEF Good, FrameOK
<1> QED
    BY <1>1, <1>2 DEF Ats

\* So with an expression.
LEMMA NewExpressionRelies ==
    ASSUME NEW mc, NEW pn
    PROVE  LET f == Frame(mc, "expression", "first", pn, FALSE) IN
           /\ Relies(f, mc.reg) /\ f.low = mc.reg /\ f.args = << >>
           /\ \A s : Saved(f, s)
           /\ Counted(f)
<1> DEFINE f == Frame(mc, "expression", "first", pn, FALSE)
<1>1. f.low = mc.reg /\ f.args = << >> /\ f.fn = "expression" /\ f.at = "first"
    BY DEF Frame
<1> HIDE DEF f
<1>2. Relies(f, mc.reg)
    BY <1>1 DEF Relies
<1>3. Counted(f) /\ \A s : Saved(f, s)
    BY <1>1 DEF Counted, Saved
<1> QED
    BY <1>1, <1>2, <1>3 DEF f

\* The activation that reads an operand calls a new one for it.
LEMMA CallingNewKept ==
    ASSUME VInv, Top.fn # "call", NEW mc \in Machine, mc.stack = m.stack,
           Spares(m, mc, Target(Top), 0),
           NEW fn \in Functions, fn # "call", NEW at \in Ats(fn),
           at \notin {"second", "later", "climb", "unwind"},
           NEW pn \in Nat, pn + 3 <= MaxReg, NEW neg \in BOOLEAN, pn = Target(Top)
    PROVE  Values(Append(frames, Frame(mc, fn, at, pn, neg)), mc)
<1> DEFINE f == Frame(mc, fn, at, pn, neg)
<1>1. f \in FrameType /\ f.base = Len(mc.stack) /\ f.fn = fn /\ f.pn = pn /\ f.at = at
    BY NewFrame
<1>2. Relies(f, mc.reg) /\ f.low = mc.reg /\ f.args = << >>
    BY NewRelies
<1> HIDE DEF f
<1>3. Counted(f) /\ Saved(f, mc.stack)
    BY <1>1, <1>2 DEF Counted, Saved
<1>4. f.base = Top.base + Held(Top) /\ f.pn = Target(Top)
    BY <1>1, TopFacts, TopValues
<1>5. \A r \in Regs : r < Target(Top) => f.low[r] = m.reg[r]
    BY <1>2 DEF Spares
<1>6. Values(Append(frames, f), mc)
    BY <1>1, <1>2, <1>3, <1>4, <1>5, CallingKept
<1> QED
    BY <1>6 DEF f

\* A constant goes into the register of the operand.
LEMMA OperandConstantKept ==
    ASSUME VInv, OperandConstant
    PROVE  Values(frames', m')
<1> DEFINE p == Target(Top)
           a == Load(m, p)
           h == Len(m.stack)
<1>1. PICK neg \in Signs : m' = Negated(a, neg, p)
    BY DEF OperandConstant
<1>2. p \in Nat /\ p <= p /\ m \in Machine /\ Top.fn # "call"
    BY TopValues, TargetFacts, TopFacts, OperandReader DEF OperandConstant
<1>3. a \in Machine /\ Spares(m, a, p, h)
    BY <1>2, LoadMachine, LoadSpares
<1> HIDE DEF a
<1>4. Spares(a, m', p, h)
    BY <1>1, <1>2, <1>3, NegatedSpares
<1>5. Spares(m, m', p, h)
    BY <1>3, <1>4, SparesTwice
<1>6. Values(frames, m')
    BY <1>2, <1>5, MachineKept
<1> QED
    BY <1>6 DEF OperandConstant

\* The address of a function is loaded between a push and a pop of the
\* registers below it.
LEMMA OperandFunctionNameKept ==
    ASSUME VInv, OperandFunctionName
    PROVE  Values(frames', m')
<1> DEFINE p == Target(Top)
           h == Len(m.stack)
           a == PushRegs(m, p)
           b == Load(a, p)
           c == PopRegs(b, p)
<1>1. PICK neg \in Signs : m' = Negated(c, neg, p)
    BY DEF OperandFunctionName
<1>2. p \in Nat /\ p <= p /\ p \in Regs /\ m \in Machine /\ Top.fn # "call" /\ h \in Nat
    BY TopValues, TargetFacts, TopFacts, OperandReader DEF OperandFunctionName
<1> HIDE DEF p
<1>3. a \in Machine /\ Len(a.stack) = h + p
    BY <1>2, PushRegsMachine
<1>4. /\ \A r \in Regs : r < p => a.stack[h + 1 + r] = m.reg[r]
      /\ Spares(m, a, p, h)
    BY <1>2, PushRegsSpares
<1> HIDE DEF a
<1>5. b \in Machine /\ b.stack = a.stack
    BY <1>3, LoadMachine
<1> HIDE DEF b
<1>12. Len(b.stack) = h + p
    BY <1>3, <1>5
<1> HIDE DEF h
<1>6. c \in Machine
    BY <1>2, <1>5, <1>12, PopRegsMachine
<1>7. /\ \A r \in Regs : r < p => c.reg[r] = b.stack[h + 1 + r]
      /\ \A k \in 1..h : c.stack[k] = b.stack[k]
    BY <1>2, <1>5, <1>12, PopRegsSpares
<1> HIDE DEF c
<1>8. Spares(m, c, p, h)
    BY <1>4, <1>5, <1>7 DEF Spares
<1>9. Spares(c, m', p, h)
    BY <1>1, <1>2, <1>6, NegatedSpares
<1>10. Spares(m, m', p, h)
    BY <1>8, <1>9, SparesTwice
<1>11. Values(frames, m')
    BY <1>2, <1>10, MachineKept DEF p, h
<1> QED
    BY <1>11 DEF OperandFunctionName

\* ! and its operand share a register.
LEMMA OperandNotKept ==
    ASSUME VInv, OperandNot
    PROVE  Values(frames', m')
<1> DEFINE q == Target(Top)
<1>1. m \in Machine /\ q \in Nat /\ q + 3 <= MaxReg /\ Top.fn # "call"
    BY TopValues, TopFacts, TargetFacts, OperandReader DEF OperandNot, Room
<1>2. /\ "not" \in Functions /\ "operand" \in Ats("not") /\ FALSE \in BOOLEAN
      /\ "not" # "call" /\ "operand" \notin {"second", "later", "climb", "unwind"}
    BY DEF Functions, Ats
<1>3. Spares(m, m, q, 0)
    BY DEF Spares
<1>4. Values(Append(frames, Frame(m, "not", "operand", q, FALSE)), m)
    BY <1>1, <1>2, <1>3, CallingNewKept
<1> QED
    BY <1>4 DEF OperandNot

\* So do * and what follows it.
LEMMA OperandStarKept ==
    ASSUME VInv, OperandStar
    PROVE  Values(frames', m')
<1> DEFINE q == Target(Top)
<1>1. m \in Machine /\ q \in Nat /\ q + 3 <= MaxReg /\ Top.fn # "call"
    BY TopValues, TopFacts, TargetFacts, OperandReader DEF OperandStar, Room
<1>2. /\ "lvalue" \in Functions /\ "deref" \in Ats("lvalue") /\ FALSE \in BOOLEAN
      /\ "lvalue" # "call" /\ "deref" \notin {"second", "later", "climb", "unwind"}
    BY DEF Functions, Ats
<1>3. Spares(m, m, q, 0)
    BY DEF Spares
<1>4. Values(Append(frames, Frame(m, "lvalue", "deref", q, FALSE)), m)
    BY <1>1, <1>2, <1>3, CallingNewKept
<1> QED
    BY <1>4 DEF OperandStar

\* So do a bracket and the expression in it.
LEMMA OperandParenKept ==
    ASSUME VInv, OperandParen
    PROVE  Values(frames', m')
<1> DEFINE q == Target(Top)
<1>1. m \in Machine /\ q \in Nat /\ q + 3 <= MaxReg /\ Top.fn # "call" /\ AwaitsOperand(Top)
    BY TopValues, TopFacts, TargetFacts, OperandReader, OperandContext
    DEF OperandParen, Room
<1>2. PICK neg \in Signs :
          frames' = frames \o << Frame(m, "paren", "expression", q, neg),
                                 Frame(m, "expression", "first", q, FALSE) >>
    BY DEF OperandParen
<1> DEFINE f == Frame(m, "paren", "expression", q, neg)
           g == Frame(m, "expression", "first", q, FALSE)
<1>3. /\ "paren" \in Functions /\ "expression" \in Ats("paren")
      /\ "expression" \in Functions /\ "first" \in Ats("expression")
      /\ neg \in BOOLEAN /\ FALSE \in BOOLEAN
      /\ "paren" # "call" /\ "expression" \notin {"second", "later", "climb", "unwind"}
    BY DEF Functions, Ats, Signs
<1>4. Spares(m, m, q, 0)
    BY DEF Spares
<1>5. Values(Append(frames, f), m)
    BY <1>1, <1>3, <1>4, CallingNewKept
<1>6. /\ f \in FrameType /\ Good(f) /\ f.base = Len(m.stack) /\ f.fn = "paren"
      /\ f.at = "expression" /\ f.pn = q
    <2> HIDE DEF q
    <2> QED
        BY <1>1, <1>3, NewFrame
<1>7. Relies(f, m.reg)
    BY <1>1, <1>3, NewRelies
<1>8. /\ g \in FrameType /\ g.base = Len(m.stack) /\ g.fn = "expression"
      /\ g.at = "first" /\ g.pn = q
    BY <1>1, NewExpression
<1>9. Relies(g, m.reg) /\ g.low = m.reg /\ g.args = << >>
    BY NewExpressionRelies
<1> HIDE DEF f, g, q
<1>10. Counted(g) /\ Saved(g, m.stack)
    BY <1>8, <1>9 DEF Counted, Saved
<1>11. Held(f) = 0 /\ Given(f) = q /\ Len(m.stack) \in Nat
    BY <1>1, <1>6 DEF Held, Given, Target, Machine
<1>12. Passes(f, g)
    BY <1>7, <1>8, <1>9, <1>11 DEF Passes
<1>13. Link(Top, f)
    BY <1>1, <1>6, TopFacts, TopValues DEF Link, Calls
<1> DEFINE fs == Append(frames, f)
<1>14. Activations(fs) /\ fs[Len(fs)] = f
    BY <1>6, <1>13, TopFacts, TopValues, PushActivation DEF Top
<1> HIDE DEF fs
<1>15. Values(fs, m)
    BY <1>5 DEF fs
<1>16. g.base = fs[Len(fs)].base + Held(fs[Len(fs)]) /\ Held(fs[Len(fs)]) \in Nat
    BY <1>6, <1>8, <1>11, <1>14
<1>17. Passes(fs[Len(fs)], g) /\ \A k \in 1..g.base : m.stack[k] = m.stack[k]
    BY <1>12, <1>14
<1>18. Values(Append(fs, g), m)
    BY <1>8, <1>9, <1>10, <1>14, <1>15, <1>16, <1>17, ValuesPush
<1>19. frames \o <<f, g>> = Append(fs, g)
    <2>1. frames \in Seq(FrameType)
        BY TopFacts, TopValues DEF Activations
    <2> QED
        BY <2>1, <1>6, <1>8 DEF fs
<1> QED
    BY <1>2, <1>18, <1>19 DEF OperandParen, f, g, q

\* A variable's address goes into the register of the operand.
LEMMA OperandLvalueKept ==
    ASSUME VInv, OperandLvalue
    PROVE  Values(frames', m')
<1> DEFINE q == Target(Top)
<1>1. m \in Machine /\ q \in Nat /\ q <= q /\ q + 3 <= MaxReg /\ Top.fn # "call"
    BY TopValues, TopFacts, TargetFacts, OperandReader DEF OperandLvalue, Room
<1>2. PICK v \in Variables, at \in {"value", "address"}, neg \in BOOLEAN,
           prefix \in BOOLEAN :
          frames' = Append(frames, [Frame(m, "lvalue", at, q, neg) EXCEPT
                      !.var = v, !.prefix = prefix, !.is_reference = ~v.is_array])
    BY DEF OperandLvalue
<1> DEFINE e == Frame(m, "lvalue", at, q, neg)
           f == [e EXCEPT !.var = v, !.prefix = prefix, !.is_reference = ~v.is_array]
<1>3. /\ "lvalue" \in Functions /\ at \in Ats("lvalue") /\ at # "second"
      /\ at \notin {"second", "later", "climb", "unwind"}
    BY DEF Functions, Ats
<1>4. e \in FrameType /\ e.base = Len(m.stack) /\ e.fn = "lvalue" /\ e.at = at /\ e.pn = q
    BY <1>1, <1>3, NewFrame
<1>5. e.low = m.reg
    BY DEF Frame
<1> HIDE DEF e
<1>6. v \in VariableKinds
    BY VariablesAssumption DEF VariableKinds
<1>7. /\ f \in FrameType /\ f.base = e.base /\ f.fn = e.fn /\ f.at = e.at
      /\ f.pn = e.pn /\ f.low = e.low
    BY <1>4, <1>6 DEF FrameType, VariableKinds
<1> HIDE DEF f, q
<1>8. Spares(m, m', q, Len(m.stack))
    BY <1>1, LoadSpares DEF OperandLvalue, q
<1>9. Relies(f, m'.reg) /\ Counted(f) /\ Saved(f, m'.stack)
    BY <1>3, <1>4, <1>5, <1>7, <1>8 DEF Relies, Counted, Saved, Spares
<1>10. f.base = Top.base + Held(Top) /\ f.pn = Target(Top)
    BY <1>4, <1>7, TopFacts, TopValues DEF q
<1>11. \A r \in Regs : r < Target(Top) => f.low[r] = m.reg[r]
    BY <1>5, <1>7
<1>12. \A k \in 1..f.base : m'.stack[k] = m.stack[k]
    BY <1>4, <1>7, <1>8 DEF Spares
<1>13. Values(Append(frames, f), m')
    BY <1>1, <1>7, <1>9, <1>10, <1>11, <1>12, CallingKept
<1> QED
    BY <1>2, <1>13 DEF f, e, q

\* A call saves the registers below its own.
LEMMA OperandCallKept ==
    ASSUME VInv, OperandCall
    PROVE  Values(frames', m')
<1> DEFINE q == Target(Top)
<1>1. /\ m \in Machine /\ q \in Nat /\ q \in Regs /\ q + 3 <= MaxReg
      /\ Top.fn # "call" /\ MaxReg \in Nat
    BY TopValues, TopFacts, TargetFacts, OperandReader, BoundsAssumption
    DEF OperandCall, Room
<1>2. PICK neg \in Signs : frames' = Append(frames, Frame(m, "call", "direct", q, neg))
    BY DEF OperandCall
<1> DEFINE f == Frame(m, "call", "direct", q, neg)
<1>3. /\ "call" \in Functions /\ "direct" \in Ats("call")
      /\ "direct" \notin {"second", "later", "climb", "unwind"} /\ neg \in BOOLEAN
    BY DEF Functions, Ats, Signs
<1>4. /\ f \in FrameType /\ f.base = Len(m.stack) /\ f.fn = "call"
      /\ f.at = "direct" /\ f.pn = q
    BY <1>1, <1>3, NewFrame
<1>5. Relies(f, m.reg) /\ f.low = m.reg /\ f.args = << >>
    BY <1>1, NewRelies
<1> HIDE DEF f, q
<1>6. m' = PushRegs(m, q)
    BY DEF OperandCall, q
<1>7. /\ m'.reg = m.reg /\ Spares(m, m', q, Len(m.stack))
      /\ \A r \in Regs : r < q => m'.stack[Len(m.stack) + 1 + r] = m.reg[r]
    BY <1>1, <1>6, PushRegsSpares
<1>8. Relies(f, m'.reg)
    BY <1>5, <1>7
<1>9. Saved(f, m'.stack)
    BY <1>4, <1>5, <1>7 DEF Saved
<1>10. Counted(f)
    <2>1. Len(f.args) = 0 /\ 2 <= MaxReg
        BY <1>1, <1>5
    <2> QED
        BY <2>1, <1>4 DEF Counted
<1>11. f.base = Top.base + Held(Top) /\ f.pn = Target(Top)
    BY <1>4, TopFacts, TopValues DEF q
<1>12. \A r \in Regs : r < Target(Top) => f.low[r] = m.reg[r]
    BY <1>5
<1>13. \A k \in 1..f.base : m'.stack[k] = m.stack[k]
    BY <1>4, <1>7 DEF Spares
<1>14. Values(Append(frames, f), m')
    BY <1>1, <1>4, <1>8, <1>9, <1>10, <1>11, <1>12, <1>13, CallingKept
<1> QED
    BY <1>2, <1>14 DEF f, q

\* The register of ! is its operand's.
LEMMA NotDoneKept ==
    ASSUME VInv, NotDone
    PROVE  Values(frames', m')
<1>1. m' = Unary(m, "op_not", Top.pn, Top.pn) /\ Top.fn = "not" /\ frames' = Below(1)
    BY DEF NotDone
<1>2. Top.pn \in Nat /\ Top.pn <= Top.pn /\ m \in Machine
    BY TopFacts, TopValues
<1>3. Spares(m, m', Top.pn, Top.base)
    BY <1>1, <1>2, UnarySpares
<1> QED
    BY <1>1, <1>3, ReturningKept

-----------------------------------------------------------------------------
(* Calls.                                                                  *)

\* The registers of the arguments read so far are those below the next's.
LEMMA NextArgumentKept ==
    ASSUME VInv, NextArgument
    PROVE  Values(frames', m')
<1> DEFINE n == Len(Top.args)
           f == Frame(m, "expression", "first", n, FALSE)
<1>1. /\ IInv /\ Activations(frames) /\ Values(frames, m) /\ Relies(Top, m.reg)
      /\ Top.fn = "call" /\ m \in Machine /\ n \in Nat /\ n + 3 <= MaxReg
    BY TopValues, TopFacts DEF NextArgument, AtPoint, FrameType
<1>2. f \in FrameType /\ f.base = Len(m.stack) /\ f.pn = n
    <2> HIDE DEF n
    <2> QED
        BY <1>1, NewExpression
<1>3. Relies(f, m.reg) /\ f.low = m.reg /\ Counted(f) /\ Saved(f, m.stack)
    BY NewExpressionRelies
<1> HIDE DEF f
<1>4. Passes(Top, f)
    BY <1>1, <1>2, <1>3 DEF Passes, Given
<1>5. f.base = Top.base + Held(Top) /\ Held(Top) \in Nat
    BY <1>1, <1>2, TopFacts, TopValues
<1>6. \A k \in 1..f.base : m.stack[k] = m.stack[k]
    OBVIOUS
<1>7. Values(Append(frames, f), m)
    BY <1>1, <1>2, <1>3, <1>4, <1>5, <1>6, ValuesPush DEF Top
<1> QED
    BY <1>7 DEF NextArgument, f

\* A call clobbers every register, and takes the ones it saved back.
LEMMA EndCallKept ==
    ASSUME VInv, EndCall
    PROVE  Values(frames', m')
<1> DEFINE p == Top.pn
           h == Top.base
           c == IF Top.at = "pointer" THEN Pop(m, MAX_PARAMS - 1) ELSE m
           d == Called(c, p)
           e == PopRegs(d, p)
<1>1. /\ IInv /\ m \in Machine /\ p \in Nat /\ p <= p /\ p \in Regs /\ h \in Nat
      /\ Len(m.stack) = h + Held(Top) /\ Top.fn = "call" /\ Saved(Top, m.stack)
      /\ Top \in FrameType
    BY TopFacts, TopValues DEF EndCall, AtPoint
<1>2. Top.at \in {"direct", "pointer"}
    BY <1>1, TopFacts DEF Good, FrameOK, Ats
<1>3. /\ c \in Machine /\ Len(c.stack) = h + p
      /\ \A k \in 1..(h + p) : c.stack[k] = m.stack[k]
    <2>1. CASE Top.at = "pointer"
        <3>1. Len(m.stack) = h + p + 1
            BY <1>1, <2>1 DEF Held
        <3> DEFINE b == Pop(m, MAX_PARAMS - 1)
        <3>2. b \in Machine /\ Len(b.stack) = Len(m.stack) - 1
            BY <1>1, <3>1, PopMachine
        <3>3. MAX_PARAMS - 1 \in Nat /\ 0 \in Nat /\ 0 <= MAX_PARAMS - 1
            BY BoundsAssumption
        <3>4. h + p \in Nat /\ h + p < Len(m.stack) /\ Len(m.stack) > 0
            BY <1>1, <3>1
        <3>5. Spares(m, b, 0, h + p)
            <4> HIDE DEF h, p
            <4>1. PICK x \in Nat : x = MAX_PARAMS - 1
                BY <3>3
            <4>2. PICK y \in Nat : y = h + p
                BY <3>4
            <4>3. Spares(m, Pop(m, x), 0, y)
                BY <1>1, <3>3, <3>4, <4>1, <4>2, PopSpares
            <4> QED
                BY <4>1, <4>2, <4>3
        <3>6. c = b
            BY <2>1
        <3> QED
            BY <1>1, <3>1, <3>2, <3>5, <3>6 DEF Spares
    <2>2. CASE Top.at = "direct"
        BY <1>1, <2>2 DEF Held
    <2> QED
        BY <1>2, <2>1, <2>2
<1> HIDE DEF c
<1>4. d \in Machine /\ d.stack = c.stack
    BY <1>3, CalledMachine
<1> HIDE DEF d
<1>5. Len(d.stack) = h + p
    BY <1>3, <1>4
<1> HIDE DEF h, p
<1>6. e \in Machine
    BY <1>1, <1>4, <1>5, PopRegsMachine
<1>7. /\ \A r \in Regs : r < p => e.reg[r] = d.stack[h + 1 + r]
      /\ \A k \in 1..h : e.stack[k] = d.stack[k]
    BY <1>1, <1>4, <1>5, PopRegsSpares
<1> HIDE DEF e
<1>8. ASSUME NEW r \in Regs, r < p
      PROVE  e.reg[r] = Top.low[r]
    <2>1. r \in Nat
        BY DEF Regs
    <2>2. h + 1 + r \in 1..(h + p)
        BY <1>1, <1>8, <2>1
    <2>3. e.reg[r] = m.stack[h + 1 + r]
        BY <1>3, <1>4, <1>7, <1>8, <2>2
    <2>4. m.stack[h + 1 + r] = Top.low[r]
        BY <1>1, <1>8 DEF Saved, h, p
    <2> QED
        BY <2>3, <2>4
<1>9. ASSUME NEW k \in 1..h
      PROVE  e.stack[k] = m.stack[k]
    <2>1. k \in 1..(h + p)
        BY <1>1
    <2> QED
        BY <1>3, <1>4, <1>7, <2>1
<1>10. m' = Negated(e, Top.neg, p)
    BY DEF EndCall, AtCall, c, d, e, p
<1>11. Spares(e, m', p, h)
    BY <1>1, <1>6, <1>10, NegatedSpares
<1>12. \A r \in Regs : r < p => m'.reg[r] = Top.low[r]
    BY <1>8, <1>11 DEF Spares
<1>13. \A k \in 1..h : m'.stack[k] = m.stack[k]
    BY <1>9, <1>11 DEF Spares
<1>14. Len(frames) > 1 /\ Activations(frames) /\ Values(frames, m)
    BY <1>1, CallerFacts, TopFacts, TopValues
<1>15. Values(Below(1), m')
    BY <1>12, <1>13, <1>14, ValuesPop DEF Below, Top, h, p
<1> QED
    BY <1>15 DEF EndCall

\* A call through a pointer saves the value of the variable, too.
LEMMA PointerCallKept ==
    ASSUME VInv, PointerCall
    PROVE  Values(frames', m')
<1> DEFINE q == Top.pn
           h == Len(m.stack)
           a == PushRegs(m, q)
           f == Frame(m, "call", "pointer", q, Top.neg)
<1>0. IInv /\ MaxReg \in Nat
    BY TopValues, BoundsAssumption
<1>1. Top.fn = "lvalue"
    BY <1>0, LvaluePoint DEF PointerCall
<1>2. /\ m \in Machine /\ q \in Nat /\ q \in Regs /\ q + 3 <= MaxReg
      /\ Top.neg \in BOOLEAN /\ h \in Nat
    BY <1>0, TopFacts, TopValues DEF PointerCall, Room, FrameType
<1>3. /\ "call" \in Functions /\ "pointer" \in Ats("call") /\ "pointer" # "second"
      /\ "pointer" \notin {"second", "later", "climb", "unwind"}
    BY DEF Functions, Ats
<1>4. a \in Machine /\ Len(a.stack) = h + q
    BY <1>2, PushRegsMachine
<1>5. /\ a.reg = m.reg /\ Spares(m, a, q, h)
      /\ \A r \in Regs : r < q => a.stack[h + 1 + r] = m.reg[r]
    BY <1>2, PushRegsSpares
<1>6. m' = Push(a, q)
    BY DEF PointerCall
<1> HIDE DEF a, q, h
<1>7. /\ m'.reg = m.reg
      /\ m'.stack = Append(a.stack, m.reg[q])
    BY <1>4, <1>5, <1>6 DEF Push, Machine
<1>8. a.stack \in Seq(Nat) /\ m.reg[q] \in Nat
    BY <1>2, <1>4 DEF Machine
<1>9. /\ \A k \in 1..(h + q) : m'.stack[k] = a.stack[k]
      /\ m'.stack[h + q + 1] = m.reg[q]
    <2>1. \A k \in 1..Len(a.stack) : Append(a.stack, m.reg[q])[k] = a.stack[k]
        BY <1>8
    <2>2. Append(a.stack, m.reg[q])[Len(a.stack) + 1] = m.reg[q]
        BY <1>8
    <2> QED
        BY <1>4, <1>7, <2>1, <2>2
<1>10. f \in FrameType /\ f.base = h /\ f.fn = "call" /\ f.at = "pointer" /\ f.pn = q
    BY <1>2, <1>3, NewFrame DEF h
<1>11. Relies(f, m.reg) /\ f.low = m.reg /\ f.args = << >>
    BY <1>2, <1>3, NewRelies
<1> HIDE DEF f
<1>12. Saved(f, m'.stack)
    <2>1. ASSUME NEW r \in Regs, r < q
          PROVE  m'.stack[h + 1 + r] = m.reg[r]
        <3>1. h + 1 + r \in 1..(h + q)
            BY <1>2, <2>1 DEF Regs
        <3> QED
            BY <1>5, <1>9, <2>1, <3>1
    <2>2. h + 1 + q = h + q + 1
        BY <1>2
    <2> QED
        BY <1>9, <1>10, <1>11, <2>1, <2>2 DEF Saved
<1>13. Counted(f)
    <2>1. Len(f.args) = 0 /\ 2 <= MaxReg
        BY <1>0, <1>2, <1>11
    <2> QED
        BY <2>1, <1>10 DEF Counted
<1>14. f.base = Top.base
    BY <1>0, <1>1, <1>10, LvalueFacts DEF h
<1>15. \A k \in 1..f.base : m'.stack[k] = m.stack[k]
    <2>1. ASSUME NEW k \in 1..h
          PROVE  m'.stack[k] = m.stack[k]
        <3>1. k \in 1..(h + q)
            BY <1>2
        <3> QED
            BY <1>5, <1>9, <3>1 DEF Spares
    <2> QED
        BY <1>10, <2>1
<1>16. Len(frames) > 1 => Passes(Caller, f)
    <2>1. SUFFICES ASSUME Len(frames) > 1
                   PROVE  Passes(Caller, f)
        OBVIOUS
    <2>2. Caller \in FrameType /\ Good(Caller) /\ Passes(Caller, Top) /\ Top \in FrameType
        BY <1>0, <2>1, CallerFacts, TopFacts, TopValues
    <2>3. \A r \in Regs : r < Top.pn => m.reg[r] = Top.low[r]
        BY <1>1, TopValues DEF Relies
    <2>4. PICK reg : reg = m.reg
        OBVIOUS
    <2>5. Relies(Caller, reg)
        BY <2>2, <2>3, <2>4, ReliesAgain
    <2> QED
        BY <1>10, <1>11, <2>2, <2>4, <2>5 DEF Passes, q
<1>17. Activations(frames) /\ Values(frames, m) /\ Relies(f, m'.reg)
    BY <1>0, <1>7, <1>11, TopFacts, TopValues
<1>18. Values(Append(Below(1), f), m')
    BY <1>10, <1>12, <1>13, <1>14, <1>15, <1>16, <1>17, ValuesReplace
    DEF Below, Top, Caller
<1> QED
    BY <1>18 DEF PointerCall, f, q

-----------------------------------------------------------------------------
(* Lvalues: they compute in the registers from their own upwards.          *)

\* What the lvalue on top relies on, and the registers it may use.
LEMMA LvalueValues ==
    ASSUME VInv, pc \in {"lvalue", "lvalue_done"}
    PROVE  /\ IInv /\ Top.fn = "lvalue" /\ m \in Machine /\ Top.pn \in Nat
           /\ Top.pn <= Top.pn /\ Top.pn <= Top.pn + 1 /\ Top.pn + 1 \in Nat
           /\ Top.pn \in Regs /\ Top.pn + 1 \in Regs /\ Top.pn + 2 \in Regs
           /\ Top.base \in Nat /\ Len(m.stack) = Top.base
           /\ Held(Top) = 0 /\ Target(Top) = Top.pn + 1
<1>1. IInv
    BY TopValues
<1>2. Top.fn = "lvalue"
    BY <1>1, LvaluePoint
<1>3. Len(m.stack) = Top.base /\ Held(Top) = 0
    BY <1>1, <1>2, LvalueFacts
<1> QED
    BY <1>1, <1>2, <1>3, TopFacts DEF Target

\* The lvalue on top goes on with a machine that has its caller's registers.
LEMMA LvalueStaying ==
    ASSUME VInv, Top.fn = "lvalue", Top.at # "second", NEW mc,
           Spares(m, mc, Top.pn, Len(m.stack))
    PROVE  Values(frames, mc)
<1>1. Relies(Top, m.reg) /\ Activations(frames) /\ Values(frames, m)
    BY TopFacts, TopValues
<1>2. Len(m.stack) \in Nat /\ Len(m.stack) = Top.base + Held(Top)
    BY TopFacts, TopValues
<1>3. Relies(Top, mc.reg)
    BY <1>1 DEF Relies, Spares
<1>4. Top.base + Held(Top) <= Len(m.stack)
    BY <1>2
<1>5. \A k \in 1..Len(m.stack) : mc.stack[k] = m.stack[k]
    BY DEF Spares
<1>6. Top = frames[Len(frames)]
    BY DEF Top
<1> QED
    BY <1>1, <1>2, <1>3, <1>4, <1>5, <1>6, ValuesSame

\* An lvalue is not an expression that reads its second operand.
LEMMA LvalueNotSecond ==
    ASSUME VInv, Top.fn = "lvalue"
    PROVE  Top.at # "second"
BY TopFacts, TopValues DEF Good, FrameOK, Ats

\* The index is read above the pointer.
LEMMA StartIndexKept ==
    ASSUME VInv, StartIndex
    PROVE  Values(frames', m')
<1> DEFINE p == Top.pn
           n == p + 1
           c == IF Top.var.is_pointer > 0 THEN Unary(m, "op_read_addr", p, p) ELSE m
           f == Frame(c, "expression", "first", n, FALSE)
<1>1. /\ IInv /\ Top.fn = "lvalue" /\ m \in Machine /\ p \in Nat /\ p <= p /\ p \in Regs
      /\ Held(Top) = 0 /\ Target(Top) = n /\ Len(m.stack) = Top.base /\ n \in Nat
      /\ Top.base \in Nat
    BY LvalueValues DEF StartIndex
<1>2. n + 3 <= MaxReg
    BY <1>1 DEF StartIndex, Room
<1>3. c \in Machine /\ c.stack = m.stack
    <2>1. "op_read_addr" \in TermOps
        BY DEF TermOps
    <2> QED
        BY <1>1, <2>1, UnaryMachine
<1>4. Spares(m, c, p, Len(m.stack))
    <2>1. Spares(m, Unary(m, "op_read_addr", p, p), p, Len(m.stack))
        BY <1>1, UnarySpares
    <2>2. Spares(m, m, p, Len(m.stack))
        BY DEF Spares
    <2> QED
        BY <2>1, <2>2
<1> HIDE DEF c
<1>5. f \in FrameType /\ f.base = Len(c.stack) /\ f.pn = n
    <2> HIDE DEF n
    <2> QED
        BY <1>1, <1>2, <1>3, NewExpression
<1>6. Relies(f, c.reg) /\ f.low = c.reg /\ Counted(f) /\ Saved(f, c.stack)
    BY NewExpressionRelies
<1> HIDE DEF f
<1>7. Relies(Top, c.reg)
    <2>1. Top.at # "second" /\ Relies(Top, m.reg)
        BY <1>1, LvalueNotSecond, TopValues
    <2> QED
        BY <1>1, <1>4, <2>1 DEF Relies, Spares
<1>8. Passes(Top, f)
    BY <1>1, <1>5, <1>6, <1>7 DEF Passes, Given
<1>9. f.base = Top.base + Held(Top) /\ Held(Top) \in Nat
    BY <1>1, <1>3, <1>5
<1>10. \A k \in 1..f.base : c.stack[k] = m.stack[k]
    BY <1>3
<1>11. Activations(frames) /\ Values(frames, m)
    BY <1>1, TopFacts, TopValues
<1>12. Values(Append(frames, f), c)
    BY <1>5, <1>6, <1>8, <1>9, <1>10, <1>11, ValuesPush DEF Top
<1> QED
    BY <1>12 DEF StartIndex, f, c, n, p

\* The offset of a member is loaded above the address.
LEMMA MemberKept ==
    ASSUME VInv, Member
    PROVE  Values(frames', m')
<1> DEFINE p == Top.pn
           h == Len(m.stack)
<1>1. PICK v \in Variables, arrow \in BOOLEAN :
          LET c == IF arrow THEN Unary(m, "op_read_addr", p, p) ELSE m IN
          /\ m' = Apply(Load(c, p + 1), "op_add", p, p + 1)
          /\ frames' = Append(Below(1),
                 [Top EXCEPT !.var = v, !.is_reference = ~v.is_array,
                             !.indexed = FALSE])
    BY DEF Member
<1> DEFINE a == Unary(m, "op_read_addr", p, p)
           c == IF arrow THEN a ELSE m
           d == Load(c, p + 1)
           g == [Top EXCEPT !.var = v, !.is_reference = ~v.is_array,
                            !.indexed = FALSE]
<1>2. /\ IInv /\ Top.fn = "lvalue" /\ m \in Machine /\ p \in Nat /\ p <= p /\ p \in Regs
      /\ p + 1 \in Nat /\ p <= p + 1 /\ h = Top.base /\ Top \in FrameType
    BY LvalueValues, TopFacts DEF Member
<1>3. "op_read_addr" \in TermOps /\ "op_add" \in TermOps
    BY DEF TermOps, BinaryOps
<1>4. a \in Machine /\ Spares(m, a, p, h) /\ Spares(m, m, p, h)
    <2>1. a \in Machine
        BY <1>2, <1>3, UnaryMachine
    <2>2. Spares(m, a, p, h)
        BY <1>2, UnarySpares
    <2> QED
        BY <2>1, <2>2 DEF Spares
<1> HIDE DEF a
<1>5. c \in Machine /\ Spares(m, c, p, h)
    BY <1>2, <1>4
<1>6. m' = Apply(d, "op_add", p, p + 1)
    BY <1>1 DEF a
<1> HIDE DEF c, p
<1>7. d \in Machine /\ Spares(c, d, p, h)
    BY <1>2, <1>5, LoadMachine, LoadSpares
<1> HIDE DEF d
<1>8. Spares(d, m', p, h)
    BY <1>2, <1>6, <1>7, ApplySpares
<1>9. Spares(m, d, p, h)
    BY <1>5, <1>7, SparesTwice
<1>10. Spares(m, m', p, h)
    BY <1>8, <1>9, SparesTwice
<1>11. v \in VariableKinds
    BY VariablesAssumption DEF VariableKinds
<1>12. /\ g \in FrameType /\ g.fn = Top.fn /\ g.at = Top.at /\ g.pn = Top.pn
       /\ g.base = Top.base /\ g.low = Top.low
    BY <1>2, <1>11 DEF FrameType, VariableKinds
<1>13. frames' = Append(Below(1), g)
    BY <1>1
<1> HIDE DEF g
<1>14. Top.at # "second" /\ Relies(Top, m.reg)
    BY <1>2, LvalueNotSecond, TopValues
<1>15. Relies(g, m'.reg)
    BY <1>2, <1>10, <1>12, <1>14 DEF Relies, Spares, p
<1>16. Counted(g) /\ Saved(g, m'.stack)
    <2>1. Top.at # "first"
        BY <1>2, TopFacts DEF Good, FrameOK, Ats
    <2> QED
        BY <1>2, <1>12, <1>14, <2>1 DEF Counted, Saved
<1>17. \A k \in 1..g.base : m'.stack[k] = m.stack[k]
    BY <1>2, <1>10, <1>12 DEF Spares
<1> QED
    BY <1>12, <1>13, <1>15, <1>16, <1>17, GoingKept

\* The address is the result.
LEMMA AddressOfKept ==
    ASSUME VInv, AddressOf
    PROVE  Values(frames', m')
<1>1. Top.fn = "lvalue" /\ m' = m /\ frames' = Below(1)
    BY LvalueValues DEF AddressOf
<1>2. Spares(m, m', Top.pn, Top.base)
    BY <1>1 DEF Spares
<1> QED
    BY <1>1, <1>2, ReturningKept

\* A pointer is read into its own register.
LEMMA PointerPlusKept ==
    ASSUME VInv, PointerPlus
    PROVE  Values(frames', m')
<1>1. /\ Top.fn = "lvalue" /\ m \in Machine /\ Top.pn \in Nat /\ Top.pn <= Top.pn
    BY LvalueValues DEF PointerPlus
<1>2. m' = IF Top.is_reference THEN Unary(m, "op_read_addr", Top.pn, Top.pn) ELSE m
    BY DEF PointerPlus
<1>3. Spares(m, m', Top.pn, Len(m.stack))
    <2>1. Spares(m, Unary(m, "op_read_addr", Top.pn, Top.pn), Top.pn, Len(m.stack))
        BY <1>1, UnarySpares
    <2>2. Spares(m, m, Top.pn, Len(m.stack))
        BY DEF Spares
    <2> QED
        BY <1>2, <2>1, <2>2
<1>4. Values(frames, m')
    BY <1>1, <1>3, LvalueStaying, LvalueNotSecond
<1> QED
    BY <1>4 DEF PointerPlus

\* The operand is scaled in the registers above.
LEMMA PointerPlusDoneKept ==
    ASSUME VInv, PointerPlusDone
    PROVE  Values(frames', m')
<1>1. /\ Top.fn = "lvalue" /\ m \in Machine /\ Top.pn \in Regs /\ Top.pn + 1 \in Regs
      /\ Top.pn + 2 \in Regs /\ m' = AddScaled(m, Top.pn, Top.var.wide)
    BY TopFacts, TopValues DEF PointerPlusDone
<1>2. Spares(m, m', Top.pn, Len(m.stack))
    <2>1. PICK p : p = Top.pn
        OBVIOUS
    <2>2. PICK s : s = Top.var.wide
        OBVIOUS
    <2>3. p \in Regs /\ p + 1 \in Regs /\ p + 2 \in Regs /\ m' = AddScaled(m, p, s)
        BY <1>1, <2>1, <2>2
    <2>4. Spares(m, AddScaled(m, p, s), p, Len(m.stack))
        BY <1>1, <2>3, AddScaledSpares
    <2> QED
        BY <2>1, <2>3, <2>4
<1>3. Values(frames, m')
    BY <1>1, <1>2, LvalueStaying, LvalueNotSecond
<1> QED
    BY <1>3 DEF PointerPlusDone

\* ++ and -- compute above the address.
LEMMA EvaluateKept ==
    ASSUME VInv, Evaluate
    PROVE  Values(frames', m')
<1> DEFINE p == Top.pn
           h == Len(m.stack)
           c == IF Top.prefix THEN Prefixed(m, p) ELSE m
<1>1. /\ Top.fn = "lvalue" /\ m \in Machine /\ p \in Nat /\ p <= p
      /\ p \in Regs /\ p + 1 \in Regs /\ p + 2 \in Regs
    BY LvalueValues DEF Evaluate
<1>2. m' = Postfixed(c, p) \/ m' = Unary(c, "op_read_addr", p, p) \/ m' = m
    BY DEF Evaluate
<1>3. c \in Machine /\ c.stack = m.stack /\ Spares(m, c, p, h) /\ Spares(m, m, p, h)
    <2>1. PICK q : q = p
        OBVIOUS
    <2>2. q \in Regs /\ q + 1 \in Regs /\ q + 2 \in Regs
        BY <1>1, <2>1
    <2>3. /\ Prefixed(m, q) \in Machine /\ Prefixed(m, q).stack = m.stack
          /\ Spares(m, Prefixed(m, q), q, h)
        BY <1>1, <2>2, PrefixedMachine, PrefixedSpares
    <2>4. Spares(m, m, p, h)
        BY DEF Spares
    <2> QED
        BY <1>1, <2>1, <2>3, <2>4
<1> HIDE DEF c
<1>4. Spares(m, m', p, h)
    <2>1. CASE m' = Postfixed(c, p)
        <3>1. PICK q : q = p
            OBVIOUS
        <3>2. Spares(c, Postfixed(c, q), q, Len(c.stack))
            BY <1>1, <1>3, <3>1, PostfixedSpares
        <3>3. Spares(c, m', p, h)
            BY <1>3, <2>1, <3>1, <3>2
        <3> HIDE DEF p, h
        <3> QED
            BY <1>3, <3>3, SparesTwice
    <2>2. CASE m' = Unary(c, "op_read_addr", p, p)
        <3> HIDE DEF p, h
        <3>1. Spares(c, m', p, h)
            BY <1>1, <1>3, <2>2, UnarySpares
        <3> QED
            BY <1>3, <3>1, SparesTwice
    <2>3. CASE m' = m
        BY <1>3, <2>3
    <2> QED
        BY <1>2, <2>1, <2>2, <2>3
<1>5. Values(frames, m')
    BY <1>1, <1>4, LvalueStaying, LvalueNotSecond
<1> QED
    BY <1>5 DEF Evaluate

\* The value is returned, perhaps negated.
LEMMA LvalueDoneKept ==
    ASSUME VInv, LvalueDone
    PROVE  Values(frames', m')
<1>1. /\ Top.fn = "lvalue" /\ m \in Machine /\ Top.pn \in Nat /\ Top.pn <= Top.pn
    BY LvalueValues DEF LvalueDone
<1>2. m' = Negated(m, Top.neg, Top.pn) /\ frames' = Below(1)
    BY DEF LvalueDone
<1>3. Spares(m, m', Top.pn, Top.base)
    BY <1>1, <1>2, NegatedSpares
<1> QED
    BY <1>1, <1>2, <1>3, ReturningKept

-----------------------------------------------------------------------------
(* p_read_expression.                                                      *)

\* Reading an operand or an operator leaves low alone.
LEMMA LowFacts ==
    ASSUME NEW f \in FrameType
    PROVE  /\ \A op, at : Following(f, op, at).low = f.low /\ Following(f, op, at).args = f.args
           /\ \A at : [f EXCEPT !.at = at].low = f.low
           /\ \A o : [f EXCEPT !.ops = o].low = f.low
           /\ \A o, at : [f EXCEPT !.ops = o, !.at = at].low = f.low
BY DEF Following, FrameType

\* So does the operand that joins args.
LEMMA WithOperandLow ==
    ASSUME IInv
    PROVE  /\ WithOperand(Top).low = Top.low
           /\ Top.at # "second" =>
                  WithOperand(Top).args = Append(Top.args, m.reg[Top.pn])
BY TopFacts DEF WithOperand, FrameType

\* What the expression on top relies on, and the registers it may use.
LEMMA ExpressionValues ==
    ASSUME VInv, Top.at \in ExpressionAts
    PROVE  /\ IInv /\ Top.fn = "expression" /\ m \in Machine /\ Top.pn \in Nat
           /\ Top.pn <= Top.pn /\ Top.pn <= Top.pn + 1 /\ Top.pn + 1 \in Nat
           /\ Top.pn \in Regs /\ Top.pn + 1 \in Regs
           /\ Top.base \in Nat /\ Len(m.stack) \in Nat /\ Top.base <= Len(m.stack)
           /\ Top \in FrameType
<1>1. IInv /\ Held(Top) \in Nat
    BY TopValues
<1>2. Top.fn = "expression"
    BY <1>1, ExpressionAt
<1>3. Len(m.stack) = Top.base + Held(Top) /\ Top.base \in Nat
    BY <1>1, TopFacts
<1> QED
    BY <1>1, <1>2, <1>3, TopFacts, SMTT(30)

\* The value of the first operand is in the register of the expression.
LEMMA FirstOperandKept ==
    ASSUME VInv, FirstOperand
    PROVE  Values(frames', m')
<1> DEFINE f == WithOperand(Top)
           p == Top.pn
<1>1. /\ IInv /\ Top.fn = "expression" /\ Top.at = "first" /\ m' = m /\ m \in Machine
      /\ p \in Regs
    BY ExpressionValues DEF FirstOperand, ExpressionAts
<1>2. /\ f \in FrameType /\ f.fn = Top.fn /\ f.pn = Top.pn /\ f.base = Top.base
    BY <1>1, WithOperandFacts
<1>3. f.low = Top.low /\ f.args = Append(Top.args, m.reg[p])
    BY <1>1, WithOperandLow
<1>4. Top.args = << >>
    BY <1>1, TopValues DEF Counted
<1>5. Len(f.args) = 1 /\ f.args[1] = m.reg[p]
    <2>1. m.reg[p] \in Nat
        BY <1>1 DEF Machine
    <2> QED
        BY <1>3, <1>4, <2>1
<1> HIDE DEF f
<1>6. CASE frames' = Append(Below(1), [f EXCEPT !.at = "end"])
    <2> DEFINE g == [f EXCEPT !.at = "end"]
    <2>1. /\ g \in FrameType /\ g.fn = f.fn /\ g.at = "end" /\ g.pn = f.pn
          /\ g.base = f.base
        BY <1>2, PlacedFacts DEF ExpressionAts
    <2>2. g.low = f.low
        BY <1>2, LowFacts
    <2> HIDE DEF g
    <2>3. Spares(m, m, Top.pn, Top.base)
        BY DEF Spares
    <2>4. g.at \notin {"first", "second"}
        BY <2>1
    <2>5. Values(Append(Below(1), g), m)
        BY <1>1, <1>2, <1>3, <2>1, <2>2, <2>3, <2>4, ExpressionKept
    <2> QED
        BY <1>1, <1>6, <2>5 DEF g
<1>7. CASE \E op \in BinaryOps : frames' = Append(Below(1), Following(f, op, "second"))
    <2>1. PICK op \in BinaryOps : frames' = Append(Below(1), Following(f, op, "second"))
        BY <1>7
    <2> DEFINE g == Following(f, op, "second")
    <2>2. /\ g \in FrameType /\ g.fn = f.fn /\ g.at = "second" /\ g.pn = f.pn
          /\ g.base = f.base
        BY <1>2, FollowingFacts DEF ExpressionAts
    <2>3. g.low = f.low /\ g.args = f.args
        BY <1>2, LowFacts
    <2> HIDE DEF g
    <2>4. \A r \in Regs : r < g.pn => m.reg[r] = g.low[r]
        BY <1>1, <1>2, <1>3, <2>2, <2>3, TopValues DEF Relies
    <2>5. m.reg[g.pn] = g.args[1]
        BY <1>2, <1>5, <2>2, <2>3
    <2>6. Relies(g, m.reg)
        BY <1>1, <1>2, <2>2, <2>4, <2>5 DEF Relies
    <2>7. Counted(g) /\ Saved(g, m.stack)
        BY <1>1, <1>2, <1>5, <2>2, <2>3 DEF Counted, Saved
    <2>8. \A k \in 1..g.base : m.stack[k] = m.stack[k]
        OBVIOUS
    <2>9. g.base = Top.base /\ g.pn = Top.pn /\ g.low = Top.low
        BY <1>2, <1>3, <2>2, <2>3
    <2>10. Values(Append(Below(1), g), m)
        BY <2>2, <2>6, <2>7, <2>8, <2>9, GoingKept
    <2> QED
        BY <1>1, <2>1, <2>10 DEF g
<1> QED
    BY <1>6, <1>7 DEF FirstOperand, f

\* Two operands are combined in the register of the first, or pushed.
LEMMA SecondOperandKept ==
    ASSUME VInv, SecondOperand
    PROVE  Values(frames', m')
<1> DEFINE f == WithOperand(Top)
           p == Top.pn
           h == Top.base
<1>1. /\ IInv /\ Top.fn = "expression" /\ Top.at = "second" /\ m \in Machine
      /\ p \in Nat /\ p <= p /\ p \in Regs /\ p + 1 \in Regs
      /\ h \in Nat /\ h <= Len(m.stack) /\ Len(m.stack) \in Nat
    BY ExpressionValues DEF SecondOperand, ExpressionAts
<1>2. /\ f \in FrameType /\ f.fn = Top.fn /\ f.pn = Top.pn /\ f.base = Top.base
      /\ f.low = Top.low
    BY <1>1, WithOperandFacts, WithOperandLow
<1> HIDE DEF f
<1>3. CASE /\ m' = Apply(m, f.oprs[1], f.pn, f.pn + 1)
           /\ frames' = Append(Below(1), [f EXCEPT !.at = "end"])
    <2> DEFINE g == [f EXCEPT !.at = "end"]
    <2>1. /\ g \in FrameType /\ g.fn = f.fn /\ g.at = "end" /\ g.pn = f.pn
          /\ g.base = f.base
        BY <1>2, PlacedFacts DEF ExpressionAts
    <2>2. g.low = f.low
        BY <1>2, LowFacts
    <2> HIDE DEF g
    <2>3. Spares(m, m', Top.pn, Top.base)
        <3>1. PICK op : op = f.oprs[1]
            OBVIOUS
        <3>2. PICK s : s = f.pn + 1
            OBVIOUS
        <3>3. m' = Apply(m, op, p, s)
            BY <1>2, <1>3, <3>1, <3>2
        <3>4. Spares(m, Apply(m, op, p, s), p, h)
            BY <1>1, ApplySpares
        <3> QED
            BY <3>3, <3>4
    <2>4. g.at \notin {"first", "second"}
        BY <2>1
    <2>5. Values(Append(Below(1), g), m')
        BY <1>1, <1>2, <2>1, <2>2, <2>3, <2>4, ExpressionKept
    <2> QED
        BY <1>3, <2>5 DEF g
<1>4. CASE \E op \in BinaryOps :
              /\ m' = Push(Push(m, f.pn), f.pn + 1)
              /\ frames' = Append(Below(1),
                     [Following(f, op, "climb") EXCEPT !.ops = <<f.oprs[1]>>])
    <2>1. PICK op \in BinaryOps :
              frames' = Append(Below(1),
                     [Following(f, op, "climb") EXCEPT !.ops = <<f.oprs[1]>>])
        BY <1>4
    <2> DEFINE e == Following(f, op, "climb")
               o == <<f.oprs[1]>>
               g == [e EXCEPT !.ops = o]
               a == Push(m, p)
    <2>2. /\ e \in FrameType /\ e.fn = f.fn /\ e.at = "climb" /\ e.pn = f.pn
          /\ e.base = f.base
        BY <1>2, FollowingFacts DEF ExpressionAts
    <2>3. e.low = f.low
        BY <1>2, LowFacts
    <2>4. o \in Seq(BinaryOps)
        <3>1. Top.oprs \in Seq(BinaryOps) /\ Len(Top.oprs) > 0
            BY <1>1, TopFacts DEF FrameType, Good, FrameOK
        <3>2. f.oprs = Top.oprs
            BY <1>1, WithOperandFacts DEF f
        <3> QED
            BY <3>1, <3>2
    <2> HIDE DEF e, o
    <2>5. /\ g \in FrameType /\ g.fn = e.fn /\ g.at = e.at /\ g.pn = e.pn
          /\ g.base = e.base /\ g.low = e.low
        BY <2>2, <2>4 DEF FrameType
    <2> HIDE DEF g
    <2>6. m' = Push(a, p + 1)
        BY <1>2, <1>4
    <2>7. a \in Machine /\ Len(a.stack) = Len(m.stack) + 1 /\ Spares(m, a, p, h)
        BY <1>1, PushMachine, PushSpares
    <2> HIDE DEF a, h
    <2>8. h <= Len(a.stack)
        BY <1>1, <2>7
    <2>9. Spares(a, m', p, h)
        BY <1>1, <2>6, <2>7, <2>8, PushSpares
    <2>10. Spares(m, m', p, h)
        BY <2>7, <2>9, SparesTwice
    <2>11. g.at \notin {"first", "second"} /\ g.fn = "expression"
        BY <1>1, <1>2, <2>2, <2>5
    <2>12. g.base = Top.base /\ g.pn = Top.pn /\ g.low = Top.low
        BY <1>2, <2>2, <2>3, <2>5
    <2>13. Values(Append(Below(1), g), m')
        BY <1>1, <2>5, <2>10, <2>11, <2>12, ExpressionKept DEF h
    <2> QED
        BY <2>1, <2>13 DEF g, e, o
<1> QED
    BY <1>3, <1>4 DEF SecondOperand, f

\* Any further one is pushed.
LEMMA LaterOperandKept ==
    ASSUME VInv, LaterOperand
    PROVE  Values(frames', m')
<1> DEFINE f == WithOperand(Top)
<1>1. /\ IInv /\ Top.fn = "expression" /\ Top.at = "later" /\ m \in Machine
      /\ Top.pn \in Nat /\ Top.pn \in Regs
      /\ Top.base \in Nat /\ Top.base <= Len(m.stack)
    BY ExpressionValues DEF LaterOperand, ExpressionAts
<1>2. /\ f \in FrameType /\ f.fn = Top.fn /\ f.pn = Top.pn /\ f.base = Top.base
      /\ f.low = Top.low
    BY <1>1, WithOperandFacts, WithOperandLow
<1>3. m' = Push(m, Top.pn)
    BY <1>2 DEF LaterOperand
<1>4. Spares(m, m', Top.pn, Top.base)
    BY <1>1, <1>3, PushSpares
<1> HIDE DEF f
<1>5. CASE frames' = Append(Below(1), [f EXCEPT !.at = "unwind"])
    <2> DEFINE g == [f EXCEPT !.at = "unwind"]
    <2>1. /\ g \in FrameType /\ g.fn = f.fn /\ g.at = "unwind" /\ g.pn = f.pn
          /\ g.base = f.base
        BY <1>2, PlacedFacts DEF ExpressionAts
    <2>2. g.low = f.low
        BY <1>2, LowFacts
    <2> HIDE DEF g
    <2>3. g.at \notin {"first", "second"}
        BY <2>1
    <2>4. Values(Append(Below(1), g), m')
        BY <1>1, <1>2, <1>4, <2>1, <2>2, <2>3, ExpressionKept
    <2> QED
        BY <1>5, <2>4 DEF g
<1>6. CASE \E op \in BinaryOps : frames' = Append(Below(1), Following(f, op, "climb"))
    <2>1. PICK op \in BinaryOps : frames' = Append(Below(1), Following(f, op, "climb"))
        BY <1>6
    <2> DEFINE g == Following(f, op, "climb")
    <2>2. /\ g \in FrameType /\ g.fn = f.fn /\ g.at = "climb" /\ g.pn = f.pn
          /\ g.base = f.base
        BY <1>2, FollowingFacts DEF ExpressionAts
    <2>3. g.low = f.low
        BY <1>2, LowFacts
    <2> HIDE DEF g
    <2>4. g.at \notin {"first", "second"}
        BY <2>2
    <2>5. Values(Append(Below(1), g), m')
        BY <1>1, <1>2, <1>4, <2>2, <2>3, <2>4, ExpressionKept
    <2> QED
        BY <2>1, <2>5 DEF g
<1> QED
    BY <1>5, <1>6 DEF LaterOperand, f

\* Applying the operator on top of op_stack takes two words of the expression
\* and writes its registers.
LEMMA ApplyTopKept ==
    ASSUME VInv, pc = "apply", Len(Top.ops) > 0
    PROVE  /\ ApplyTop(Top) \in Machine
           /\ Spares(m, ApplyTop(Top), Top.pn, Top.base)
           /\ Top.base <= Len(ApplyTop(Top).stack)
           /\ Spares(m, Push(ApplyTop(Top), Top.pn), Top.pn, Top.base)
<1> DEFINE a == ApplyTop(Top)
           p == Top.pn
           h == Top.base
<1>1. IInv /\ Top.fn = "expression" /\ Top.at \in {"climb", "unwind"}
    BY ApplyFacts, TopValues
<1>2. /\ m \in Machine /\ p \in Nat /\ p \in Regs /\ p + 1 \in Regs /\ h \in Nat
      /\ Top \in FrameType /\ Len(Top.ops) \in Nat
    BY <1>1, TopFacts, SMTT(30) DEF FrameType
<1>3. a \in Machine /\ Len(a.stack) = h + (Len(Top.ops) - 1)
    BY <1>1, ApplyFacts
<1>4. Len(m.stack) = h + (Len(Top.ops) + 1)
    BY <1>1, TopFacts, HeldFacts
<1>5. Len(m.stack) > 1 /\ h + 2 <= Len(m.stack)
    BY <1>2, <1>4
<1>6. Spares(m, a, p, h)
    BY <1>2, <1>5, ApplyTopSpares
<1>7. h <= Len(a.stack)
    BY <1>2, <1>3
<1> HIDE DEF a
<1>8. Spares(a, Push(a, p), p, h)
    BY <1>2, <1>3, <1>7, PushSpares
<1> HIDE DEF p, h
<1>9. Spares(m, Push(a, p), p, h)
    BY <1>6, <1>8, SparesTwice
<1> QED
    BY <1>3, <1>6, <1>7, <1>9 DEF a, p, h

\* A stacked operator is applied.
LEMMA ApplyStackedKept ==
    ASSUME VInv, ApplyStacked
    PROVE  Values(frames', m')
<1> DEFINE g == PopOp(Top)
<1>1. pc = "apply" /\ Len(Top.ops) > 0 /\ Top.at = "climb" /\ IInv
    BY TopValues DEF ApplyStacked, AppliesFirst
<1>2. /\ Top.fn = "expression"
      /\ g \in FrameType /\ g.fn = Top.fn /\ g.at = "climb" /\ g.pn = Top.pn
      /\ g.base = Top.base
    BY <1>1, ApplyFacts
<1>3. g.low = Top.low
    BY <1>1, TopFacts, LowFacts DEF PopOp
<1>4. m' = Push(ApplyTop(Top), Top.pn) /\ frames' = Append(Below(1), g)
    BY DEF ApplyStacked
<1>5. Spares(m, m', Top.pn, Top.base)
    BY <1>1, <1>4, ApplyTopKept
<1> HIDE DEF g
<1>6. g.at \notin {"first", "second"}
    BY <1>2
<1> QED
    BY <1>2, <1>3, <1>4, <1>5, <1>6, ExpressionKept

\* An operator is stacked.
LEMMA PushOperatorKept ==
    ASSUME VInv, PushOperator
    PROVE  Values(frames', m')
<1> DEFINE op == Top.oprs[Len(Top.oprs)]
           o == Append(Top.ops, op)
           g == [Top EXCEPT !.ops = o, !.at = "later"]
<1>1. /\ IInv /\ Top.at = "climb" /\ Top.fn = "expression" /\ m' = m
      /\ Top \in FrameType
    BY ExpressionValues DEF PushOperator, ExpressionAts
<1>2. Top.ops \in Seq(BinaryOps) /\ Top.oprs \in Seq(BinaryOps) /\ Len(Top.oprs) > 0
    BY <1>1, TopFacts DEF FrameType, Good, FrameOK
<1>3. op \in BinaryOps
    BY <1>2
<1>4. frames' = Append(Below(1), g)
    BY DEF PushOperator
<1> HIDE DEF op
<1>5. o \in Seq(BinaryOps)
    BY <1>2, <1>3
<1> HIDE DEF o
<1>6. "later" \in UNION {Ats(c) : c \in Functions}
    <2>1. "later" \in Ats("expression") /\ "expression" \in Functions
        BY DEF Ats, Functions
    <2> QED
        BY <2>1
<1>7. /\ g \in FrameType /\ g.fn = Top.fn /\ g.at = "later" /\ g.pn = Top.pn
      /\ g.base = Top.base /\ g.low = Top.low
    BY <1>1, <1>5, <1>6 DEF FrameType
<1> HIDE DEF g
<1>8. Spares(m, m', Top.pn, Top.base)
    BY <1>1 DEF Spares
<1>9. g.at \notin {"first", "second"}
    BY <1>7
<1> QED
    BY <1>1, <1>4, <1>7, <1>8, <1>9, ExpressionKept

\* The operators left are applied.
LEMMA UnwindKept ==
    ASSUME VInv, Unwind
    PROVE  Values(frames', m')
<1> DEFINE h == PopOp(Top)
<1>1. pc = "apply" /\ Len(Top.ops) > 0 /\ Top.at = "unwind" /\ IInv
    BY TopValues DEF Unwind
<1>2. /\ Top.fn = "expression"
      /\ h \in FrameType /\ h.fn = Top.fn /\ h.at = "unwind" /\ h.pn = Top.pn
      /\ h.base = Top.base
    BY <1>1, ApplyFacts
<1>3. h.low = Top.low
    BY <1>1, TopFacts, LowFacts DEF PopOp
<1> HIDE DEF h
<1>4. /\ m' = ApplyTop(Top) \/ m' = Push(ApplyTop(Top), Top.pn)
      /\ \/ frames' = Append(Below(1), [h EXCEPT !.at = "end"])
         \/ frames' = Append(Below(1), h)
    BY DEF Unwind, h
<1>5. Spares(m, m', Top.pn, Top.base)
    BY <1>1, <1>4, ApplyTopKept
<1>6. CASE frames' = Append(Below(1), [h EXCEPT !.at = "end"])
    <2> DEFINE g == [h EXCEPT !.at = "end"]
    <2>1. /\ g \in FrameType /\ g.fn = h.fn /\ g.at = "end" /\ g.pn = h.pn
          /\ g.base = h.base
        BY <1>2, PlacedFacts DEF ExpressionAts
    <2>2. g.low = h.low
        BY <1>2, LowFacts
    <2> HIDE DEF g
    <2>3. g.at \notin {"first", "second"}
        BY <2>1
    <2>4. Values(Append(Below(1), g), m')
        BY <1>2, <1>3, <1>5, <2>1, <2>2, <2>3, ExpressionKept
    <2> QED
        BY <1>6, <2>4 DEF g
<1>7. CASE frames' = Append(Below(1), h)
    <2>1. h.at \notin {"first", "second"}
        BY <1>2
    <2>2. Values(Append(Below(1), h), m')
        BY <1>2, <1>3, <1>5, <2>1, ExpressionKept
    <2> QED
        BY <1>7, <2>2
<1> QED
    BY <1>4, <1>6, <1>7

\* A finished expression leaves its caller's registers, words and values.
LEMMA ExprReturns ==
    ASSUME VInv, pc = "expr_done", Len(frames) > 1
    PROVE  LET fs == Below(1) IN
           /\ IInv /\ Activations(fs) /\ fs[Len(fs)] = Caller
           /\ Values(fs, m) /\ Relies(Caller, m.reg) /\ Counted(Caller)
           /\ Saved(Caller, m.stack) /\ Passes(Caller, Top)
           /\ Caller \in FrameType /\ Good(Caller) /\ Caller.base \in Nat
           /\ Held(Caller) \in Nat /\ Len(m.stack) = Caller.base + Held(Caller)
           /\ Below(2) = SubSeq(fs, 1, Len(fs) - 1)
           /\ Len(fs) > 1 => Passes(fs[Len(fs) - 1], Caller)
<1> DEFINE fs == Below(1)
<1>1. IInv /\ Top.fn = "expression" /\ Passes(Caller, Top) /\ Len(m.stack) = Top.base
    BY TopValues, ExprDoneFacts
<1>2. /\ Activations(fs) /\ fs[Len(fs)] = Caller
      /\ Caller \in FrameType /\ Good(Caller) /\ Link(Caller, Top)
    BY <1>1, CallerFacts
<1>3. Spares(m, m, Top.pn, Top.base)
    BY DEF Spares
<1>4. Values(fs, m)
    BY <1>1, <1>3, ReturningKept
<1>5. Below(2) = SubSeq(fs, 1, Len(fs) - 1)
    BY <1>1, BelowTwo
<1> HIDE DEF fs
<1>6. Len(fs) \in Nat /\ Len(fs) > 0 /\ Len(fs) \in 1..Len(fs)
    BY <1>2 DEF Activations
<1>7. Relies(Caller, m.reg) /\ Counted(Caller) /\ Saved(Caller, m.stack)
    BY <1>2, <1>4, <1>6 DEF Values
<1>8. Len(fs) > 1 => Passes(fs[Len(fs) - 1], Caller)
    <2>1. Len(fs) > 1 => Len(fs) - 1 \in 1..(Len(fs) - 1) /\ (Len(fs) - 1) + 1 = Len(fs)
        BY <1>6
    <2> QED
        BY <1>2, <1>4, <2>1 DEF Values
<1>9. Caller.base \in Nat /\ Held(Caller) \in Nat
    BY <1>2, HeldNat DEF FrameType
<1>10. Len(m.stack) = Caller.base + Held(Caller)
    BY <1>1, <1>2 DEF Link
<1> QED
    BY <1>1, <1>2, <1>4, <1>5, <1>7, <1>8, <1>9, <1>10 DEF fs

\* A bracket passes the value on, perhaps negated.
LEMMA ReturnToParenKept ==
    ASSUME VInv, ReturnToParen
    PROVE  Values(frames', m')
<1> DEFINE fs == Below(1)
<1>1. /\ Len(frames) > 1 /\ Caller.fn = "paren" /\ pc = "expr_done"
      /\ m' = Negated(m, Caller.neg, Caller.pn) /\ frames' = Below(2)
    BY DEF ReturnToParen
<1>2. /\ IInv /\ Activations(fs) /\ fs[Len(fs)] = Caller /\ Values(fs, m)
      /\ Relies(Caller, m.reg) /\ Caller \in FrameType
      /\ Below(2) = SubSeq(fs, 1, Len(fs) - 1)
    BY <1>1, ExprReturns
<1> HIDE DEF fs
<1>3. Len(fs) > 1
    <2>1. Len(fs) \in Nat /\ Len(fs) > 0 /\ fs[1].fn = "expression"
        BY <1>2 DEF Activations
    <2>2. Len(fs) # 1
        BY <2>1, <1>1, <1>2
    <2>3. \A k \in Nat : k > 0 /\ k # 1 => k > 1
        OBVIOUS
    <2> QED
        BY <2>1, <2>2, <2>3, Zenon
<1>4. Caller.pn \in Nat /\ Caller.pn <= Caller.pn /\ m \in Machine
    BY <1>2, TopFacts DEF FrameType, Regs
<1>5. Spares(m, m', Caller.pn, Caller.base)
    BY <1>1, <1>4, NegatedSpares
<1>6. \A r \in Regs : r < Caller.pn => m'.reg[r] = Caller.low[r]
    BY <1>1, <1>2, <1>5 DEF Relies, Spares
<1>7. \A k \in 1..Caller.base : m'.stack[k] = m.stack[k]
    BY <1>5 DEF Spares
<1>8. Values(SubSeq(fs, 1, Len(fs) - 1), m')
    BY <1>2, <1>3, <1>6, <1>7, ValuesPop
<1> QED
    BY <1>1, <1>2, <1>8

\* An argument stays in the register it was read into.
LEMMA ReturnToCallKept ==
    ASSUME VInv, ReturnToCall
    PROVE  Values(frames', m')
<1> DEFINE fs == Below(1)
           n == Len(Caller.args)
           x == m.reg[Top.pn]
           a == Append(Caller.args, x)
           g == [Caller EXCEPT !.args = a]
<1>1. /\ Len(frames) > 1 /\ Caller.fn = "call" /\ pc = "expr_done"
      /\ frames' = Append(Below(2), g) /\ m' = m
    BY DEF ReturnToCall
<1>2. /\ IInv /\ Activations(fs) /\ fs[Len(fs)] = Caller /\ Values(fs, m)
      /\ Relies(Caller, m.reg) /\ Caller \in FrameType /\ Saved(Caller, m.stack)
      /\ Good(Caller) /\ Passes(Caller, Top)
      /\ Below(2) = SubSeq(fs, 1, Len(fs) - 1)
      /\ Len(fs) > 1 => Passes(fs[Len(fs) - 1], Caller)
    BY <1>1, ExprReturns
<1>3. /\ Top.pn = n /\ Top.pn + 3 <= MaxReg /\ Top.pn \in Nat /\ MaxReg \in Nat
      /\ n \in Nat /\ Caller.args \in Seq(Nat)
    BY <1>1, <1>2, TopFacts, BoundsAssumption DEF Passes, Given, Good, FrameOK, FrameType
<1>4. x \in Nat
    BY <1>2, TopFacts DEF Machine
<1>5. /\ a \in Seq(Nat) /\ Len(a) = n + 1 /\ a[n + 1] = x
      /\ \A k \in 1..n : a[k] = Caller.args[k]
    BY <1>3, <1>4
<1> HIDE DEF a
<1>6. /\ g \in FrameType /\ g.fn = Caller.fn /\ g.at = Caller.at /\ g.pn = Caller.pn
      /\ g.base = Caller.base /\ g.low = Caller.low /\ g.args = a
    BY <1>2, <1>5 DEF FrameType
<1> HIDE DEF g, fs
<1>7. Caller.at \in {"direct", "pointer"}
    BY <1>1, <1>2 DEF Good, FrameOK, Ats
<1>8. Counted(g)
    <2>1. Len(g.args) + 2 <= MaxReg
        BY <1>3, <1>5, <1>6
    <2> QED
        BY <1>6, <1>7, <2>1 DEF Counted
<1>9. Relies(g, m.reg)
    <2>1. ASSUME NEW k \in 1..(n + 1)
          PROVE  m.reg[k - 1] = a[k]
        <3>1. CASE k = n + 1
            <4>1. k - 1 = Top.pn
                BY <1>3, <3>1
            <4> QED
                BY <1>5, <3>1, <4>1
        <3>2. CASE k \in 1..n
            BY <1>1, <1>2, <1>5, <3>2 DEF Relies
        <3> QED
            BY <1>3, <3>1, <3>2
    <2> QED
        BY <1>1, <1>5, <1>6, <1>7, <2>1 DEF Relies
<1>10. Saved(g, m.stack)
    BY <1>2, <1>6 DEF Saved
<1>11. Len(fs) > 1 => Passes(fs[Len(fs) - 1], g)
    BY <1>2, <1>6 DEF Passes
<1>12. g.base = fs[Len(fs)].base /\ \A k \in 1..g.base : m.stack[k] = m.stack[k]
    BY <1>2, <1>6
<1>13. Values(Append(SubSeq(fs, 1, Len(fs) - 1), g), m)
    BY <1>2, <1>6, <1>8, <1>9, <1>10, <1>11, <1>12, ValuesReplace
<1> QED
    BY <1>1, <1>2, <1>13

\* The index is added to the address in the register below it.
LEMMA ReturnToIndexKept ==
    ASSUME VInv, ReturnToIndex
    PROVE  Values(frames', m')
<1> DEFINE fs == Below(1)
           p == Caller.pn
           g == [Caller EXCEPT !.is_reference = TRUE, !.indexed = TRUE]
<1>1. /\ Len(frames) > 1 /\ Caller.fn = "lvalue" /\ pc = "expr_done"
      /\ frames' = Append(Below(2), g)
      /\ m' = AddScaled(m, p, WideElement(Caller.var))
    BY DEF ReturnToIndex
<1>2. /\ IInv /\ Activations(fs) /\ fs[Len(fs)] = Caller /\ Values(fs, m)
      /\ Relies(Caller, m.reg) /\ Caller \in FrameType /\ Good(Caller)
      /\ Below(2) = SubSeq(fs, 1, Len(fs) - 1)
      /\ Len(fs) > 1 => Passes(fs[Len(fs) - 1], Caller)
    BY <1>1, ExprReturns
<1>3. /\ g \in FrameType /\ g.fn = Caller.fn /\ g.at = Caller.at /\ g.pn = p
      /\ g.base = Caller.base /\ g.low = Caller.low /\ g.args = Caller.args
    BY <1>2 DEF FrameType
<1> HIDE DEF g, fs
<1>4. p \in Regs /\ p + 1 \in Regs /\ p + 2 \in Regs /\ m \in Machine
    <2>1. p \in Regs /\ p + 3 <= MaxReg /\ m \in Machine
        BY <1>2, TopFacts DEF FrameType, Good, FrameOK
    <2> QED
        BY <2>1, BoundsAssumption DEF Regs
<1>5. Spares(m, m', p, Caller.base)
    <2>1. PICK q : q = p
        OBVIOUS
    <2>2. PICK s : s = WideElement(Caller.var)
        OBVIOUS
    <2>3. q \in Regs /\ q + 1 \in Regs /\ q + 2 \in Regs
        BY <1>4, <2>1
    <2>4. Spares(m, AddScaled(m, q, s), q, Caller.base)
        BY <1>4, <2>3, AddScaledSpares
    <2> QED
        BY <1>1, <2>1, <2>2, <2>4
<1>6. Caller.at \in {"value", "address", "deref"}
    BY <1>1, <1>2 DEF Good, FrameOK, Ats
<1>7. Relies(g, m'.reg) /\ Counted(g) /\ Saved(g, m'.stack)
    BY <1>1, <1>2, <1>3, <1>5, <1>6 DEF Relies, Counted, Saved, Spares
<1>8. Len(fs) > 1 => Passes(fs[Len(fs) - 1], g)
    BY <1>2, <1>3 DEF Passes
<1>9. g.base = fs[Len(fs)].base /\ \A k \in 1..g.base : m'.stack[k] = m.stack[k]
    BY <1>2, <1>3, <1>5 DEF Spares
<1>10. Values(Append(SubSeq(fs, 1, Len(fs) - 1), g), m')
    BY <1>2, <1>3, <1>7, <1>8, <1>9, ValuesReplace
<1> QED
    BY <1>1, <1>2, <1>10

-----------------------------------------------------------------------------
(* The invariant of the specification.                                     *)

\* The statement's expression starts on registers nobody has written.
LEMMA ValuesInitially ==
    ASSUME Init
    PROVE  VInv
<1>1. IInv
    BY Initially
<1>2. PICK pn \in StartRegs :
          frames = << Frame(Machine0, "expression", "first", pn, FALSE) >>
    BY DEF Init
<1> DEFINE f == Frame(Machine0, "expression", "first", pn, FALSE)
<1>3. m = Machine0
    BY DEF Init
<1>4. Relies(f, Machine0.reg) /\ Counted(f) /\ Saved(f, Machine0.stack)
    BY NewExpressionRelies
<1> HIDE DEF f
<1>5. Values(<<f>>, Machine0)
    BY <1>4 DEF Values, Stacked
<1>6. frames = <<f>>
    BY <1>2 DEF f
<1> QED
    BY <1>1, <1>3, <1>5, <1>6 DEF VInv

\* Every step keeps what the activations rely on.
LEMMA ValuesStep ==
    ASSUME VInv, Next
    PROVE  Values(frames', m')
<1>1. CASE Operand
    <2>1. CASE Reject
        BY <2>1, TopValues DEF Reject
    <2> QED
        BY <1>1, <2>1, OperandConstantKept, OperandFunctionNameKept, OperandNotKept,
           OperandParenKept, OperandLvalueKept, OperandStarKept, OperandCallKept,
           NotDoneKept
        DEF Operand
<1>2. CASE Call
    BY <1>2, NextArgumentKept, EndCallKept, PointerCallKept DEF Call
<1>3. CASE Lvalue
    BY <1>3, StartIndexKept, MemberKept, AddressOfKept, PointerPlusKept,
       PointerPlusDoneKept, EvaluateKept, LvalueDoneKept
    DEF Lvalue
<1>4. CASE Expr
    BY <1>4, FirstOperandKept, SecondOperandKept, LaterOperandKept, ApplyStackedKept,
       PushOperatorKept, UnwindKept, ReturnToParenKept, ReturnToCallKept,
       ReturnToIndexKept
    DEF Expr
<1>5. CASE Terminating
    BY <1>5, TopValues DEF Terminating, vars
<1> QED
    BY <1>1, <1>2, <1>3, <1>4, <1>5 DEF Next

\* So it holds of every reachable state.
LEMMA ValuesInvariance == Spec => []VInv
<1>1. Init => VInv
    BY ValuesInitially
<1>2. VInv /\ [Next]_vars => VInv'
    <2>1. SUFFICES ASSUME VInv, [Next]_vars
                   PROVE  VInv'
        OBVIOUS
    <2>2. IInv'
        BY <2>1, Inductive, TopValues
    <2>3. CASE Next
        BY <2>1, <2>2, <2>3, ValuesStep DEF VInv
    <2>4. CASE UNCHANGED vars
        BY <2>1, <2>2, <2>4 DEF VInv, vars, Values
    <2> QED
        BY <2>1, <2>3, <2>4
<1> QED
    BY <1>1, <1>2, PTL DEF Spec

-----------------------------------------------------------------------------
(* The properties.                                                         *)

\* The value of an expression is left in its register with all registers
\* below it as they were: whatever partial results the enclosing expressions
\* keep there survive every operand, index, bracket and call.
THEOREM RegistersKept == Spec => []RegistersPreserved
<1>1. VInv => RegistersPreserved
    <2>1. SUFFICES ASSUME VInv, pc = "expr_done"
                   PROVE  \A r \in Regs : r < Top.pn => m.reg[r] = Top.low[r]
        BY DEF RegistersPreserved
    <2>2. Top.fn = "expression" /\ Relies(Top, m.reg)
        BY <2>1, ExprDoneFacts, TopValues
    <2> QED
        BY <2>2 DEF Relies
<1> QED
    BY <1>1, ValuesInvariance, PTL

\* When the second operand has been read, the first is still in its register.
THEOREM OperandsSurvive == Spec => []FirstOperandSurvives
<1>1. VInv => FirstOperandSurvives
    BY TopValues DEF FirstOperandSurvives, Relies
<1> QED
    BY <1>1, ValuesInvariance, PTL

\* What a call through a pointer pops is the word of the variable.
LEMMA AddressPopped ==
    ASSUME NEW mc \in Machine, Len(mc.stack) > 0, NEW x \in Regs
    PROVE  LET c == Pop(mc, x) IN
           /\ c.reg[x] = mc.stack[Len(mc.stack)]
           /\ \A r \in Regs : r # x => c.reg[r] = mc.reg[r]
           /\ \A k \in 1..(Len(mc.stack) - 1) : c.stack[k] = mc.stack[k]
<1> DEFINE n == Len(mc.stack)
           c == Pop(mc, x)
<1>1. mc.reg \in [Regs -> Nat] /\ mc.stack \in Seq(Nat) /\ n \in Nat
    BY DEF Machine
<1>2. /\ c.reg = [mc.reg EXCEPT ![x] = mc.stack[n]]
      /\ c.stack = SubSeq(mc.stack, 1, n - 1)
    BY DEF Pop, Machine
<1>3. \A k \in 1..(n - 1) : SubSeq(mc.stack, 1, n - 1)[k] = mc.stack[k]
    BY <1>1
<1> QED
    BY <1>1, <1>2, <1>3

\* On the machine that executes a call the arguments are in the registers of
\* the convention, but for argument MAX_PARAMS of a call through a pointer,
\* whose register holds the address; that address is the value the variable
\* held, and the registers in use are on the stack in order.
THEOREM CallsPrepared == Spec => []ArgumentsInPlace
<1>1. VInv => ArgumentsInPlace
    <2>1. SUFFICES ASSUME VInv, pc = "params"
                   PROVE  ArgumentsInPlace
        BY DEF ArgumentsInPlace
    <2> DEFINE n == Len(m.stack)
    <2>2. /\ Top.fn = "call" /\ Relies(Top, m.reg) /\ Saved(Top, m.stack) /\ Counted(Top)
          /\ n = Top.base + Held(Top) /\ Top.base \in Nat /\ Top.pn \in Nat
          /\ m \in Machine /\ Top.at \in {"direct", "pointer"} /\ Top.args \in Seq(Nat)
        BY <2>1, TopFacts, TopValues DEF AtPoint, Good, FrameOK, Ats, FrameType
    <2>3. /\ \A k \in 1..Len(Top.args) : m.reg[k - 1] = Top.args[k]
          /\ \A r \in Regs : r < Top.pn => m.stack[Top.base + 1 + r] = Top.low[r]
          /\ \A k \in 1..Len(Top.args) : k - 1 \in Regs
        <3>1. Len(Top.args) + 2 <= MaxReg /\ Len(Top.args) \in Nat
            BY <2>2 DEF Counted
        <3>2. \A k \in 1..Len(Top.args) : k - 1 \in Regs
            BY <3>1, BoundsAssumption DEF Regs
        <3> QED
            BY <2>2, <3>2 DEF Relies, Saved
    <2>4. CASE Top.at = "direct"
        <3>1. AtCall(Top) = m
            BY <2>4 DEF AtCall
        <3> QED
            BY <2>3, <2>4, <3>1 DEF ArgumentsInPlace
    <2>5. CASE Top.at = "pointer"
        <3>1. n = Top.base + 1 + Top.pn /\ n > 0 /\ m.stack[n] = Top.low[Top.pn]
            <4> HIDE DEF n
            <4>1. Held(Top) = Top.pn + 1
                BY <2>5 DEF Held
            <4>2. m.stack[Top.base + 1 + Top.pn] = Top.low[Top.pn]
                BY <2>2, <2>5 DEF Saved
            <4>3. PICK b \in Nat, q \in Nat : b = Top.base /\ q = Top.pn
                BY <2>2
            <4>4. n = b + (q + 1)
                BY <2>2, <4>1, <4>3
            <4>5. n = b + 1 + q /\ n > 0
                BY <4>4
            <4> QED
                BY <4>2, <4>3, <4>5
        <3>2. PICK x \in Regs : x = MAX_PARAMS - 1
            BY BoundsAssumption DEF Regs
        <3>3. PICK c : c = Pop(m, x)
            OBVIOUS
        <3>4. AtCall(Top) = c
            BY <2>5, <3>2, <3>3 DEF AtCall
        <3>5. /\ c.reg[x] = m.stack[n]
              /\ \A r \in Regs : r # x => c.reg[r] = m.reg[r]
              /\ \A k \in 1..(n - 1) : c.stack[k] = m.stack[k]
            BY <2>2, <3>1, <3>3, AddressPopped
        <3>6. \A k \in 1..Len(Top.args) : k < MAX_PARAMS => c.reg[k - 1] = Top.args[k]
            BY <2>3, <3>2, <3>5, BoundsAssumption
        <3>7. ASSUME NEW r \in Regs, r < Top.pn
              PROVE  c.stack[Top.base + 1 + r] = Top.low[r]
            <4> HIDE DEF n
            <4>1. r \in Nat
                BY DEF Regs
            <4>2. Top.base + 1 + r \in 1..(n - 1)
                <5>1. PICK b \in Nat, q \in Nat : b = Top.base /\ q = Top.pn
                    BY <2>2
                <5>2. n = b + 1 + q
                    BY <3>1, <5>1
                <5>3. r < q
                    BY <3>7, <5>1
                <5>4. b + 1 + r \in 1..(n - 1)
                    BY <4>1, <5>2, <5>3
                <5> QED
                    BY <5>1, <5>4
            <4>3. c.stack[Top.base + 1 + r] = m.stack[Top.base + 1 + r]
                BY <3>5, <4>2
            <4>4. m.stack[Top.base + 1 + r] = Top.low[r]
                BY <2>3, <3>7
            <4> QED
                BY <4>3, <4>4
        <3> QED
            BY <2>5, <3>1, <3>2, <3>4, <3>5, <3>6, <3>7 DEF ArgumentsInPlace
    <2> QED
        BY <2>2, <2>4, <2>5
<1> QED
    BY <1>1, ValuesInvariance, PTL

-----------------------------------------------------------------------------
(* Trees of operators.                                                     *)

\* Operators i..k and the operands around them have been applied, to v.
Spans(args, oprs, term, i, k, v) ==
    \E node \in [i..k -> 1..Len(term)] : Computes(args, oprs, term, node, i, k, v)

\* An operand by itself.
LEMMA LeafSpans ==
    ASSUME NEW args, NEW oprs, NEW term, NEW i \in Nat
    PROVE  Spans(args, oprs, term, i, i - 1, args[i])
<1> DEFINE node == [x \in i..(i - 1) |-> 1]
<1>1. i..(i - 1) = {}
    OBVIOUS
<1>2. node \in [i..(i - 1) -> 1..Len(term)]
    BY <1>1
<1>3. Computes(args, oprs, term, node, i, i - 1, args[i])
    BY <1>1 DEF Computes, IsOperand
<1> QED
    BY <1>2, <1>3 DEF Spans

\* Terms are added, and the first e operands and operators stay.
Extends(args, oprs, term, e, brgs, bprs, berm) ==
    /\ \A h \in 1..e : brgs[h] = args[h] /\ bprs[h] = oprs[h]
    /\ Len(term) \in Nat /\ Len(berm) \in Nat /\ Len(term) <= Len(berm)
    /\ \A t \in 1..Len(term) : berm[t] = term[t]

\* What has been computed stays so.
LEMMA SpansAgain ==
    ASSUME NEW args, NEW oprs, NEW term, NEW e \in Nat, NEW brgs, NEW bprs, NEW berm,
           Extends(args, oprs, term, e, brgs, bprs, berm),
           NEW i \in Nat, NEW k \in Int, 0 < i, i <= k + 1, k + 1 <= e, NEW v,
           Spans(args, oprs, term, i, k, v)
    PROVE  Spans(brgs, bprs, berm, i, k, v)
<1>0. /\ \A h \in i..(k + 1) : brgs[h] = args[h]
      /\ \A h \in i..k : bprs[h] = oprs[h]
      /\ Len(term) \in Nat /\ Len(berm) \in Nat /\ Len(term) <= Len(berm)
      /\ \A t \in 1..Len(term) : berm[t] = term[t]
    <2>1. \A h \in i..(k + 1) : h \in 1..e
        OBVIOUS
    <2>2. \A h \in i..k : h \in 1..e
        OBVIOUS
    <2> QED
        BY <2>1, <2>2 DEF Extends
<1>1. PICK node \in [i..k -> 1..Len(term)] : Computes(args, oprs, term, node, i, k, v)
    BY DEF Spans
<1>2. node \in [i..k -> 1..Len(berm)]
    BY <1>0
<1>3. IsOperand(brgs, bprs, node, i..k, i, v)
    <2>1. i \in i..(k + 1)
        OBVIOUS
    <2>2. IsOperand(args, oprs, node, i..k, i, v)
        BY <1>1 DEF Computes
    <2>3. brgs[i] = args[i]
        BY <1>0, <2>1
    <2> QED
        BY <1>0, <2>2, <2>3 DEF IsOperand, AppliedLast
<1>4. ASSUME NEW j \in i..k
      PROVE  /\ berm[node[j]].op = bprs[j]
             /\ IsOperand(brgs, bprs, node, LeftOperand(bprs, i, j), j, berm[node[j]].l)
             /\ IsOperand(brgs, bprs, node, RightOperand(bprs, j, k), j + 1, berm[node[j]].r)
    <2>1. node[j] \in 1..Len(term)
        OBVIOUS
    <2>2. berm[node[j]] = term[node[j]]
        BY <1>0, <2>1
    <2>3. j \in i..(k + 1) /\ j + 1 \in i..(k + 1) /\ j \in Int
        OBVIOUS
    <2>13. bprs[j] = oprs[j]
        BY <1>0
    <2>4. LeftOperand(bprs, i, j) = LeftOperand(oprs, i, j)
        <3>1. \A h \in i..(j - 1) : \A g \in h..(j - 1) : bprs[g] = oprs[g]
            <4>1. \A h \in i..(j - 1) : \A g \in h..(j - 1) : g \in i..k
                OBVIOUS
            <4> QED
                BY <1>0, <4>1
        <3> QED
            BY <3>1, <2>13, Zenon DEF LeftOperand
    <2>5. RightOperand(bprs, j, k) = RightOperand(oprs, j, k)
        <3>1. \A h \in (j + 1)..k : \A g \in (j + 1)..h : bprs[g] = oprs[g]
            <4>1. \A h \in (j + 1)..k : \A g \in (j + 1)..h : g \in i..k
                OBVIOUS
            <4> QED
                BY <1>0, <4>1
        <3> QED
            BY <3>1, <2>13, Zenon DEF RightOperand
    <2>6. LeftOperand(oprs, i, j) \subseteq i..k /\ RightOperand(oprs, j, k) \subseteq i..k
        <3>1. i..(j - 1) \subseteq i..k /\ (j + 1)..k \subseteq i..k
            OBVIOUS
        <3> QED
            BY <3>1, Zenon DEF LeftOperand, RightOperand
    <2>7. /\ term[node[j]].op = oprs[j]
          /\ IsOperand(args, oprs, node, LeftOperand(oprs, i, j), j, term[node[j]].l)
          /\ IsOperand(args, oprs, node, RightOperand(oprs, j, k), j + 1, term[node[j]].r)
        BY <1>1 DEF Computes
    <2>8. PICK L : L = LeftOperand(oprs, i, j)
        OBVIOUS
    <2>9. PICK R : R = RightOperand(oprs, j, k)
        OBVIOUS
    <2>10. brgs[j] = args[j] /\ brgs[j + 1] = args[j + 1]
        BY <1>0, <2>3
    <2>11. IsOperand(brgs, bprs, node, L, j, term[node[j]].l)
        <3>1. IsOperand(args, oprs, node, L, j, term[node[j]].l) /\ L \subseteq i..k
            BY <2>6, <2>7, <2>8
        <3>2. \A h \in L : bprs[h] = oprs[h]
            BY <1>0, <3>1
        <3> QED
            BY <2>10, <3>1, <3>2 DEF IsOperand, AppliedLast
    <2>12. IsOperand(brgs, bprs, node, R, j + 1, term[node[j]].r)
        <3>1. IsOperand(args, oprs, node, R, j + 1, term[node[j]].r) /\ R \subseteq i..k
            BY <2>6, <2>7, <2>9
        <3>2. \A h \in R : bprs[h] = oprs[h]
            BY <1>0, <3>1
        <3> QED
            BY <2>10, <3>1, <3>2 DEF IsOperand, AppliedLast
    <2> QED
        BY <2>2, <2>4, <2>5, <2>7, <2>8, <2>9, <2>11, <2>12, <2>13
<1>5. Computes(brgs, bprs, berm, node, i, k, v)
    BY <1>3, <1>4 DEF Computes
<1> QED
    BY <1>2, <1>5 DEF Spans

\* An operator that is applied after those around it joins what they compute.
LEMMA SpansJoined ==
    ASSUME NEW args, NEW oprs, NEW term, Len(term) \in Nat,
           NEW i \in Nat, NEW j \in Nat, NEW k \in Nat, i <= j, j <= k,
           NEW v \in 1..Len(term),
           term[v].op = oprs[j],
           Spans(args, oprs, term, i, j - 1, term[v].l),
           Spans(args, oprs, term, j + 1, k, term[v].r),
           \A h \in i..(j - 1) :
               p_get_operator_priority(oprs[h]) >= p_get_operator_priority(oprs[j]),
           \A h \in (j + 1)..k :
               p_get_operator_priority(oprs[h]) > p_get_operator_priority(oprs[j])
    PROVE  Spans(args, oprs, term, i, k, v)
<1> DEFINE P(h) == p_get_operator_priority(oprs[h])
<1>0. \A h : P(h) \in Nat
    BY PriorityRange
<1>1. PICK a \in [i..(j - 1) -> 1..Len(term)] :
          Computes(args, oprs, term, a, i, j - 1, term[v].l)
    BY DEF Spans
<1>2. PICK b \in [(j + 1)..k -> 1..Len(term)] :
          Computes(args, oprs, term, b, j + 1, k, term[v].r)
    BY DEF Spans
<1> DEFINE node == [x \in i..k |-> IF x < j THEN a[x] ELSE IF x = j THEN v ELSE b[x]]
<1>3. /\ node \in [i..k -> 1..Len(term)] /\ node[j] = v
      /\ \A x \in i..(j - 1) : node[x] = a[x]
      /\ \A x \in (j + 1)..k : node[x] = b[x]
    <2>1. ASSUME NEW x \in i..k
          PROVE  (IF x < j THEN a[x] ELSE IF x = j THEN v ELSE b[x]) \in 1..Len(term)
        <3>1. x < j \/ x = j \/ x > j
            OBVIOUS
        <3>2. CASE x < j
            BY <3>2
        <3>3. CASE x > j
            <4>1. x \in (j + 1)..k
                BY <3>3
            <4> QED
                BY <3>3, <4>1
        <3> QED
            BY <3>1, <3>2, <3>3
    <2>2. j \in i..k /\ (\A x \in i..(j - 1) : x \in i..k /\ x < j)
          /\ \A x \in (j + 1)..k : x \in i..k /\ ~(x < j) /\ x # j
        OBVIOUS
    <2>3. node \in [i..k -> 1..Len(term)]
        BY <2>1
    <2> QED
        BY <2>2, <2>3
<1> HIDE DEF node
<1> HIDE DEF P
<1>4. \A h \in i..(j - 1) : P(h) >= P(j)
    BY DEF P
<1>5. \A h \in (j + 1)..k : P(h) > P(j)
    BY DEF P
<1>6. IsOperand(args, oprs, node, i..k, i, v)
    <2>1. j \in i..k
        OBVIOUS
    <2>2. ASSUME NEW g \in i..k
          PROVE  P(j) < P(g) \/ (P(j) = P(g) /\ g <= j)
        <3>1. g \in i..(j - 1) \/ g = j \/ g \in (j + 1)..k
            OBVIOUS
        <3>2. P(g) \in Nat /\ P(j) \in Nat
            BY <1>0
        <3> QED
            BY <1>4, <1>5, <3>1, <3>2
    <2>3. AppliedLast(oprs, i..k, j)
        BY <2>1, <2>2 DEF AppliedLast, P
    <2> QED
        BY <1>3, <2>1, <2>3 DEF IsOperand
<1>7. /\ IsOperand(args, oprs, node, LeftOperand(oprs, i, j), j, term[v].l)
      /\ IsOperand(args, oprs, node, RightOperand(oprs, j, k), j + 1, term[v].r)
    <2>1. LeftOperand(oprs, i, j) = i..(j - 1)
        <3>1. \A h \in i..(j - 1) : \A g \in h..(j - 1) : g \in i..(j - 1)
            OBVIOUS
        <3>2. \A h \in i..(j - 1) : \A g \in h..(j - 1) : P(g) >= P(j)
            BY <1>4, <3>1
        <3> QED
            BY <3>2 DEF LeftOperand, P
    <2>2. RightOperand(oprs, j, k) = (j + 1)..k
        <3>1. \A h \in (j + 1)..k : \A g \in (j + 1)..h : g \in (j + 1)..k
            OBVIOUS
        <3>2. \A h \in (j + 1)..k : \A g \in (j + 1)..h : P(g) > P(j)
            BY <1>5, <3>1
        <3> QED
            BY <3>2 DEF RightOperand, P
    <2>3. PICK L : L = i..(j - 1)
        OBVIOUS
    <2>4. PICK R : R = (j + 1)..k
        OBVIOUS
    <2>6. IsOperand(args, oprs, b, R, j + 1, term[v].r)
        BY <1>2, <2>4 DEF Computes
    <2>7. \A h \in L : node[h] = a[h]
        BY <1>3, <2>3
    <2>8. \A h \in R : node[h] = b[h]
        BY <1>3, <2>4
    <2>9. IsOperand(args, oprs, a, L, i, term[v].l)
        BY <1>1, <2>3 DEF Computes
    <2>10. L = {} => args[j] = args[i]
        BY <2>3
    <2>11. IsOperand(args, oprs, node, L, j, term[v].l)
        BY <2>7, <2>9, <2>10 DEF IsOperand, AppliedLast
    <2>12. IsOperand(args, oprs, node, R, j + 1, term[v].r)
        BY <2>6, <2>8 DEF IsOperand, AppliedLast
    <2> QED
        BY <2>1, <2>2, <2>3, <2>4, <2>11, <2>12
<1>8. ASSUME NEW x \in i..(j - 1)
      PROVE  /\ term[node[x]].op = oprs[x]
             /\ IsOperand(args, oprs, node, LeftOperand(oprs, i, x), x, term[node[x]].l)
             /\ IsOperand(args, oprs, node, RightOperand(oprs, x, k), x + 1, term[node[x]].r)
    <2>1. /\ term[a[x]].op = oprs[x] /\ node[x] = a[x]
          /\ IsOperand(args, oprs, a, LeftOperand(oprs, i, x), x, term[a[x]].l)
          /\ IsOperand(args, oprs, a, RightOperand(oprs, x, j - 1), x + 1, term[a[x]].r)
        BY <1>1, <1>3 DEF Computes
    <2>2. RightOperand(oprs, x, k) = RightOperand(oprs, x, j - 1)
        <3>1. ASSUME NEW h \in (x + 1)..k, \A g \in (x + 1)..h : P(g) > P(x)
              PROVE  h \in (x + 1)..(j - 1)
            <4>1. SUFFICES ASSUME h >= j
                           PROVE  FALSE
                OBVIOUS
            <4>2. j \in (x + 1)..h
                BY <4>1
            <4>3. P(j) > P(x) /\ P(x) >= P(j)
                BY <1>4, <3>1, <4>2
            <4> QED
                BY <1>0, <4>3
        <3>2. \A h \in (x + 1)..(j - 1) : h \in (x + 1)..k
            OBVIOUS
        <3> QED
            BY <3>1, <3>2 DEF RightOperand, P
    <2>3. PICK L : L = LeftOperand(oprs, i, x)
        OBVIOUS
    <2>4. PICK R : R = RightOperand(oprs, x, j - 1)
        OBVIOUS
    <2>5. L \subseteq i..(j - 1) /\ R \subseteq i..(j - 1)
        <3>1. i..(x - 1) \subseteq i..(j - 1) /\ (x + 1)..(j - 1) \subseteq i..(j - 1)
            OBVIOUS
        <3> QED
            BY <2>3, <2>4, <3>1, Zenon DEF LeftOperand, RightOperand
    <2>6. \A h \in L \cup R : node[h] = a[h]
        BY <1>3, <2>5
    <2>7. /\ IsOperand(args, oprs, a, L, x, term[a[x]].l)
          /\ IsOperand(args, oprs, a, R, x + 1, term[a[x]].r)
        BY <2>1, <2>3, <2>4
    <2>8. IsOperand(args, oprs, node, L, x, term[a[x]].l)
        BY <2>6, <2>7 DEF IsOperand, AppliedLast
    <2>9. IsOperand(args, oprs, node, R, x + 1, term[a[x]].r)
        BY <2>6, <2>7 DEF IsOperand, AppliedLast
    <2> QED
        BY <2>1, <2>2, <2>3, <2>4, <2>8, <2>9
<1>9. ASSUME NEW x \in (j + 1)..k
      PROVE  /\ term[node[x]].op = oprs[x]
             /\ IsOperand(args, oprs, node, LeftOperand(oprs, i, x), x, term[node[x]].l)
             /\ IsOperand(args, oprs, node, RightOperand(oprs, x, k), x + 1, term[node[x]].r)
    <2>1. /\ term[b[x]].op = oprs[x] /\ node[x] = b[x]
          /\ IsOperand(args, oprs, b, LeftOperand(oprs, j + 1, x), x, term[b[x]].l)
          /\ IsOperand(args, oprs, b, RightOperand(oprs, x, k), x + 1, term[b[x]].r)
        BY <1>2, <1>3 DEF Computes
    <2>2. LeftOperand(oprs, i, x) = LeftOperand(oprs, j + 1, x)
        <3>1. ASSUME NEW h \in i..(x - 1), \A g \in h..(x - 1) : P(g) >= P(x)
              PROVE  h \in (j + 1)..(x - 1)
            <4>1. SUFFICES ASSUME h <= j
                           PROVE  FALSE
                OBVIOUS
            <4>2. j \in h..(x - 1)
                BY <4>1
            <4>3. P(j) >= P(x) /\ P(x) > P(j)
                BY <1>5, <3>1, <4>2
            <4> QED
                BY <1>0, <4>3
        <3>2. \A h \in (j + 1)..(x - 1) : h \in i..(x - 1)
            OBVIOUS
        <3> QED
            BY <3>1, <3>2 DEF LeftOperand, P
    <2>3. PICK L : L = LeftOperand(oprs, j + 1, x)
        OBVIOUS
    <2>4. PICK R : R = RightOperand(oprs, x, k)
        OBVIOUS
    <2>5. L \subseteq (j + 1)..k /\ R \subseteq (j + 1)..k
        <3>1. (j + 1)..(x - 1) \subseteq (j + 1)..k /\ (x + 1)..k \subseteq (j + 1)..k
            OBVIOUS
        <3> QED
            BY <2>3, <2>4, <3>1, Zenon DEF LeftOperand, RightOperand
    <2>6. \A h \in L \cup R : node[h] = b[h]
        BY <1>3, <2>5
    <2>7. /\ IsOperand(args, oprs, b, L, x, term[b[x]].l)
          /\ IsOperand(args, oprs, b, R, x + 1, term[b[x]].r)
        BY <2>1, <2>3, <2>4
    <2>8. IsOperand(args, oprs, node, L, x, term[b[x]].l)
        BY <2>6, <2>7 DEF IsOperand, AppliedLast
    <2>9. IsOperand(args, oprs, node, R, x + 1, term[b[x]].r)
        BY <2>6, <2>7 DEF IsOperand, AppliedLast
    <2> QED
        BY <2>1, <2>2, <2>3, <2>4, <2>8, <2>9
<1>10. ASSUME NEW x \in i..k
       PROVE  /\ term[node[x]].op = oprs[x]
              /\ IsOperand(args, oprs, node, LeftOperand(oprs, i, x), x, term[node[x]].l)
              /\ IsOperand(args, oprs, node, RightOperand(oprs, x, k), x + 1, term[node[x]].r)
    <2>1. x \in i..(j - 1) \/ x = j \/ x \in (j + 1)..k
        OBVIOUS
    <2> QED
        BY <1>3, <1>7, <1>8, <1>9, <2>1
<1>11. Computes(args, oprs, term, node, i, k, v)
    BY <1>6, <1>10 DEF Computes
<1> QED
    BY <1>3, <1>11 DEF Spans

-----------------------------------------------------------------------------
(* What is on op_stack and on the stack of the machine.                    *)

\* The operators ops are those at places pos of oprs, up to e; below each on
\* the stack is what those between it and the one below it compute, which are
\* applied before it, and so are all behind it.
Stands(args, oprs, ops, base, stack, term, pos, e) ==
    /\ pos \in [0..Len(ops) -> 0..e] /\ pos[0] = 0
    /\ \A s, t \in 0..Len(ops) : s < t => pos[s] < pos[t]
    /\ \A t \in 1..Len(ops) :
           /\ ops[t] = oprs[pos[t]]
           /\ Spans(args, oprs, term, pos[t - 1] + 1, pos[t] - 1, stack[base + t])
           /\ \A h \in (pos[t - 1] + 1)..(pos[t] - 1) :
                  p_get_operator_priority(oprs[h]) >= p_get_operator_priority(ops[t])
           /\ \A h \in (pos[t] + 1)..e :
                  p_get_operator_priority(oprs[h]) > p_get_operator_priority(ops[t])

\* The places go up.
LEMMA PlacesInOrder ==
    ASSUME NEW args, NEW oprs, NEW ops, NEW base, NEW stack, NEW term, NEW pos,
           NEW e \in Nat, Stands(args, oprs, ops, base, stack, term, pos, e),
           Len(ops) \in Nat, NEW t \in 1..Len(ops)
    PROVE  /\ t \in 0..Len(ops) /\ t - 1 \in 0..Len(ops)
           /\ pos[t] \in 1..e /\ pos[t - 1] \in 0..e /\ pos[t - 1] < pos[t]
<1>1. t \in 0..Len(ops) /\ t - 1 \in 0..Len(ops) /\ t - 1 < t
    OBVIOUS
<1>2. pos[t] \in 0..e /\ pos[t - 1] \in 0..e /\ pos[t - 1] < pos[t]
    BY <1>1 DEF Stands
<1> QED
    BY <1>1, <1>2

\* Operands, operators, words and terms may be added to.
LEMMA StandsAgain ==
    ASSUME NEW args, NEW oprs, NEW ops, NEW base \in Nat, NEW stack, NEW term, NEW pos,
           NEW e \in Nat, Len(ops) \in Nat,
           Stands(args, oprs, ops, base, stack, term, pos, e),
           NEW brgs, NEW bprs, NEW berm, Extends(args, oprs, term, e, brgs, bprs, berm),
           NEW btack, \A h \in 1..(base + Len(ops)) : btack[h] = stack[h]
    PROVE  Stands(brgs, bprs, ops, base, btack, berm, pos, e)
<1>1. /\ pos \in [0..Len(ops) -> 0..e] /\ pos[0] = 0
      /\ \A s, t \in 0..Len(ops) : s < t => pos[s] < pos[t]
    BY DEF Stands
<1>2. ASSUME NEW t \in 1..Len(ops)
      PROVE  /\ ops[t] = bprs[pos[t]]
             /\ Spans(brgs, bprs, berm, pos[t - 1] + 1, pos[t] - 1, btack[base + t])
             /\ \A h \in (pos[t - 1] + 1)..(pos[t] - 1) :
                    p_get_operator_priority(bprs[h]) >= p_get_operator_priority(ops[t])
             /\ \A h \in (pos[t] + 1)..e :
                    p_get_operator_priority(bprs[h]) > p_get_operator_priority(ops[t])
    <2>1. pos[t] \in 1..e /\ pos[t - 1] \in 0..e /\ pos[t - 1] < pos[t]
        BY PlacesInOrder
    <2>2. /\ ops[t] = oprs[pos[t]]
          /\ Spans(args, oprs, term, pos[t - 1] + 1, pos[t] - 1, stack[base + t])
          /\ \A h \in (pos[t - 1] + 1)..(pos[t] - 1) :
                 p_get_operator_priority(oprs[h]) >= p_get_operator_priority(ops[t])
          /\ \A h \in (pos[t] + 1)..e :
                 p_get_operator_priority(oprs[h]) > p_get_operator_priority(ops[t])
        BY DEF Stands
    <2>20. PICK a \in 0..e : a = pos[t - 1]
        BY <2>1
    <2>21. PICK c \in 1..e : c = pos[t]
        BY <2>1
    <2>22. a < c
        BY <2>1, <2>20, <2>21
    <2>3. PICK i \in Nat : i = a + 1
        OBVIOUS
    <2>4. PICK k \in Int : k = c - 1
        OBVIOUS
    <2>5. PICK v : v = stack[base + t]
        OBVIOUS
    <2>6. 0 < i /\ i <= k + 1 /\ k + 1 <= e
        BY <2>22, <2>3, <2>4
    <2>8. Spans(args, oprs, term, i, k, v)
        BY <2>2, <2>3, <2>4, <2>5, <2>20, <2>21
    <2>10. Spans(brgs, bprs, berm, i, k, v)
        BY <2>6, <2>8, SpansAgain
    <2>11. btack[base + t] = v
        <3>1. base + t \in 1..(base + Len(ops))
            OBVIOUS
        <3> QED
            BY <2>5, <3>1
    <2>12. Spans(brgs, bprs, berm, pos[t - 1] + 1, pos[t] - 1, btack[base + t])
        BY <2>3, <2>4, <2>10, <2>11, <2>20, <2>21
    <2>13. /\ \A h \in (pos[t - 1] + 1)..(pos[t] - 1) : bprs[h] = oprs[h]
           /\ \A h \in (pos[t] + 1)..e : bprs[h] = oprs[h]
           /\ bprs[pos[t]] = oprs[pos[t]]
        <3>1. /\ \A h \in (a + 1)..(c - 1) : h \in 1..e
              /\ \A h \in (c + 1)..e : h \in 1..e
              /\ c \in 1..e
            BY <2>22
        <3>2. /\ \A h \in (a + 1)..(c - 1) : bprs[h] = oprs[h]
              /\ \A h \in (c + 1)..e : bprs[h] = oprs[h]
              /\ bprs[c] = oprs[c]
            BY <3>1 DEF Extends
        <3> QED
            BY <3>2, <2>20, <2>21
    <2> QED
        BY <2>2, <2>12, <2>13, Zenon
<1> QED
    BY <1>1, <1>2, Zenon DEF Stands

\* Two sequences agree up to place h.
Agrees(r, s, h) == \A k \in 1..h : r[k] = s[k]

\* Operators i..k of oprs bind at least as tightly as op.
Binds(oprs, i, k, op) ==
    \A h \in i..k : p_get_operator_priority(oprs[h]) >= p_get_operator_priority(op)

\* The operator on top of ops is applied, to v: o and btack are what is left,
\* and berm the terms then.
AppliesTop(args, oprs, ops, base, stack, term, pos, e, d, o, btack, berm, v) ==
    /\ base \in Nat /\ e \in Nat /\ d \in Nat /\ Len(ops) = d /\ d > 0
    /\ Stands(args, oprs, ops, base, stack, term, pos, e)
    /\ Spans(args, oprs, term, pos[d] + 1, e, stack[base + d + 1])
    /\ Len(o) = d - 1 /\ Agrees(o, ops, d - 1)
    /\ Agrees(btack, stack, base + (d - 1))
    /\ Extends(args, oprs, term, 0, args, oprs, berm)
    /\ v \in 1..Len(berm) /\ berm[v].op = ops[d]
    /\ berm[v].l = stack[base + d] /\ berm[v].r = stack[base + d + 1]

\* What is then above the operator below.
LeavesBelow(args, oprs, base, e, d, o, btack, berm, v, op) ==
    \E q \in [0..(d - 1) -> 0..e] :
        /\ Stands(args, oprs, o, base, btack, berm, q, e)
        /\ Spans(args, oprs, berm, q[d - 1] + 1, e, v)
        /\ Binds(oprs, q[d - 1] + 1, e, op)

\* The operator on top is applied to what it stands between.
LEMMA StandsApplied ==
    ASSUME NEW args, NEW oprs, NEW ops, NEW base, NEW stack, NEW term, NEW pos,
           NEW e, NEW d, NEW o, NEW btack, NEW berm, NEW v,
           AppliesTop(args, oprs, ops, base, stack, term, pos, e, d, o, btack, berm, v)
    PROVE  LeavesBelow(args, oprs, base, e, d, o, btack, berm, v, ops[d])
<1> DEFINE q == [t \in 0..(d - 1) |-> pos[t]]
<1>00. /\ base \in Nat /\ e \in Nat /\ d \in Nat /\ Len(ops) = d /\ d > 0
       /\ Stands(args, oprs, ops, base, stack, term, pos, e)
       /\ Spans(args, oprs, term, pos[d] + 1, e, stack[base + d + 1])
       /\ Len(o) = d - 1 /\ (\A k \in 1..(d - 1) : o[k] = ops[k])
       /\ \A k \in 1..(base + (d - 1)) : btack[k] = stack[k]
       /\ Extends(args, oprs, term, 0, args, oprs, berm)
       /\ v \in 1..Len(berm) /\ berm[v].op = ops[d]
       /\ berm[v].l = stack[base + d] /\ berm[v].r = stack[base + d + 1]
    BY DEF AppliesTop, Agrees
<1> USE <1>00
<1>0. Extends(args, oprs, term, e + 1, args, oprs, berm) /\ Len(berm) \in Nat
    BY DEF Extends
<1>1. /\ pos \in [0..d -> 0..e] /\ pos[0] = 0
      /\ \A s, t \in 0..d : s < t => pos[s] < pos[t]
    BY DEF Stands
<1>2. q \in [0..(d - 1) -> 0..e] /\ \A t \in 0..(d - 1) : q[t] = pos[t]
    <2>1. \A t \in 0..(d - 1) : t \in 0..d
        OBVIOUS
    <2> QED
        BY <1>1, <2>1
<1> HIDE DEF q
<1>3. q[0] = 0 /\ q[d - 1] = pos[d - 1]
    <2>1. 0 \in 0..(d - 1) /\ d - 1 \in 0..(d - 1)
        OBVIOUS
    <2> QED
        BY <1>1, <1>2, <2>1
<1>4. \A s, t \in 0..(d - 1) : s < t => q[s] < q[t]
    <2>1. \A t \in 0..(d - 1) : t \in 0..d
        OBVIOUS
    <2> QED
        BY <1>1, <1>2, <2>1
<1>6. ASSUME NEW t \in 1..(d - 1)
      PROVE  /\ o[t] = oprs[q[t]]
             /\ Spans(args, oprs, berm, q[t - 1] + 1, q[t] - 1, btack[base + t])
             /\ \A h \in (q[t - 1] + 1)..(q[t] - 1) :
                    p_get_operator_priority(oprs[h]) >= p_get_operator_priority(o[t])
             /\ \A h \in (q[t] + 1)..e :
                    p_get_operator_priority(oprs[h]) > p_get_operator_priority(o[t])
    <2>0. t \in 1..d /\ t \in 0..(d - 1) /\ t - 1 \in 0..(d - 1)
        OBVIOUS
    <2>1. pos[t] \in 1..e /\ pos[t - 1] \in 0..e /\ pos[t - 1] < pos[t]
        BY <2>0, PlacesInOrder
    <2>2. /\ ops[t] = oprs[pos[t]]
          /\ Spans(args, oprs, term, pos[t - 1] + 1, pos[t] - 1, stack[base + t])
          /\ \A h \in (pos[t - 1] + 1)..(pos[t] - 1) :
                 p_get_operator_priority(oprs[h]) >= p_get_operator_priority(ops[t])
          /\ \A h \in (pos[t] + 1)..e :
                 p_get_operator_priority(oprs[h]) > p_get_operator_priority(ops[t])
        BY <2>0 DEF Stands
    <2>20. PICK a \in 0..e : a = pos[t - 1]
        BY <2>1
    <2>21. PICK c \in 1..e : c = pos[t]
        BY <2>1
    <2>22. a < c
        BY <2>1, <2>20, <2>21
    <2>3. PICK i \in Nat : i = a + 1
        OBVIOUS
    <2>4. PICK k \in Int : k = c - 1
        OBVIOUS
    <2>5. PICK w : w = stack[base + t]
        OBVIOUS
    <2>6. 0 < i /\ i <= k + 1 /\ k + 1 <= e + 1 /\ e + 1 \in Nat
        BY <2>22, <2>3, <2>4
    <2>7. Spans(args, oprs, term, i, k, w)
        BY <2>2, <2>3, <2>4, <2>5, <2>20, <2>21
    <2>8. Spans(args, oprs, berm, i, k, w)
        BY <1>0, <2>6, <2>7, SpansAgain
    <2>9. btack[base + t] = w
        <3>1. base + t \in 1..(base + (d - 1))
            OBVIOUS
        <3> QED
            BY <2>5, <3>1
    <2>10. q[t] = pos[t] /\ q[t - 1] = pos[t - 1] /\ o[t] = ops[t]
        BY <1>2, <2>0
    <2> QED
        BY <2>2, <2>3, <2>4, <2>8, <2>9, <2>10, <2>20, <2>21, Zenon
<1>7. Stands(args, oprs, o, base, btack, berm, q, e)
    BY <1>2, <1>3, <1>4, <1>6, Zenon DEF Stands
<1>8. d \in 1..d /\ d \in 0..d
    OBVIOUS
<1>9. pos[d] \in 1..e /\ pos[d - 1] \in 0..e /\ pos[d - 1] < pos[d]
    BY <1>8, PlacesInOrder
<1>10. /\ ops[d] = oprs[pos[d]]
       /\ Spans(args, oprs, term, pos[d - 1] + 1, pos[d] - 1, stack[base + d])
       /\ \A h \in (pos[d - 1] + 1)..(pos[d] - 1) :
              p_get_operator_priority(oprs[h]) >= p_get_operator_priority(ops[d])
       /\ \A h \in (pos[d] + 1)..e :
              p_get_operator_priority(oprs[h]) > p_get_operator_priority(ops[d])
    BY <1>8 DEF Stands
<1>20. PICK a \in 0..e : a = pos[d - 1]
    BY <1>9
<1>12. PICK j \in 1..e : j = pos[d]
    BY <1>9
<1>21. a < j
    BY <1>9, <1>12, <1>20
<1>22. PICK i \in Nat : i = a + 1
    OBVIOUS
<1>11. i = pos[d - 1] + 1
    BY <1>20, <1>22
<1>13. 0 < i /\ e + 1 \in Nat /\ j \in Nat /\ i <= j /\ j <= e /\ j - 1 \in Int /\ j + 1 \in Nat /\ i <= (j - 1) + 1
       /\ e \in Int /\ j + 1 <= e + 1
    BY <1>21, <1>22
<1>14. Spans(args, oprs, berm, i, j - 1, berm[v].l)
    <2>1. PICK k \in Int : k = j - 1
        BY <1>13
    <2>2. PICK w : w = stack[base + d]
        OBVIOUS
    <2>3. Spans(args, oprs, term, i, k, w) /\ i <= k + 1 /\ k + 1 <= e + 1
        <3>1. Spans(args, oprs, term, i, k, w)
            BY <1>10, <1>11, <1>12, <2>1, <2>2
        <3>2. i <= k + 1 /\ k + 1 <= e + 1
            BY <1>13, <2>1
        <3> QED
            BY <3>1, <3>2
    <2>4. Spans(args, oprs, berm, i, k, w)
        BY <1>0, <1>13, <2>3, SpansAgain
    <2> QED
        BY <2>1, <2>2, <2>4
<1>15. Spans(args, oprs, berm, j + 1, e, berm[v].r)
    <2>1. PICK k \in Nat : k = j + 1
        BY <1>13
    <2>2. PICK w : w = stack[base + d + 1]
        OBVIOUS
    <2>3. Spans(args, oprs, term, k, e, w) /\ k <= e + 1 /\ 0 < k /\ e + 1 <= e + 1
        BY <1>12, <1>13, <2>1, <2>2
    <2>4. Spans(args, oprs, berm, k, e, w)
        BY <1>0, <1>13, <2>3, SpansAgain
    <2> QED
        BY <2>1, <2>2, <2>4
<1>16. /\ \A h \in i..(j - 1) :
              p_get_operator_priority(oprs[h]) >= p_get_operator_priority(oprs[j])
       /\ \A h \in (j + 1)..e :
              p_get_operator_priority(oprs[h]) > p_get_operator_priority(oprs[j])
       /\ berm[v].op = oprs[j]
    BY <1>10, <1>11, <1>12
<1>17. Spans(args, oprs, berm, i, e, v)
    BY <1>0, <1>13, <1>14, <1>15, <1>16, SpansJoined
<1>18. ASSUME NEW h \in i..e
       PROVE  p_get_operator_priority(oprs[h]) >= p_get_operator_priority(ops[d])
    <2>1. h \in i..(j - 1) \/ h = j \/ h \in (j + 1)..e
        BY <1>13
    <2>2. p_get_operator_priority(oprs[h]) \in Nat /\ p_get_operator_priority(ops[d]) \in Nat
        BY PriorityRange
    <2>3. ops[d] = oprs[j]
        BY <1>10, <1>12
    <2>4. CASE h = j
        BY <2>2, <2>3, <2>4
    <2>5. CASE h \in i..(j - 1)
        BY <1>16, <2>3, <2>5
    <2>6. CASE h \in (j + 1)..e
        BY <1>16, <2>2, <2>3, <2>6
    <2> QED
        BY <2>1, <2>4, <2>5, <2>6
<1>19. Binds(oprs, q[d - 1] + 1, e, ops[d])
    BY <1>3, <1>11, <1>18 DEF Binds
<1>23. Spans(args, oprs, berm, q[d - 1] + 1, e, v)
    BY <1>3, <1>11, <1>17
<1> QED
    BY <1>2, <1>7, <1>19, <1>23 DEF LeavesBelow

\* The operator that follows is stacked: o are then the stacked ones.
StacksNext(args, oprs, ops, base, stack, term, pos, e, d, o) ==
    /\ base \in Nat /\ e \in Nat /\ d \in Nat /\ Len(ops) = d
    /\ Stands(args, oprs, ops, base, stack, term, pos, e)
    /\ Spans(args, oprs, term, pos[d] + 1, e, stack[base + d + 1])
    /\ Binds(oprs, pos[d] + 1, e, oprs[e + 1])
    /\ d > 0 => p_get_operator_priority(ops[d]) < p_get_operator_priority(oprs[e + 1])
    /\ Len(o) = d + 1 /\ Agrees(o, ops, d) /\ o[d + 1] = oprs[e + 1]

\* The operator read last is stacked on what stands before it.
LEMMA StandsStacked ==
    ASSUME NEW args, NEW oprs, NEW ops, NEW base, NEW stack, NEW term, NEW pos,
           NEW e, NEW d, NEW o,
           StacksNext(args, oprs, ops, base, stack, term, pos, e, d, o)
    PROVE  \E q \in [0..(d + 1) -> 0..(e + 1)] :
              /\ Stands(args, oprs, o, base, stack, term, q, e + 1)
              /\ q[d + 1] = e + 1
<1> DEFINE q == [t \in 0..(d + 1) |-> IF t = d + 1 THEN e + 1 ELSE pos[t]]
<1>00. /\ base \in Nat /\ e \in Nat /\ d \in Nat /\ Len(ops) = d
       /\ Stands(args, oprs, ops, base, stack, term, pos, e)
       /\ Spans(args, oprs, term, pos[d] + 1, e, stack[base + d + 1])
       /\ \A h \in (pos[d] + 1)..e :
              p_get_operator_priority(oprs[h]) >= p_get_operator_priority(oprs[e + 1])
       /\ d > 0 => p_get_operator_priority(ops[d]) < p_get_operator_priority(oprs[e + 1])
       /\ Len(o) = d + 1 /\ o[d + 1] = oprs[e + 1] /\ \A k \in 1..d : o[k] = ops[k]
    BY DEF StacksNext, Agrees, Binds
<1> USE <1>00
<1>0. \A op : p_get_operator_priority(op) \in Nat
    BY PriorityRange
<1>1. /\ pos \in [0..d -> 0..e] /\ pos[0] = 0
      /\ \A s, t \in 0..d : s < t => pos[s] < pos[t]
    BY DEF Stands
<1>2. /\ q \in [0..(d + 1) -> 0..(e + 1)] /\ q[d + 1] = e + 1
      /\ \A t \in 0..d : q[t] = pos[t]
    <2>1. ASSUME NEW t \in 0..(d + 1)
          PROVE  (IF t = d + 1 THEN e + 1 ELSE pos[t]) \in 0..(e + 1)
        <3>1. t = d + 1 \/ t \in 0..d
            OBVIOUS
        <3>2. CASE t \in 0..d
            <4>1. pos[t] \in 0..e
                BY <1>1, <3>2
            <4> QED
                BY <4>1
        <3> QED
            BY <3>1, <3>2
    <2>2. d + 1 \in 0..(d + 1) /\ \A t \in 0..d : t \in 0..(d + 1) /\ t # d + 1
        OBVIOUS
    <2>3. q \in [0..(d + 1) -> 0..(e + 1)]
        BY <2>1
    <2> QED
        BY <2>2, <2>3
<1> HIDE DEF q
<1>3. q[0] = 0
    <2>1. 0 \in 0..d
        OBVIOUS
    <2> QED
        BY <1>1, <1>2, <2>1
<1>4. ASSUME NEW s \in 0..(d + 1), NEW t \in 0..(d + 1), s < t
      PROVE  q[s] < q[t]
    <2>1. s \in 0..d /\ (t = d + 1 \/ t \in 0..d)
        BY <1>4
    <2>2. pos[s] \in 0..e
        BY <1>1, <2>1
    <2> QED
        BY <1>1, <1>2, <1>4, <2>1, <2>2
<1>5. ASSUME NEW t \in 1..d
      PROVE  /\ o[t] = oprs[q[t]]
             /\ Spans(args, oprs, term, q[t - 1] + 1, q[t] - 1, stack[base + t])
             /\ \A h \in (q[t - 1] + 1)..(q[t] - 1) :
                    p_get_operator_priority(oprs[h]) >= p_get_operator_priority(o[t])
             /\ \A h \in (q[t] + 1)..(e + 1) :
                    p_get_operator_priority(oprs[h]) > p_get_operator_priority(o[t])
    <2>0. t \in 0..d /\ t - 1 \in 0..d /\ d \in 0..d /\ d \in 1..d
        OBVIOUS
    <2>1. /\ ops[t] = oprs[pos[t]]
          /\ Spans(args, oprs, term, pos[t - 1] + 1, pos[t] - 1, stack[base + t])
          /\ \A h \in (pos[t - 1] + 1)..(pos[t] - 1) :
                 p_get_operator_priority(oprs[h]) >= p_get_operator_priority(ops[t])
          /\ \A h \in (pos[t] + 1)..e :
                 p_get_operator_priority(oprs[h]) > p_get_operator_priority(ops[t])
        BY <2>0 DEF Stands
    <2>2. q[t] = pos[t] /\ q[t - 1] = pos[t - 1] /\ o[t] = ops[t]
        BY <1>2, <2>0
    <2>3. p_get_operator_priority(ops[d]) >= p_get_operator_priority(ops[t])
        <3>1. CASE t = d
            BY <1>0, <3>1
        <3>2. CASE t # d
            <4>1. pos[t] \in 0..e /\ pos[d] \in 0..e /\ pos[t] < pos[d]
                BY <1>1, <2>0, <3>2
            <4>2. pos[d] \in (pos[t] + 1)..e
                BY <4>1
            <4>3. oprs[pos[d]] = ops[d]
                BY <2>0 DEF Stands
            <4>4. p_get_operator_priority(oprs[pos[d]]) > p_get_operator_priority(ops[t])
                BY <2>1, <4>2
            <4> QED
                BY <1>0, <4>3, <4>4
        <3> QED
            BY <3>1, <3>2
    <2>4. ASSUME NEW h \in (q[t] + 1)..(e + 1)
          PROVE  p_get_operator_priority(oprs[h]) > p_get_operator_priority(o[t])
        <3>1. pos[t] \in 0..e
            BY <1>1, <2>0
        <3>2. h \in (pos[t] + 1)..e \/ h = e + 1
            BY <2>2, <3>1
        <3>3. p_get_operator_priority(ops[d]) < p_get_operator_priority(oprs[e + 1])
            OBVIOUS
        <3>4. p_get_operator_priority(oprs[e + 1]) > p_get_operator_priority(ops[t])
            BY <1>0, <2>3, <3>3
        <3> QED
            BY <2>1, <2>2, <3>2, <3>4
    <2> QED
        BY <2>1, <2>2, <2>4, Zenon
<1>6. /\ o[d + 1] = oprs[q[d + 1]]
      /\ Spans(args, oprs, term, q[d] + 1, q[d + 1] - 1, stack[base + (d + 1)])
      /\ \A h \in (q[d] + 1)..(q[d + 1] - 1) :
             p_get_operator_priority(oprs[h]) >= p_get_operator_priority(o[d + 1])
      /\ \A h \in (q[d + 1] + 1)..(e + 1) :
             p_get_operator_priority(oprs[h]) > p_get_operator_priority(o[d + 1])
    <2>1. d \in 0..d /\ (e + 1) - 1 = e /\ base + (d + 1) = base + d + 1
          /\ (e + 1 + 1)..(e + 1) = {}
        OBVIOUS
    <2>2. q[d] = pos[d]
        BY <1>2, <2>1
    <2> QED
        BY <1>2, <2>1, <2>2
<1>7. ASSUME NEW t \in 1..(d + 1)
      PROVE  /\ o[t] = oprs[q[t]]
             /\ Spans(args, oprs, term, q[t - 1] + 1, q[t] - 1, stack[base + t])
             /\ \A h \in (q[t - 1] + 1)..(q[t] - 1) :
                    p_get_operator_priority(oprs[h]) >= p_get_operator_priority(o[t])
             /\ \A h \in (q[t] + 1)..(e + 1) :
                    p_get_operator_priority(oprs[h]) > p_get_operator_priority(o[t])
    <2>1. t \in 1..d \/ t = d + 1
        OBVIOUS
    <2>2. CASE t = d + 1
        <3>1. t - 1 = d
            BY <2>2
        <3> QED
            BY <1>6, <2>2, <3>1
    <2> QED
        BY <1>5, <2>1, <2>2
<1>8. Stands(args, oprs, o, base, stack, term, q, e + 1)
    BY <1>2, <1>3, <1>4, <1>7, Zenon DEF Stands
<1> QED
    BY <1>2, <1>8

-----------------------------------------------------------------------------
(* What is parsed so far, in every activation.                             *)

\* The first e operators of f have been stacked or applied; n tells that the
\* last value on the stack is that of all behind the operator on op_stack.
Parsed(f, stack, term, e, n) ==
    \E pos \in [0..Len(f.ops) -> 0..e] :
        /\ Stands(f.args, f.oprs, f.ops, f.base, stack, term, pos, e)
        /\ IF n = 0 THEN pos[Len(f.ops)] = e
           ELSE Spans(f.args, f.oprs, term, pos[Len(f.ops)] + 1, e,
                      stack[f.base + Len(f.ops) + 1])
        /\ f.at = "climb" => Binds(f.oprs, pos[Len(f.ops)] + 1, e, f.oprs[e + 1])

\* What an expression has read, and what its code has made of it.
Grouped(f, stack, term) ==
    /\ f.at = "first" => f.args = << >> /\ f.oprs = << >>
    /\ f.at = "second" => Len(f.args) = 1 /\ Len(f.oprs) = 1
    /\ f.at = "later" =>
           Len(f.args) = Len(f.oprs) /\ Parsed(f, stack, term, Len(f.oprs), 0)
    /\ f.at = "climb" =>
           Len(f.args) = Len(f.oprs) /\ Parsed(f, stack, term, Len(f.oprs) - 1, 1)
    /\ f.at = "unwind" =>
           Len(f.args) = Len(f.oprs) + 1 /\ Parsed(f, stack, term, Len(f.oprs), 1)

\* Of all activations.
Groups(fs, mc) == \A i \in 1..Len(fs) : Grouped(fs[i], mc.stack, mc.term)

GInv == VInv /\ Groups(frames, m) /\ GroupsByPriority

-----------------------------------------------------------------------------
(* What instructions add.                                                  *)

\* Terms are added and none changes.
Adds(term, berm) ==
    /\ Len(term) \in Nat /\ Len(berm) \in Nat /\ Len(term) <= Len(berm)
    /\ \A t \in 1..Len(term) : berm[t] = term[t]

\* From mc to md terms are added, and the first h words stay.
Adding(mc, md, h) ==
    /\ Adds(mc.term, md.term)
    /\ \A k \in 1..h : md.stack[k] = mc.stack[k]

\* One after the other.
LEMMA AddsTwice ==
    ASSUME NEW a, NEW b, NEW c, Adds(a, b), Adds(b, c)
    PROVE  Adds(a, c)
<1>1. /\ Len(a) \in Nat /\ Len(b) \in Nat /\ Len(c) \in Nat
      /\ Len(a) <= Len(b) /\ Len(b) <= Len(c)
    BY DEF Adds
<1>2. ASSUME NEW t \in 1..Len(a)
      PROVE  c[t] = a[t]
    <2>1. t \in 1..Len(b)
        BY <1>1
    <2> QED
        BY <2>1 DEF Adds
<1> QED
    BY <1>1, <1>2 DEF Adds

\* So with words.
LEMMA AddingTwice ==
    ASSUME NEW a, NEW b, NEW c, NEW h, Adding(a, b, h), Adding(b, c, h)
    PROVE  Adding(a, c, h)
BY AddsTwice DEF Adding

\* No instruction.
LEMMA AddingNothing ==
    ASSUME NEW mc \in Machine, NEW h
    PROVE  Adding(mc, mc, h)
BY DEF Adding, Adds, Machine

\* An instruction adds the term it computes.
LEMMA FreshAdds ==
    ASSUME NEW mc \in Machine, NEW d, NEW t \in Term, NEW h
    PROVE  /\ Adding(mc, Fresh(mc, d, t), h)
           /\ Len(Fresh(mc, d, t).term) = Len(mc.term) + 1
           /\ Fresh(mc, d, t).term[Len(mc.term) + 1] = t
<1>1. mc.term \in Seq(Term)
    BY DEF Machine
<1>2. Fresh(mc, d, t).term = Append(mc.term, t) /\ Fresh(mc, d, t).stack = mc.stack
    BY DEF Fresh, Machine
<1>3. Adds(mc.term, Append(mc.term, t))
    BY <1>1 DEF Adds
<1> QED
    BY <1>1, <1>2, <1>3 DEF Adding

\* Loading.
LEMMA LoadAdds ==
    ASSUME NEW mc \in Machine, NEW d, NEW h
    PROVE  Adding(mc, Load(mc, d), h)
<1>1. [op |-> "leaf", l |-> 0, r |-> 0] \in Term
    BY DEF Term, TermOps
<1> QED
    BY <1>1, FreshAdds DEF Load

\* One source.
LEMMA UnaryAdds ==
    ASSUME NEW mc \in Machine, NEW op \in TermOps, NEW d, NEW s \in Regs, NEW h
    PROVE  Adding(mc, Unary(mc, op, d, s), h)
<1>1. mc.reg[s] \in Nat
    BY DEF Machine
<1>2. [op |-> op, l |-> mc.reg[s], r |-> 0] \in Term
    BY <1>1 DEF Term
<1> QED
    BY <1>2, FreshAdds DEF Unary

\* Two sources: the new term has the operator and the two values.
LEMMA ApplyAdds ==
    ASSUME NEW mc \in Machine, NEW op \in TermOps, NEW d \in Regs, NEW s \in Regs, NEW h
    PROVE  /\ Adding(mc, Apply(mc, op, d, s), h)
           /\ LET v == Len(mc.term) + 1
                  t == Apply(mc, op, d, s).term
              IN  /\ Len(t) = v /\ Apply(mc, op, d, s).reg[d] = v
                  /\ t[v].op = op /\ t[v].l = mc.reg[d] /\ t[v].r = mc.reg[s]
<1> DEFINE t == [op |-> op, l |-> mc.reg[d], r |-> mc.reg[s]]
           v == Len(mc.term) + 1
<1>1. mc.reg[s] \in Nat /\ mc.reg[d] \in Nat /\ mc.reg \in [Regs -> Nat]
    BY DEF Machine
<1>2. t \in Term /\ t.op = op /\ t.l = mc.reg[d] /\ t.r = mc.reg[s]
    BY <1>1 DEF Term
<1>3. Fresh(mc, d, t).reg[d] = v
    BY <1>1 DEF Fresh, Machine
<1>4. Apply(mc, op, d, s) = Fresh(mc, d, t)
    BY DEF Apply
<1> HIDE DEF t
<1>5. /\ Adding(mc, Fresh(mc, d, t), h) /\ Len(Fresh(mc, d, t).term) = v
      /\ Fresh(mc, d, t).term[v] = t
    BY <1>2, FreshAdds
<1> QED
    BY <1>2, <1>3, <1>4, <1>5

\* The sign of an operand.
LEMMA NegatedAdds ==
    ASSUME NEW mc \in Machine, NEW neg, NEW p \in Regs, NEW h
    PROVE  Adding(mc, Negated(mc, neg, p), h)
<1>1. "op_negate" \in TermOps
    BY DEF TermOps
<1> QED
    BY <1>1, UnaryAdds, AddingNothing DEF Negated

\* Stack instructions compute nothing.
LEMMA StackAdds ==
    ASSUME NEW mc \in Machine, NEW r
    PROVE  /\ Push(mc, r).term = mc.term /\ Pop(mc, r).term = mc.term
           /\ PushRegs(mc, r).term = mc.term /\ PopRegs(mc, r).term = mc.term
BY DEF Push, Pop, PushRegs, PopRegs, Machine

\* With what they leave of the stack.
LEMMA SparesAdds ==
    ASSUME NEW mc \in Machine, NEW md, md.term = mc.term, NEW p, NEW h,
           Spares(mc, md, p, h)
    PROVE  Adding(mc, md, h)
BY DEF Spares, Adding, Adds, Machine

\* A call computes one value.
LEMMA CalledAdds ==
    ASSUME NEW mc \in Machine, NEW d, NEW h
    PROVE  Adding(mc, Called(mc, d), h)
<1> DEFINE t == [op |-> "call", l |-> 0, r |-> 0]
<1>1. t \in Term /\ mc.term \in Seq(Term)
    BY DEF Term, TermOps, Machine
<1>2. Called(mc, d).term = Append(mc.term, t) /\ Called(mc, d).stack = mc.stack
    BY DEF Called, Machine
<1> HIDE DEF t
<1>3. Adds(mc.term, Append(mc.term, t))
    BY <1>1 DEF Adds
<1> QED
    BY <1>2, <1>3 DEF Adding

\* The scaled index.
LEMMA AddScaledAdds ==
    ASSUME NEW mc \in Machine, NEW p, p \in Regs, p + 1 \in Regs, p + 2 \in Regs,
           NEW scaled, NEW h
    PROVE  Adding(mc, AddScaled(mc, p, scaled), h)
<1> DEFINE lc == Load(mc, p + 2)
           sc == Apply(lc, "op_mul", p + 1, p + 2)
           c == IF scaled THEN sc ELSE mc
<1>1. "op_mul" \in TermOps /\ "op_add" \in TermOps
    BY DEF TermOps, BinaryOps
<1>2. lc \in Machine /\ Adding(mc, lc, h)
    BY LoadMachine, LoadAdds
<1> HIDE DEF lc
<1>3. sc \in Machine /\ Adding(lc, sc, h)
    BY <1>1, <1>2, ApplyMachine, ApplyAdds
<1> HIDE DEF sc
<1>4. Adding(mc, mc, h) /\ Adding(mc, sc, h)
    BY <1>2, <1>3, AddingTwice, AddingNothing
<1>5. c \in Machine /\ Adding(mc, c, h)
    BY <1>3, <1>4
<1> HIDE DEF c
<1>6. Adding(c, Apply(c, "op_add", p, p + 1), h)
    BY <1>1, <1>5, ApplyAdds
<1>7. Adding(mc, Apply(c, "op_add", p, p + 1), h)
    BY <1>5, <1>6, AddingTwice
<1> QED
    BY <1>7 DEF AddScaled, c, sc, lc

\* A prefix increment.
LEMMA PrefixedAdds ==
    ASSUME NEW mc \in Machine, NEW p, p \in Regs, p + 1 \in Regs, p + 2 \in Regs,
           NEW h
    PROVE  Adding(mc, Prefixed(mc, p), h)
<1> DEFINE a == Unary(mc, "op_read_addr", p + 1, p)
           b == Load(a, p + 2)
<1>1. "op_read_addr" \in TermOps /\ "op_add" \in TermOps
    BY DEF TermOps, BinaryOps
<1>2. a \in Machine /\ Adding(mc, a, h)
    BY <1>1, UnaryMachine, UnaryAdds
<1> HIDE DEF a
<1>3. b \in Machine /\ Adding(a, b, h)
    BY <1>2, LoadMachine, LoadAdds
<1> HIDE DEF b
<1>4. Adding(b, Apply(b, "op_add", p + 1, p + 2), h)
    BY <1>1, <1>3, ApplyAdds
<1>5. Adding(mc, b, h)
    BY <1>2, <1>3, AddingTwice
<1>6. Adding(mc, Apply(b, "op_add", p + 1, p + 2), h)
    BY <1>4, <1>5, AddingTwice
<1> QED
    BY <1>6 DEF Prefixed, b, a

\* A postfix increment.
LEMMA PostfixedAdds ==
    ASSUME NEW mc \in Machine, NEW p, p \in Regs, p + 1 \in Regs, p + 2 \in Regs
    PROVE  Adding(mc, Postfixed(mc, p), Len(mc.stack))
<1> DEFINE a == Unary(mc, "op_read_addr", p + 1, p)
           b == Push(a, p + 1)
           c == Load(b, p + 2)
           d == Apply(c, "op_add", p + 1, p + 2)
           h == Len(mc.stack)
<1>1. "op_read_addr" \in TermOps /\ "op_add" \in TermOps
    BY DEF TermOps, BinaryOps
<1>2. a \in Machine /\ Adding(mc, a, h)
    BY <1>1, UnaryMachine, UnaryAdds
<1> HIDE DEF a
<1>3. b \in Machine /\ b.term = a.term
    BY <1>2, PushMachine, StackAdds
<1> HIDE DEF b
<1>4. c \in Machine /\ Adding(b, c, h)
    BY <1>3, LoadMachine, LoadAdds
<1> HIDE DEF c
<1>5. d \in Machine /\ Adding(c, d, h)
    BY <1>1, <1>4, ApplyMachine, ApplyAdds
<1> HIDE DEF d
<1>6. Pop(d, p).term = d.term
    BY <1>5, StackAdds
<1>7. Adds(mc.term, Pop(d, p).term)
    <2>1. Adds(mc.term, a.term) /\ Adds(b.term, c.term) /\ Adds(c.term, d.term)
        BY <1>2, <1>4, <1>5 DEF Adding
    <2>2. Adds(mc.term, c.term)
        BY <2>1, <1>3, AddsTwice
    <2>3. Adds(mc.term, d.term)
        BY <2>1, <2>2, AddsTwice
    <2> QED
        BY <2>3, <1>6
<1>8. Spares(mc, Postfixed(mc, p), p, h)
    BY PostfixedSpares
<1>9. Postfixed(mc, p) = Pop(d, p)
    BY DEF Postfixed, d, c, b, a
<1> QED
    BY <1>7, <1>8, <1>9 DEF Adding, Spares

-----------------------------------------------------------------------------
(* What keeps the activations grouped.                                     *)

\* An expression keeps what it has parsed while its words stay.
LEMMA ParsedKept ==
    ASSUME NEW f \in FrameType, NEW stack, NEW term, NEW e \in Nat, NEW n \in {0, 1},
           Parsed(f, stack, term, e, n),
           NEW btack, \A k \in 1..(f.base + Len(f.ops) + n) : btack[k] = stack[k],
           NEW berm, Adds(term, berm)
    PROVE  Parsed(f, btack, berm, e, n)
<1> DEFINE d == Len(f.ops)
<1>1. PICK pos \in [0..d -> 0..e] :
          /\ Stands(f.args, f.oprs, f.ops, f.base, stack, term, pos, e)
          /\ IF n = 0 THEN pos[d] = e
             ELSE Spans(f.args, f.oprs, term, pos[d] + 1, e, stack[f.base + d + 1])
          /\ f.at = "climb" => Binds(f.oprs, pos[d] + 1, e, f.oprs[e + 1])
    BY DEF Parsed
<1>2. d \in Nat /\ f.base \in Nat
    BY DEF FrameType
<1>3. /\ Extends(f.args, f.oprs, term, e, f.args, f.oprs, berm)
      /\ Extends(f.args, f.oprs, term, e + 1, f.args, f.oprs, berm)
    BY DEF Extends, Adds
<1> HIDE DEF d
<1>4. /\ \A k \in 1..(f.base + d) : btack[k] = stack[k]
      /\ n = 1 => btack[f.base + d + 1] = stack[f.base + d + 1]
    <2>1. \A k \in 1..(f.base + d) : k \in 1..(f.base + d + n)
        BY <1>2
    <2>2. n = 1 => f.base + d + 1 \in 1..(f.base + d + n)
        BY <1>2
    <2> QED
        BY <2>1, <2>2 DEF d
<1>5. Stands(f.args, f.oprs, f.ops, f.base, btack, berm, pos, e)
    BY <1>1, <1>2, <1>3, <1>4, StandsAgain DEF d
<1>6. n = 1 => Spans(f.args, f.oprs, berm, pos[d] + 1, e, btack[f.base + d + 1])
    <2>1. SUFFICES ASSUME n = 1
                   PROVE  Spans(f.args, f.oprs, berm, pos[d] + 1, e, btack[f.base + d + 1])
        OBVIOUS
    <2>2. d \in 0..d
        BY <1>2
    <2>3. PICK i \in Nat : i = pos[d] + 1 /\ 0 < i /\ i <= e + 1
        <3>1. pos[d] \in 0..e
            BY <2>2
        <3> QED
            BY <3>1
    <2>4. PICK v : v = stack[f.base + d + 1]
        OBVIOUS
    <2>5. Spans(f.args, f.oprs, term, i, e, v)
        BY <1>1, <2>1, <2>3, <2>4
    <2>6. e + 1 \in Nat /\ e \in Int /\ e + 1 <= e + 1
        OBVIOUS
    <2>7. Spans(f.args, f.oprs, berm, i, e, v)
        BY <1>3, <2>3, <2>5, <2>6, SpansAgain
    <2> QED
        BY <1>4, <2>1, <2>3, <2>4, <2>7
<1> QED
    BY <1>1, <1>5, <1>6 DEF Parsed, d

\* So does any activation.
LEMMA GroupedKept ==
    ASSUME NEW f \in FrameType, Good(f), NEW stack, NEW term, Grouped(f, stack, term),
           NEW btack, \A k \in 1..(f.base + Held(f)) : btack[k] = stack[k],
           NEW berm, Adds(term, berm)
    PROVE  Grouped(f, btack, berm)
<1>1. Len(f.ops) \in Nat /\ Len(f.oprs) \in Nat /\ f.base \in Nat
    BY DEF FrameType
<1>2. f.at = "later" => Parsed(f, btack, berm, Len(f.oprs), 0)
    <2>1. SUFFICES ASSUME f.at = "later"
                   PROVE  Parsed(f, btack, berm, Len(f.oprs), 0)
        OBVIOUS
    <2>2. f.base + Held(f) = f.base + Len(f.ops) + 0
        BY <1>1, <2>1 DEF Held
    <2>3. Parsed(f, stack, term, Len(f.oprs), 0)
        BY <2>1 DEF Grouped
    <2> QED
        BY <1>1, <2>2, <2>3, ParsedKept
<1>3. f.at = "climb" => Parsed(f, btack, berm, Len(f.oprs) - 1, 1)
    <2>1. SUFFICES ASSUME f.at = "climb"
                   PROVE  Parsed(f, btack, berm, Len(f.oprs) - 1, 1)
        OBVIOUS
    <2>2. f.base + Held(f) = f.base + Len(f.ops) + 1
        BY <1>1, <2>1 DEF Held
    <2>3. Parsed(f, stack, term, Len(f.oprs) - 1, 1)
        BY <2>1 DEF Grouped
    <2>4. Len(f.oprs) - 1 \in Nat
        BY <1>1, <2>1 DEF Good, FrameOK
    <2> QED
        BY <2>2, <2>3, <2>4, ParsedKept
<1>4. f.at = "unwind" => Parsed(f, btack, berm, Len(f.oprs), 1)
    <2>1. SUFFICES ASSUME f.at = "unwind"
                   PROVE  Parsed(f, btack, berm, Len(f.oprs), 1)
        OBVIOUS
    <2>2. f.base + Held(f) = f.base + Len(f.ops) + 1
        BY <1>1, <2>1 DEF Held
    <2>3. Parsed(f, stack, term, Len(f.oprs), 1)
        BY <2>1 DEF Grouped
    <2> QED
        BY <1>1, <2>2, <2>3, ParsedKept
<1> QED
    BY <1>2, <1>3, <1>4 DEF Grouped

\* The callers keep what they have when their words stay,
LEMMA CallersGrouped ==
    ASSUME VInv, Groups(frames, m), NEW md, Adding(m, md, Top.base),
           NEW i \in 1..(Len(frames) - 1)
    PROVE  Grouped(frames[i], md.stack, md.term)
<1>1. Len(frames) \in Nat /\ frames \in Seq(FrameType) /\ Activations(frames)
    BY TopFacts, TopValues DEF Activations
<1>2. i \in 1..Len(frames) /\ Len(frames) \in 1..Len(frames) /\ i < Len(frames)
    BY <1>1
<1>3. PICK f \in FrameType : f = frames[i]
    BY <1>1, <1>2
<1>4. Good(f) /\ Grouped(f, m.stack, m.term)
    BY <1>1, <1>2, <1>3 DEF Activations, Groups
<1>5. f.base + Held(f) <= Top.base
    BY <1>2, <1>3, TopValues DEF Values, Stacked, Top
<1>6. f.base \in Nat /\ Held(f) \in Nat /\ Top.base \in Nat
    BY HeldNat, TopFacts, TopValues DEF FrameType
<1>7. \A k \in 1..(f.base + Held(f)) : k \in 1..Top.base
    BY <1>5, <1>6
<1>8. Adds(m.term, md.term) /\ \A k \in 1..(f.base + Held(f)) : md.stack[k] = m.stack[k]
    BY <1>7 DEF Adding
<1> QED
    BY <1>3, <1>4, <1>8, GroupedKept

\* and the activation on top when its own do.
LEMMA TopGrouped ==
    ASSUME VInv, Groups(frames, m), NEW md, Adding(m, md, Len(m.stack))
    PROVE  Grouped(Top, md.stack, md.term) /\ Adding(m, md, Top.base)
<1>1. /\ Len(frames) \in Nat /\ Len(frames) > 0 /\ Top \in FrameType /\ Good(Top)
      /\ Len(m.stack) = Top.base + Held(Top) /\ Held(Top) \in Nat /\ Top.base \in Nat
    BY TopFacts, TopValues
<1>2. Len(frames) \in 1..Len(frames)
    BY <1>1
<1>3. Grouped(Top, m.stack, m.term)
    BY <1>2 DEF Groups, Top
<1>4. Adds(m.term, md.term) /\ \A k \in 1..(Top.base + Held(Top)) : md.stack[k] = m.stack[k]
    BY <1>1 DEF Adding
<1>5. Grouped(Top, md.stack, md.term)
    BY <1>1, <1>3, <1>4, GroupedKept
<1>6. \A k \in 1..Top.base : k \in 1..Len(m.stack)
    BY <1>1
<1> QED
    BY <1>5, <1>6 DEF Adding

\* An activation that is no expression has nothing to group,
LEMMA OtherGrouped ==
    ASSUME NEW f, f.at \notin {"first", "second", "later", "climb", "unwind"},
           NEW stack, NEW term
    PROVE  Grouped(f, stack, term)
BY DEF Grouped

\* and a new one has read nothing.
LEMMA NewGrouped ==
    ASSUME NEW mc, NEW fn, NEW at, at \notin {"second", "later", "climb", "unwind"},
           NEW pn, NEW neg, NEW stack, NEW term
    PROVE  Grouped(Frame(mc, fn, at, pn, neg), stack, term)
<1> DEFINE f == Frame(mc, fn, at, pn, neg)
<1>1. f.at = at /\ f.args = << >> /\ f.oprs = << >>
    BY DEF Frame
<1> HIDE DEF f
<1>2. Grouped(f, stack, term)
    BY <1>1 DEF Grouped
<1> QED
    BY <1>2 DEF f

\* One more activation.
LEMMA GroupsAppended ==
    ASSUME NEW fs \in Seq(FrameType), NEW md, Groups(fs, md),
           NEW g \in FrameType, Grouped(g, md.stack, md.term)
    PROVE  Groups(Append(fs, g), md)
<1>1. ASSUME NEW i \in 1..Len(Append(fs, g))
      PROVE  Grouped(Append(fs, g)[i], md.stack, md.term)
    <2>1. (i \in 1..Len(fs) /\ Append(fs, g)[i] = fs[i]) \/ Append(fs, g)[i] = g
        OBVIOUS
    <2>2. CASE i \in 1..Len(fs) /\ Append(fs, g)[i] = fs[i]
        BY <2>2 DEF Groups
    <2>3. CASE Append(fs, g)[i] = g
        BY <2>3
    <2> QED
        BY <2>1, <2>2, <2>3
<1> QED
    BY <1>1 DEF Groups

\* Fewer.
LEMMA GroupsCut ==
    ASSUME NEW fs \in Seq(FrameType), NEW n \in 0..Len(fs), NEW md,
           \A i \in 1..n : Grouped(fs[i], md.stack, md.term)
    PROVE  Groups(SubSeq(fs, 1, n), md) /\ SubSeq(fs, 1, n) \in Seq(FrameType)
<1> DEFINE gs == SubSeq(fs, 1, n)
<1>1. gs \in Seq(FrameType) /\ Len(gs) = n /\ \A i \in 1..n : gs[i] = fs[i]
    OBVIOUS
<1> HIDE DEF gs
<1>2. Groups(gs, md)
    BY <1>1 DEF Groups
<1> QED
    BY <1>1, <1>2 DEF gs

\* Only the machine changes.
LEMMA GroupsStay ==
    ASSUME VInv, Groups(frames, m), NEW md, Adding(m, md, Len(m.stack))
    PROVE  Groups(frames, md)
<1>1. ASSUME NEW i \in 1..Len(frames)
      PROVE  Grouped(frames[i], md.stack, md.term)
    <2>1. i \in 1..(Len(frames) - 1) \/ i = Len(frames)
        BY TopFacts, TopValues
    <2>2. Grouped(Top, md.stack, md.term) /\ Adding(m, md, Top.base)
        BY TopGrouped
    <2>3. CASE i \in 1..(Len(frames) - 1)
        BY <2>2, <2>3, CallersGrouped
    <2>4. CASE i = Len(frames)
        BY <2>2, <2>4 DEF Top
    <2> QED
        BY <2>1, <2>3, <2>4
<1> QED
    BY <1>1 DEF Groups

\* The activation on top calls g.
LEMMA GroupsCalled ==
    ASSUME VInv, Groups(frames, m), NEW md, Adding(m, md, Len(m.stack)),
           NEW g \in FrameType, Grouped(g, md.stack, md.term)
    PROVE  Groups(Append(frames, g), md)
<1>1. frames \in Seq(FrameType)
    BY TopFacts, TopValues DEF Activations
<1> QED
    BY <1>1, GroupsStay, GroupsAppended

\* The activation on top returns,
LEMMA GroupsPopped ==
    ASSUME VInv, Groups(frames, m), NEW md, Adding(m, md, Top.base)
    PROVE  Groups(Below(1), md) /\ Below(1) \in Seq(FrameType)
<1>1. frames \in Seq(FrameType) /\ Len(frames) \in Nat /\ Len(frames) > 0
    BY TopFacts, TopValues DEF Activations
<1>2. Len(frames) - 1 \in 0..Len(frames)
    BY <1>1
<1>3. \A i \in 1..(Len(frames) - 1) : Grouped(frames[i], md.stack, md.term)
    BY CallersGrouped
<1> QED
    BY <1>1, <1>2, <1>3, GroupsCut DEF Below

\* or goes on as g.
LEMMA GroupsReplaced ==
    ASSUME VInv, Groups(frames, m), NEW md, Adding(m, md, Top.base),
           NEW g \in FrameType, Grouped(g, md.stack, md.term)
    PROVE  Groups(Append(Below(1), g), md)
BY GroupsPopped, GroupsAppended

\* It returns together with its caller,
LEMMA GroupsPoppedTwice ==
    ASSUME VInv, Groups(frames, m), NEW md, Adding(m, md, Top.base), Len(frames) > 1
    PROVE  Groups(Below(2), md) /\ Below(2) \in Seq(FrameType)
<1>1. frames \in Seq(FrameType) /\ Len(frames) \in Nat
    BY TopFacts, TopValues DEF Activations
<1>2. Len(frames) - 2 \in 0..Len(frames) /\ \A i \in 1..(Len(frames) - 2) : i \in 1..(Len(frames) - 1)
    BY <1>1
<1>3. \A i \in 1..(Len(frames) - 2) : Grouped(frames[i], md.stack, md.term)
    BY <1>2, CallersGrouped
<1> QED
    BY <1>1, <1>2, <1>3, GroupsCut DEF Below

\* or the caller goes on as g.
LEMMA GroupsReturned ==
    ASSUME VInv, Groups(frames, m), NEW md, Adding(m, md, Top.base), Len(frames) > 1,
           NEW g \in FrameType, Grouped(g, md.stack, md.term)
    PROVE  Groups(Append(Below(2), g), md)
BY GroupsPoppedTwice, GroupsAppended

-----------------------------------------------------------------------------
(* Operands, calls and lvalues: they group nothing themselves.             *)

\* A constant is loaded.
LEMMA OperandConstantGroups ==
    ASSUME VInv, Groups(frames, m), OperandConstant
    PROVE  Groups(frames', m')
<1> DEFINE p == Target(Top)
           a == Load(m, p)
           h == Len(m.stack)
<1>1. PICK neg \in Signs : m' = Negated(a, neg, p)
    BY DEF OperandConstant
<1>2. m \in Machine /\ p \in Regs
    BY TopValues, TargetFacts, TopFacts
<1>3. a \in Machine /\ Adding(m, a, h)
    BY <1>2, LoadMachine, LoadAdds
<1> HIDE DEF a, p, h
<1>4. Adding(a, m', h)
    BY <1>1, <1>2, <1>3, NegatedAdds
<1>5. Adding(m, m', h)
    BY <1>3, <1>4, AddingTwice
<1> QED
    BY <1>5, GroupsStay DEF OperandConstant, h

\* So is the address of a function.
LEMMA OperandFunctionNameGroups ==
    ASSUME VInv, Groups(frames, m), OperandFunctionName
    PROVE  Groups(frames', m')
<1> DEFINE p == Target(Top)
           h == Len(m.stack)
           a == PushRegs(m, p)
           b == Load(a, p)
           c == PopRegs(b, p)
<1>1. PICK neg \in Signs : m' = Negated(c, neg, p)
    BY DEF OperandFunctionName
<1>2. p \in Nat /\ p \in Regs /\ m \in Machine /\ h \in Nat
    BY TopValues, TargetFacts, TopFacts
<1> HIDE DEF p
<1>3. a \in Machine /\ Len(a.stack) = h + p /\ a.term = m.term
    BY <1>2, PushRegsMachine, StackAdds
<1>4. Spares(m, a, p, h)
    BY <1>2, PushRegsSpares
<1>5. Adding(m, a, h)
    BY <1>2, <1>3, <1>4, SparesAdds
<1> HIDE DEF a
<1>6. b \in Machine /\ b.stack = a.stack /\ Adding(a, b, h)
    BY <1>3, LoadMachine, LoadAdds
<1> HIDE DEF b
<1>7. Len(b.stack) = h + p
    BY <1>3, <1>6
<1> HIDE DEF h
<1>8. c \in Machine /\ c.term = b.term /\ \A k \in 1..h : c.stack[k] = b.stack[k]
    <2>1. c \in Machine
        BY <1>2, <1>6, <1>7, PopRegsMachine
    <2>2. \A k \in 1..h : c.stack[k] = b.stack[k]
        BY <1>2, <1>6, <1>7, PopRegsSpares
    <2> QED
        BY <1>6, <2>1, <2>2, StackAdds
<1>9. Adding(b, c, h)
    BY <1>6, <1>8 DEF Adding, Adds, Machine
<1> HIDE DEF c
<1>10. Adding(c, m', h)
    BY <1>1, <1>2, <1>8, NegatedAdds
<1>11. Adding(m, m', h)
    BY <1>5, <1>6, <1>9, <1>10, AddingTwice
<1> QED
    BY <1>11, GroupsStay DEF OperandFunctionName, h

\* New activations have grouped nothing.
LEMMA OperandNotGroups ==
    ASSUME VInv, Groups(frames, m), OperandNot
    PROVE  Groups(frames', m')
<1> DEFINE q == Target(Top)
           f == Frame(m, "not", "operand", q, FALSE)
<1>1. m \in Machine /\ q \in Nat /\ q + 3 <= MaxReg
    BY TopValues, TopFacts, TargetFacts DEF OperandNot, Room
<1>2. /\ "not" \in Functions /\ "operand" \in Ats("not") /\ FALSE \in BOOLEAN
      /\ "operand" \notin {"second", "later", "climb", "unwind"}
    BY DEF Functions, Ats
<1> HIDE DEF q
<1>3. f \in FrameType
    BY <1>1, <1>2, NewFrame
<1>4. Grouped(f, m.stack, m.term)
    BY <1>2, NewGrouped
<1>5. frames' = Append(frames, f) /\ m' = m
    BY DEF OperandNot, q
<1> HIDE DEF f
<1> QED
    BY <1>1, <1>3, <1>4, <1>5, AddingNothing, GroupsCalled

\* So with *,
LEMMA OperandStarGroups ==
    ASSUME VInv, Groups(frames, m), OperandStar
    PROVE  Groups(frames', m')
<1> DEFINE q == Target(Top)
           f == Frame(m, "lvalue", "deref", q, FALSE)
<1>1. m \in Machine /\ q \in Nat /\ q + 3 <= MaxReg
    BY TopValues, TopFacts, TargetFacts DEF OperandStar, Room
<1>2. /\ "lvalue" \in Functions /\ "deref" \in Ats("lvalue") /\ FALSE \in BOOLEAN
      /\ "deref" \notin {"second", "later", "climb", "unwind"}
    BY DEF Functions, Ats
<1> HIDE DEF q
<1>3. f \in FrameType
    BY <1>1, <1>2, NewFrame
<1>4. Grouped(f, m.stack, m.term)
    BY <1>2, NewGrouped
<1>5. frames' = Append(frames, f) /\ m' = m
    BY DEF OperandStar, q
<1> HIDE DEF f
<1> QED
    BY <1>1, <1>3, <1>4, <1>5, AddingNothing, GroupsCalled

\* a bracket and the expression in it,
LEMMA OperandParenGroups ==
    ASSUME VInv, Groups(frames, m), OperandParen
    PROVE  Groups(frames', m')
<1> DEFINE q == Target(Top)
<1>1. m \in Machine /\ q \in Nat /\ q + 3 <= MaxReg
    BY TopValues, TopFacts, TargetFacts DEF OperandParen, Room
<1>2. PICK neg \in Signs :
          frames' = frames \o << Frame(m, "paren", "expression", q, neg),
                                 Frame(m, "expression", "first", q, FALSE) >>
    BY DEF OperandParen
<1> DEFINE f == Frame(m, "paren", "expression", q, neg)
           g == Frame(m, "expression", "first", q, FALSE)
<1>3. /\ "paren" \in Functions /\ "expression" \in Ats("paren")
      /\ neg \in BOOLEAN
      /\ "expression" \notin {"second", "later", "climb", "unwind"}
      /\ "first" \notin {"second", "later", "climb", "unwind"}
    BY DEF Functions, Ats, Signs
<1> HIDE DEF q
<1>4. f \in FrameType
    BY <1>1, <1>3, NewFrame
<1>5. g \in FrameType
    BY <1>1, NewExpression
<1>6. Grouped(f, m.stack, m.term) /\ Grouped(g, m.stack, m.term)
    BY <1>3, NewGrouped
<1>7. frames' = frames \o <<f, g>> /\ m' = m
    BY <1>2 DEF OperandParen, q
<1> HIDE DEF f, g
<1>8. frames \in Seq(FrameType)
    BY TopFacts, TopValues DEF Activations
<1>9. Append(frames, f) \in Seq(FrameType) /\ frames \o <<f, g>> = Append(Append(frames, f), g)
    BY <1>4, <1>5, <1>8
<1>10. Groups(Append(frames, f), m)
    BY <1>1, <1>4, <1>6, AddingNothing, GroupsCalled
<1> QED
    BY <1>5, <1>6, <1>7, <1>9, <1>10, GroupsAppended

\* a variable
LEMMA OperandLvalueGroups ==
    ASSUME VInv, Groups(frames, m), OperandLvalue
    PROVE  Groups(frames', m')
<1> DEFINE q == Target(Top)
<1>1. m \in Machine /\ q \in Nat /\ q + 3 <= MaxReg
    BY TopValues, TopFacts, TargetFacts DEF OperandLvalue, Room
<1>2. PICK v \in Variables, at \in {"value", "address"}, neg \in BOOLEAN,
           prefix \in BOOLEAN :
          frames' = Append(frames, [Frame(m, "lvalue", at, q, neg) EXCEPT
                      !.var = v, !.prefix = prefix, !.is_reference = ~v.is_array])
    BY DEF OperandLvalue
<1> DEFINE e == Frame(m, "lvalue", at, q, neg)
           f == [e EXCEPT !.var = v, !.prefix = prefix, !.is_reference = ~v.is_array]
<1>3. /\ "lvalue" \in Functions /\ at \in Ats("lvalue")
      /\ at \notin {"second", "later", "climb", "unwind"}
    BY DEF Functions, Ats
<1>4. e \in FrameType /\ e.at = at
    BY <1>1, <1>3, NewFrame
<1> HIDE DEF e
<1>5. v \in VariableKinds
    BY VariablesAssumption DEF VariableKinds
<1>6. f \in FrameType /\ f.at = at
    BY <1>4, <1>5 DEF FrameType, VariableKinds
<1>7. frames' = Append(frames, f)
    BY <1>2 DEF e
<1> HIDE DEF f, q
<1>8. Adding(m, m', Len(m.stack))
    BY <1>1, LoadAdds DEF OperandLvalue, q
<1>9. Grouped(f, m'.stack, m'.term)
    BY <1>6, OtherGrouped
<1> QED
    BY <1>6, <1>7, <1>8, <1>9, GroupsCalled

\* and a call.
LEMMA OperandCallGroups ==
    ASSUME VInv, Groups(frames, m), OperandCall
    PROVE  Groups(frames', m')
<1> DEFINE q == Target(Top)
<1>1. m \in Machine /\ q \in Nat /\ q \in Regs /\ q + 3 <= MaxReg
    BY TopValues, TopFacts, TargetFacts DEF OperandCall, Room
<1>2. PICK neg \in Signs : frames' = Append(frames, Frame(m, "call", "direct", q, neg))
    BY DEF OperandCall
<1> DEFINE f == Frame(m, "call", "direct", q, neg)
<1>3. /\ "call" \in Functions /\ "direct" \in Ats("call") /\ neg \in BOOLEAN
      /\ "direct" \notin {"second", "later", "climb", "unwind"}
    BY DEF Functions, Ats, Signs
<1>4. m' = PushRegs(m, q)
    BY DEF OperandCall
<1>5. Spares(m, PushRegs(m, q), q, Len(m.stack)) /\ PushRegs(m, q).term = m.term
    BY <1>1, PushRegsSpares, StackAdds
<1>6. Adding(m, m', Len(m.stack))
    BY <1>1, <1>4, <1>5, SparesAdds
<1>7. Grouped(f, m'.stack, m'.term)
    BY <1>3, NewGrouped
<1> HIDE DEF q
<1>8. f \in FrameType
    BY <1>1, <1>3, NewFrame
<1> QED
    BY <1>2, <1>6, <1>7, <1>8, GroupsCalled DEF q

\* ! is applied to its operand.
LEMMA NotDoneGroups ==
    ASSUME VInv, Groups(frames, m), NotDone
    PROVE  Groups(frames', m')
<1>1. m \in Machine /\ Top.pn \in Regs
    BY TopFacts, TopValues
<1>2. "op_not" \in TermOps
    BY DEF TermOps
<1>3. Adding(m, m', Top.base)
    BY <1>1, <1>2, UnaryAdds DEF NotDone
<1> QED
    BY <1>3, GroupsPopped DEF NotDone

\* An argument is an expression.
LEMMA NextArgumentGroups ==
    ASSUME VInv, Groups(frames, m), NextArgument
    PROVE  Groups(frames', m')
<1> DEFINE n == Len(Top.args)
           f == Frame(m, "expression", "first", n, FALSE)
<1>1. m \in Machine /\ n \in Nat /\ n + 3 <= MaxReg
    BY TopValues, TopFacts DEF NextArgument, FrameType
<1>2. f \in FrameType
    <2> HIDE DEF n
    <2> QED
        BY <1>1, NewExpression
<1>3. Grouped(f, m.stack, m.term)
    BY NewGrouped
<1>4. frames' = Append(frames, f) /\ m' = m
    BY DEF NextArgument
<1> HIDE DEF f
<1> QED
    BY <1>1, <1>2, <1>3, <1>4, AddingNothing, GroupsCalled

\* After a call the words of its caller are on the stack.
LEMMA EndCallGroups ==
    ASSUME VInv, Groups(frames, m), EndCall
    PROVE  Groups(frames', m')
<1> DEFINE p == Top.pn
           h == Top.base
           c == IF Top.at = "pointer" THEN Pop(m, MAX_PARAMS - 1) ELSE m
           d == Called(c, p)
           e == PopRegs(d, p)
<1>1. /\ IInv /\ m \in Machine /\ p \in Nat /\ p \in Regs /\ h \in Nat
      /\ Len(m.stack) = h + Held(Top) /\ Top.fn = "call"
    BY TopFacts, TopValues DEF EndCall, AtPoint
<1>2. Top.at \in {"direct", "pointer"}
    BY <1>1, TopFacts DEF Good, FrameOK, Ats
<1>3. c \in Machine /\ Len(c.stack) = h + p /\ Adding(m, c, h)
    <2>1. CASE Top.at = "pointer"
        <3>1. Len(m.stack) = h + p + 1
            BY <1>1, <2>1 DEF Held
        <3>2. PICK x \in Nat : x = MAX_PARAMS - 1
            BY BoundsAssumption
        <3> DEFINE b == Pop(m, x)
        <3> HIDE DEF h, p
        <3>3. b \in Machine /\ Len(b.stack) = Len(m.stack) - 1 /\ b.term = m.term
            BY <1>1, <3>1, PopMachine, StackAdds
        <3>4. h < Len(m.stack) /\ Len(m.stack) > 0 /\ 0 \in Nat /\ 0 <= x
            BY <1>1, <3>1
        <3>5. Spares(m, b, 0, h)
            BY <1>1, <3>4, PopSpares
        <3>6. Adding(m, b, h)
            BY <1>1, <3>3, <3>5, SparesAdds
        <3>7. c = b
            BY <2>1, <3>2
        <3> QED
            BY <1>1, <3>1, <3>3, <3>6, <3>7
    <2>2. CASE Top.at = "direct"
        BY <1>1, <2>2, AddingNothing DEF Held
    <2> QED
        BY <1>2, <2>1, <2>2
<1> HIDE DEF c
<1>4. d \in Machine /\ d.stack = c.stack /\ Adding(c, d, h)
    BY <1>3, CalledMachine, CalledAdds
<1> HIDE DEF d
<1>5. Len(d.stack) = h + p
    BY <1>3, <1>4
<1> HIDE DEF h, p
<1>6. e \in Machine /\ e.term = d.term /\ \A k \in 1..h : e.stack[k] = d.stack[k]
    <2>1. e \in Machine
        BY <1>1, <1>4, <1>5, PopRegsMachine
    <2>2. \A k \in 1..h : e.stack[k] = d.stack[k]
        BY <1>1, <1>4, <1>5, PopRegsSpares
    <2> QED
        BY <1>4, <2>1, <2>2, StackAdds
<1>7. Adding(d, e, h)
    BY <1>4, <1>6 DEF Adding, Adds, Machine
<1> HIDE DEF e
<1>8. m' = Negated(e, Top.neg, p)
    BY DEF EndCall, AtCall, c, d, e, p
<1>9. Adding(e, m', h)
    BY <1>1, <1>6, <1>8, NegatedAdds
<1>10. Adding(m, m', h)
    BY <1>3, <1>4, <1>7, <1>9, AddingTwice
<1> QED
    BY <1>10, GroupsPopped DEF EndCall, h

\* A call through a pointer takes the place of the lvalue.
LEMMA PointerCallGroups ==
    ASSUME VInv, Groups(frames, m), PointerCall
    PROVE  Groups(frames', m')
<1> DEFINE q == Top.pn
           h == Len(m.stack)
           a == PushRegs(m, q)
           f == Frame(m, "call", "pointer", q, Top.neg)
<1>1. /\ m \in Machine /\ q \in Nat /\ q \in Regs /\ q + 3 <= MaxReg
      /\ Top.neg \in BOOLEAN /\ h \in Nat /\ h = Top.base
    BY LvalueValues, TopFacts, TopValues DEF PointerCall, Room, FrameType
<1>2. /\ "call" \in Functions /\ "pointer" \in Ats("call")
      /\ "pointer" \notin {"second", "later", "climb", "unwind"}
    BY DEF Functions, Ats
<1> HIDE DEF q
<1>3. a \in Machine /\ Len(a.stack) = h + q /\ a.term = m.term /\ Spares(m, a, q, h)
    BY <1>1, PushRegsMachine, PushRegsSpares, StackAdds
<1>4. Adding(m, a, h)
    BY <1>1, <1>3, SparesAdds
<1> HIDE DEF a
<1>5. m' = Push(a, q)
    BY DEF PointerCall, a, q
<1> HIDE DEF h
<1>6. h <= Len(a.stack) /\ 0 \in Nat
    BY <1>1, <1>3
<1>7. Spares(a, m', 0, h) /\ m'.term = a.term
    BY <1>1, <1>3, <1>5, <1>6, PushSpares, StackAdds
<1>8. Adding(a, m', h)
    BY <1>3, <1>7, SparesAdds
<1>9. Adding(m, m', h)
    BY <1>4, <1>8, AddingTwice
<1>10. f \in FrameType /\ Grouped(f, m'.stack, m'.term)
    BY <1>1, <1>2, NewFrame, NewGrouped
<1>11. frames' = Append(Below(1), f)
    BY DEF PointerCall, q
<1> QED
    BY <1>1, <1>9, <1>10, <1>11, GroupsReplaced

\* An index is an expression.
LEMMA StartIndexGroups ==
    ASSUME VInv, Groups(frames, m), StartIndex
    PROVE  Groups(frames', m')
<1> DEFINE p == Top.pn
           n == p + 1
           c == IF Top.var.is_pointer > 0 THEN Unary(m, "op_read_addr", p, p) ELSE m
           f == Frame(c, "expression", "first", n, FALSE)
<1>1. m \in Machine /\ p \in Regs /\ n \in Nat
    BY LvalueValues DEF StartIndex
<1>2. n + 3 <= MaxReg
    BY <1>1 DEF StartIndex, Room
<1>3. "op_read_addr" \in TermOps
    BY DEF TermOps
<1>4. c \in Machine /\ Adding(m, c, Len(m.stack))
    BY <1>1, <1>3, UnaryMachine, UnaryAdds, AddingNothing
<1> HIDE DEF c, n
<1>5. f \in FrameType /\ Grouped(f, c.stack, c.term)
    BY <1>1, <1>2, <1>4, NewExpression, NewGrouped
<1>6. frames' = Append(frames, f) /\ m' = c
    BY DEF StartIndex, c, n
<1> QED
    BY <1>4, <1>5, <1>6, GroupsCalled

\* A member changes the lvalue.
LEMMA MemberGroups ==
    ASSUME VInv, Groups(frames, m), Member
    PROVE  Groups(frames', m')
<1> DEFINE p == Top.pn
           h == Top.base
<1>1. PICK v \in Variables, arrow \in BOOLEAN :
          LET c == IF arrow THEN Unary(m, "op_read_addr", p, p) ELSE m IN
          /\ m' = Apply(Load(c, p + 1), "op_add", p, p + 1)
          /\ frames' = Append(Below(1),
                 [Top EXCEPT !.var = v, !.is_reference = ~v.is_array,
                             !.indexed = FALSE])
    BY DEF Member
<1> DEFINE a == Unary(m, "op_read_addr", p, p)
           c == IF arrow THEN a ELSE m
           d == Load(c, p + 1)
           g == [Top EXCEPT !.var = v, !.is_reference = ~v.is_array,
                            !.indexed = FALSE]
<1>2. /\ IInv /\ Top.fn = "lvalue" /\ m \in Machine /\ p \in Regs /\ p + 1 \in Regs
      /\ Top \in FrameType
    BY LvalueValues, TopFacts DEF Member
<1>3. "op_read_addr" \in TermOps /\ "op_add" \in TermOps
    BY DEF TermOps, BinaryOps
<1>4. c \in Machine /\ Adding(m, c, h)
    BY <1>2, <1>3, UnaryMachine, UnaryAdds, AddingNothing
<1>5. m' = Apply(d, "op_add", p, p + 1)
    BY <1>1
<1> HIDE DEF c, p
<1>6. d \in Machine /\ Adding(c, d, h)
    BY <1>4, LoadMachine, LoadAdds
<1> HIDE DEF d
<1>7. Adding(d, m', h)
    BY <1>2, <1>3, <1>5, <1>6, ApplyAdds
<1>8. Adding(m, m', h)
    BY <1>4, <1>6, <1>7, AddingTwice
<1>9. v \in VariableKinds
    BY VariablesAssumption DEF VariableKinds
<1>10. g \in FrameType /\ g.at = Top.at
    BY <1>2, <1>9 DEF FrameType, VariableKinds
<1>11. frames' = Append(Below(1), g)
    BY <1>1
<1> HIDE DEF g
<1>12. g.at \notin {"first", "second", "later", "climb", "unwind"}
    BY <1>2, <1>10, TopFacts DEF Good, FrameOK, Ats
<1>13. Grouped(g, m'.stack, m'.term)
    BY <1>12, OtherGrouped
<1> QED
    BY <1>8, <1>10, <1>11, <1>13, GroupsReplaced

\* The address is the result.
LEMMA AddressOfGroups ==
    ASSUME VInv, Groups(frames, m), AddressOf
    PROVE  Groups(frames', m')
<1>1. m \in Machine /\ m' = m /\ frames' = Below(1)
    BY TopFacts, TopValues DEF AddressOf
<1> QED
    BY <1>1, AddingNothing, GroupsPopped

\* A pointer is read,
LEMMA PointerPlusGroups ==
    ASSUME VInv, Groups(frames, m), PointerPlus
    PROVE  Groups(frames', m')
<1>1. m \in Machine /\ Top.pn \in Regs
    BY TopFacts, TopValues
<1>2. "op_read_addr" \in TermOps
    BY DEF TermOps
<1>3. Adding(m, m', Len(m.stack))
    BY <1>1, <1>2, UnaryAdds, AddingNothing DEF PointerPlus
<1> QED
    BY <1>3, GroupsStay DEF PointerPlus

\* and a scaled operand is added to it.
LEMMA PointerPlusDoneGroups ==
    ASSUME VInv, Groups(frames, m), PointerPlusDone
    PROVE  Groups(frames', m')
<1>1. PICK p : p = Top.pn
    OBVIOUS
<1>2. PICK s : s = Top.var.wide
    OBVIOUS
<1>3. m \in Machine /\ p \in Regs /\ p + 1 \in Regs /\ p + 2 \in Regs
    BY <1>1, TopFacts, TopValues
<1>4. m' = AddScaled(m, p, s)
    BY <1>1, <1>2 DEF PointerPlusDone
<1>5. Adding(m, AddScaled(m, p, s), Len(m.stack))
    BY <1>3, AddScaledAdds
<1> QED
    BY <1>4, <1>5, GroupsStay DEF PointerPlusDone

\* A value is read, or incremented.
LEMMA EvaluateGroups ==
    ASSUME VInv, Groups(frames, m), Evaluate
    PROVE  Groups(frames', m')
<1> DEFINE h == Len(m.stack)
<1>0. PICK p : p = Top.pn
    OBVIOUS
<1> DEFINE c == IF Top.prefix THEN Prefixed(m, p) ELSE m
<1>1. m \in Machine /\ p \in Regs /\ p + 1 \in Regs /\ p + 2 \in Regs
    BY <1>0, LvalueValues DEF Evaluate
<1>2. m' = Postfixed(c, p) \/ m' = Unary(c, "op_read_addr", p, p) \/ m' = c \/ m' = m
    BY <1>0 DEF Evaluate
<1>3. c \in Machine /\ c.stack = m.stack /\ Adding(m, c, h) /\ Adding(m, m, h)
    <2>1. /\ Prefixed(m, p) \in Machine /\ Prefixed(m, p).stack = m.stack
          /\ Adding(m, Prefixed(m, p), h)
        BY <1>1, PrefixedMachine, PrefixedAdds
    <2> QED
        BY <1>1, <2>1, AddingNothing
<1> HIDE DEF c
<1>4. "op_read_addr" \in TermOps
    BY DEF TermOps
<1>5. Adding(c, Postfixed(c, p), h) /\ Adding(c, Unary(c, "op_read_addr", p, p), h)
    BY <1>1, <1>3, <1>4, PostfixedAdds, UnaryAdds
<1>6. Adding(m, m', h)
    <2> HIDE DEF h
    <2> QED
        BY <1>2, <1>3, <1>5, AddingTwice
<1> QED
    BY <1>6, GroupsStay DEF Evaluate

\* It is returned, perhaps negated.
LEMMA LvalueDoneGroups ==
    ASSUME VInv, Groups(frames, m), LvalueDone
    PROVE  Groups(frames', m')
<1>1. m \in Machine /\ Top.pn \in Regs
    BY TopFacts, TopValues
<1>2. Adding(m, m', Top.base)
    BY <1>1, NegatedAdds DEF LvalueDone
<1> QED
    BY <1>2, GroupsPopped DEF LvalueDone

\* An expression returns to a bracket,
LEMMA ReturnToParenGroups ==
    ASSUME VInv, Groups(frames, m), ReturnToParen
    PROVE  Groups(frames', m')
<1>1. /\ Len(frames) > 1 /\ pc = "expr_done"
      /\ m' = Negated(m, Caller.neg, Caller.pn) /\ frames' = Below(2)
    BY DEF ReturnToParen
<1>2. m \in Machine /\ Caller.pn \in Regs
    BY <1>1, ExprReturns, TopFacts, TopValues DEF FrameType
<1>3. Adding(m, m', Top.base)
    BY <1>1, <1>2, NegatedAdds
<1> QED
    BY <1>1, <1>3, GroupsPoppedTwice

\* a call
LEMMA ReturnToCallGroups ==
    ASSUME VInv, Groups(frames, m), ReturnToCall
    PROVE  Groups(frames', m')
<1> DEFINE a == Append(Caller.args, m.reg[Top.pn])
           g == [Caller EXCEPT !.args = a]
<1>1. /\ Len(frames) > 1 /\ Caller.fn = "call" /\ pc = "expr_done"
      /\ frames' = Append(Below(2), g) /\ m' = m
    BY DEF ReturnToCall
<1>2. m \in Machine /\ Caller \in FrameType /\ Good(Caller) /\ Top.pn \in Regs
    BY <1>1, ExprReturns, TopFacts, TopValues
<1>3. a \in Seq(Nat)
    <2>1. m.reg[Top.pn] \in Nat /\ Caller.args \in Seq(Nat)
        BY <1>2 DEF Machine, FrameType
    <2> QED
        BY <2>1
<1> HIDE DEF a
<1>4. g \in FrameType /\ g.at = Caller.at
    BY <1>2, <1>3 DEF FrameType
<1> HIDE DEF g
<1>5. g.at \notin {"first", "second", "later", "climb", "unwind"}
    BY <1>1, <1>2, <1>4 DEF Good, FrameOK, Ats
<1>6. Grouped(g, m.stack, m.term)
    BY <1>5, OtherGrouped
<1> QED
    BY <1>1, <1>2, <1>4, <1>6, AddingNothing, GroupsReturned

\* or an index.
LEMMA ReturnToIndexGroups ==
    ASSUME VInv, Groups(frames, m), ReturnToIndex
    PROVE  Groups(frames', m')
<1> DEFINE g == [Caller EXCEPT !.is_reference = TRUE, !.indexed = TRUE]
<1>1. /\ Len(frames) > 1 /\ Caller.fn = "lvalue" /\ pc = "expr_done"
      /\ frames' = Append(Below(2), g)
    BY DEF ReturnToIndex
<1>2. m \in Machine /\ Caller \in FrameType /\ Good(Caller)
    BY <1>1, ExprReturns, TopFacts, TopValues
<1>3. PICK p : p = Caller.pn
    OBVIOUS
<1>4. PICK s : s = WideElement(Caller.var)
    OBVIOUS
<1>5. p \in Regs /\ p + 1 \in Regs /\ p + 2 \in Regs
    <2>1. p \in Regs /\ p + 3 <= MaxReg
        BY <1>2, <1>3 DEF FrameType, Good, FrameOK
    <2> QED
        BY <2>1, BoundsAssumption DEF Regs
<1>6. m' = AddScaled(m, p, s)
    BY <1>3, <1>4 DEF ReturnToIndex
<1>7. Adding(m, AddScaled(m, p, s), Top.base)
    BY <1>2, <1>5, AddScaledAdds
<1>8. g \in FrameType /\ g.at = Caller.at
    BY <1>2 DEF FrameType
<1> HIDE DEF g
<1>9. g.at \notin {"first", "second", "later", "climb", "unwind"}
    BY <1>1, <1>2, <1>8 DEF Good, FrameOK, Ats
<1>10. Grouped(g, m'.stack, m'.term)
    BY <1>9, OtherGrouped
<1> QED
    BY <1>1, <1>6, <1>7, <1>8, <1>10, GroupsReturned

-----------------------------------------------------------------------------
(* What p_read_expression does to what it has parsed.                      *)

\* What makes the first e operators Parsed, with a value above.
LEMMA ParsedFrom ==
    ASSUME NEW g, NEW stack, NEW term, NEW e, NEW n, Len(g.ops) = n,
           NEW q \in [0..n -> 0..e],
           Stands(g.args, g.oprs, g.ops, g.base, stack, term, q, e),
           Spans(g.args, g.oprs, term, q[n] + 1, e, stack[g.base + n + 1]),
           g.at = "climb" => Binds(g.oprs, q[n] + 1, e, g.oprs[e + 1])
    PROVE  Parsed(g, stack, term, e, 1)
<1>1. 1 # 0
    OBVIOUS
<1> QED
    BY <1>1, Zenon DEF Parsed

\* The first two operands with the operator between them.
LEMMA ParsedTwo ==
    ASSUME NEW g \in FrameType, NEW stack, NEW term, Len(g.ops) = 1,
           g.ops[1] = g.oprs[1],
           stack[g.base + 1] = g.args[1], stack[g.base + 2] = g.args[2]
    PROVE  Parsed(g, stack, term, 1, 1)
<1> DEFINE pos == [t \in 0..1 |-> t]
<1>0. g.base \in Nat
    BY DEF FrameType
<1>1. pos \in [0..1 -> 0..1] /\ pos[0] = 0 /\ pos[1] = 1
    OBVIOUS
<1>2. \A s, t \in 0..1 : s < t => pos[s] < pos[t]
    OBVIOUS
<1> HIDE DEF pos
<1>3. /\ Spans(g.args, g.oprs, term, 1, 0, stack[g.base + 1])
      /\ Spans(g.args, g.oprs, term, 2, 1, stack[g.base + 2])
    <2>1. PICK i \in Nat : i = 1
        OBVIOUS
    <2>2. PICK j \in Nat : j = 2
        OBVIOUS
    <2>3. /\ Spans(g.args, g.oprs, term, i, i - 1, g.args[i])
          /\ Spans(g.args, g.oprs, term, j, j - 1, g.args[j])
        BY LeafSpans
    <2>4. i - 1 = 0 /\ j - 1 = 1
        BY <2>1, <2>2
    <2> QED
        BY <2>1, <2>2, <2>3, <2>4
<1>4. ASSUME NEW t \in 1..1
      PROVE  /\ g.ops[t] = g.oprs[pos[t]]
             /\ Spans(g.args, g.oprs, term, pos[t - 1] + 1, pos[t] - 1, stack[g.base + t])
             /\ \A h \in (pos[t - 1] + 1)..(pos[t] - 1) :
                    p_get_operator_priority(g.oprs[h]) >= p_get_operator_priority(g.ops[t])
             /\ \A h \in (pos[t] + 1)..1 :
                    p_get_operator_priority(g.oprs[h]) > p_get_operator_priority(g.ops[t])
    <2>1. t = 1 /\ t - 1 = 0 /\ 0 + 1 = 1 /\ 1 - 1 = 0 /\ 1..0 = {} /\ (1 + 1)..1 = {}
        OBVIOUS
    <2>2. pos[t] = 1 /\ pos[t - 1] = 0
        BY <1>1, <2>1
    <2>3. Spans(g.args, g.oprs, term, pos[t - 1] + 1, pos[t] - 1, stack[g.base + t])
        BY <1>3, <2>1, <2>2
    <2> QED
        BY <2>1, <2>2, <2>3
<1>5. Stands(g.args, g.oprs, g.ops, g.base, stack, term, pos, 1)
    BY <1>1, <1>2, <1>4 DEF Stands
<1>6. pos[1] + 1 = 2 /\ 2..1 = {} /\ g.base + 1 + 1 = g.base + 2
    BY <1>0, <1>1
<1>7. Binds(g.oprs, pos[1] + 1, 1, g.oprs[1 + 1])
    BY <1>6 DEF Binds
<1>8. Spans(g.args, g.oprs, term, pos[1] + 1, 1, stack[g.base + 1 + 1])
    BY <1>3, <1>6
<1> QED
    BY <1>1, <1>5, <1>7, <1>8, ParsedFrom

\* A further operand.
LEMMA ParsedLater ==
    ASSUME NEW f \in FrameType, NEW stack, NEW term, Len(term) \in Nat, NEW e \in Nat,
           Parsed(f, stack, term, e, 0),
           NEW g \in FrameType, g.ops = f.ops, g.base = f.base,
           Agrees(g.args, f.args, e), Agrees(g.oprs, f.oprs, e),
           NEW btack, Agrees(btack, stack, f.base + Len(f.ops)),
           btack[f.base + Len(f.ops) + 1] = g.args[e + 1]
    PROVE  Parsed(g, btack, term, e, 1)
<1> DEFINE d == Len(f.ops)
<1>1. PICK pos \in [0..d -> 0..e] :
          /\ Stands(f.args, f.oprs, f.ops, f.base, stack, term, pos, e)
          /\ pos[d] = e
    BY DEF Parsed
<1>2. d \in Nat /\ f.base \in Nat
    BY DEF FrameType
<1>3. Extends(f.args, f.oprs, term, e, g.args, g.oprs, term)
    BY DEF Extends, Agrees
<1>4. Stands(g.args, g.oprs, f.ops, f.base, btack, term, pos, e)
    BY <1>1, <1>2, <1>3, StandsAgain DEF Agrees
<1>5. PICK i \in Nat : i = e + 1
    OBVIOUS
<1>6. Spans(g.args, g.oprs, term, i, i - 1, g.args[i])
    BY LeafSpans
<1>7. i - 1 = e /\ i..e = {}
    BY <1>5
<1>8. Spans(g.args, g.oprs, term, pos[d] + 1, e, btack[g.base + d + 1])
    BY <1>1, <1>5, <1>6, <1>7
<1>9. Binds(g.oprs, pos[d] + 1, e, g.oprs[e + 1])
    BY <1>1, <1>5, <1>7 DEF Binds
<1>10. Stands(g.args, g.oprs, g.ops, g.base, btack, term, pos, e)
    BY <1>4
<1> QED
    BY <1>1, <1>8, <1>9, <1>10, ParsedFrom

\* Where the operators on op_stack stand, and what is above them.
LEMMA ParsedPlaces ==
    ASSUME NEW f \in FrameType, NEW stack, NEW term, NEW e \in Nat,
           Parsed(f, stack, term, e, 1), NEW d \in Nat, Len(f.ops) = d
    PROVE  \E pos \in [0..d -> 0..e] :
              /\ Stands(f.args, f.oprs, f.ops, f.base, stack, term, pos, e)
              /\ Spans(f.args, f.oprs, term, pos[d] + 1, e, stack[f.base + d + 1])
              /\ f.at = "climb" => Binds(f.oprs, pos[d] + 1, e, f.oprs[e + 1])
<1>1. PICK pos \in [0..Len(f.ops) -> 0..e] :
          /\ Stands(f.args, f.oprs, f.ops, f.base, stack, term, pos, e)
          /\ Spans(f.args, f.oprs, term, pos[Len(f.ops)] + 1, e,
                   stack[f.base + Len(f.ops) + 1])
          /\ f.at = "climb" => Binds(f.oprs, pos[Len(f.ops)] + 1, e, f.oprs[e + 1])
    BY DEF Parsed
<1> QED
    BY <1>1

\* The operator on top of op_stack is applied, to v: g and btack are what is
\* left of f and the stack, and berm the terms then.
PopsTop(f, stack, term, e, d, g, btack, berm, v) ==
    /\ f \in FrameType /\ e \in Nat /\ d \in Nat /\ Len(f.ops) = d /\ d > 0
    /\ Parsed(f, stack, term, e, 1)
    /\ g \in FrameType /\ Len(g.ops) = d - 1 /\ Agrees(g.ops, f.ops, d - 1)
    /\ g.args = f.args /\ g.oprs = f.oprs /\ g.base = f.base
    /\ Agrees(btack, stack, f.base + (d - 1))
    /\ Adds(term, berm) /\ v \in 1..Len(berm) /\ berm[v].op = f.ops[d]
    /\ berm[v].l = stack[f.base + d] /\ berm[v].r = stack[f.base + d + 1]
    /\ g.at = "climb" => p_get_operator_priority(f.ops[d])
                              >= p_get_operator_priority(f.oprs[e + 1])

\* What is then parsed.
LEMMA ParsedApplied ==
    ASSUME NEW f, NEW stack, NEW term, NEW e, NEW d, NEW g, NEW btack, NEW berm, NEW v,
           PopsTop(f, stack, term, e, d, g, btack, berm, v)
    PROVE  /\ btack[f.base + d] = v => Parsed(g, btack, berm, e, 1)
           /\ d = 1 => Spans(g.args, g.oprs, berm, 1, e, v)
<1> USE DEF PopsTop
<1>1. PICK pos \in [0..d -> 0..e] :
          /\ Stands(f.args, f.oprs, f.ops, f.base, stack, term, pos, e)
          /\ Spans(f.args, f.oprs, term, pos[d] + 1, e, stack[f.base + d + 1])
    BY ParsedPlaces
<1>2. Extends(f.args, f.oprs, term, 0, f.args, f.oprs, berm) /\ f.base \in Nat
    BY DEF Extends, Adds, FrameType
<1>20. PICK args : args = f.args
    OBVIOUS
<1>21. PICK oprs : oprs = f.oprs
    OBVIOUS
<1>22. PICK ops : ops = f.ops
    OBVIOUS
<1>23. PICK base \in Nat : base = f.base
    BY <1>2
<1>24. PICK o : o = g.ops
    OBVIOUS
<1>25. AppliesTop(args, oprs, ops, base, stack, term, pos, e, d, o, btack, berm, v)
    BY <1>1, <1>2, <1>20, <1>21, <1>22, <1>23, <1>24 DEF AppliesTop
<1>27. LeavesBelow(args, oprs, base, e, d, o, btack, berm, v, ops[d])
    BY <1>25, StandsApplied
<1>26. PICK q \in [0..(d - 1) -> 0..e] :
          /\ Stands(args, oprs, o, base, btack, berm, q, e)
          /\ Spans(args, oprs, berm, q[d - 1] + 1, e, v)
          /\ Binds(oprs, q[d - 1] + 1, e, ops[d])
    BY <1>27 DEF LeavesBelow
<1>3. /\ Stands(f.args, f.oprs, g.ops, f.base, btack, berm, q, e)
      /\ Spans(f.args, f.oprs, berm, q[d - 1] + 1, e, v)
      /\ Binds(f.oprs, q[d - 1] + 1, e, f.ops[d])
    BY <1>20, <1>21, <1>22, <1>23, <1>24, <1>26
<1>4. btack[f.base + d] = v => Parsed(g, btack, berm, e, 1)
    <2>1. SUFFICES ASSUME btack[f.base + d] = v
                   PROVE  Parsed(g, btack, berm, e, 1)
        OBVIOUS
    <2>2. g.at = "climb" => Binds(g.oprs, q[d - 1] + 1, e, g.oprs[e + 1])
        <3>1. SUFFICES ASSUME g.at = "climb", NEW h \in (q[d - 1] + 1)..e
                       PROVE  p_get_operator_priority(f.oprs[h])
                                  >= p_get_operator_priority(f.oprs[e + 1])
            BY DEF Binds
        <3>2. /\ p_get_operator_priority(f.oprs[h]) \in Nat
              /\ p_get_operator_priority(f.ops[d]) \in Nat
              /\ p_get_operator_priority(f.oprs[e + 1]) \in Nat
            BY PriorityRange
        <3>3. p_get_operator_priority(f.oprs[h]) >= p_get_operator_priority(f.ops[d])
            BY <1>3, <3>1 DEF Binds
        <3>4. p_get_operator_priority(f.ops[d]) >= p_get_operator_priority(f.oprs[e + 1])
            BY <3>1
        <3> QED
            BY <3>2, <3>3, <3>4
    <2>3. f.base + (d - 1) + 1 = f.base + d
        BY <1>2
    <2>4. Spans(g.args, g.oprs, berm, q[d - 1] + 1, e, btack[g.base + (d - 1) + 1])
        BY <1>3, <2>1, <2>3
    <2>5. Stands(g.args, g.oprs, g.ops, g.base, btack, berm, q, e)
        BY <1>3
    <2>6. PICK n \in Nat : n = d - 1
        OBVIOUS
    <2> QED
        BY <2>2, <2>4, <2>5, <2>6, ParsedFrom
<1>5. d = 1 => Spans(g.args, g.oprs, berm, 1, e, v)
    <2>1. SUFFICES ASSUME d = 1
                   PROVE  Spans(g.args, g.oprs, berm, 1, e, v)
        OBVIOUS
    <2>2. d - 1 = 0 /\ q[0] = 0 /\ 0 + 1 = 1
        BY <1>3, <2>1 DEF Stands
    <2>3. q[d - 1] + 1 = 1
        BY <2>2
    <2> QED
        BY <1>3, <2>3
<1> QED
    BY <1>4, <1>5

\* The operator read last is stacked: f goes on as g.
StacksTop(f, stack, term, e, d, g) ==
    /\ f \in FrameType /\ f.at = "climb" /\ e \in Nat /\ d \in Nat /\ Len(f.ops) = d
    /\ Parsed(f, stack, term, e, 1)
    /\ d > 0 => p_get_operator_priority(f.ops[d])
                    < p_get_operator_priority(f.oprs[e + 1])
    /\ g \in FrameType /\ g.at = "later" /\ Len(g.ops) = d + 1
    /\ Agrees(g.ops, f.ops, d) /\ g.ops[d + 1] = f.oprs[e + 1]
    /\ g.args = f.args /\ g.oprs = f.oprs /\ g.base = f.base

\* What is then parsed.
LEMMA ParsedStacked ==
    ASSUME NEW f, NEW stack, NEW term, NEW e, NEW d, NEW g,
           StacksTop(f, stack, term, e, d, g)
    PROVE  Parsed(g, stack, term, e + 1, 0)
<1> USE DEF StacksTop
<1>1. PICK pos \in [0..d -> 0..e] :
          /\ Stands(f.args, f.oprs, f.ops, f.base, stack, term, pos, e)
          /\ Spans(f.args, f.oprs, term, pos[d] + 1, e, stack[f.base + d + 1])
          /\ Binds(f.oprs, pos[d] + 1, e, f.oprs[e + 1])
    BY ParsedPlaces
<1>20. PICK args : args = f.args
    OBVIOUS
<1>21. PICK oprs : oprs = f.oprs
    OBVIOUS
<1>22. PICK ops : ops = f.ops
    OBVIOUS
<1>23. PICK base \in Nat : base = f.base
    BY DEF FrameType
<1>24. PICK o : o = g.ops
    OBVIOUS
<1>25. StacksNext(args, oprs, ops, base, stack, term, pos, e, d, o)
    BY <1>1, <1>20, <1>21, <1>22, <1>23, <1>24 DEF StacksNext
<1>26. \E q \in [0..(d + 1) -> 0..(e + 1)] :
          /\ Stands(args, oprs, o, base, stack, term, q, e + 1)
          /\ q[d + 1] = e + 1
    BY <1>25, StandsStacked
<1>3. \E q \in [0..(d + 1) -> 0..(e + 1)] :
          /\ Stands(g.args, g.oprs, g.ops, g.base, stack, term, q, e + 1)
          /\ q[Len(g.ops)] = e + 1
    BY <1>20, <1>21, <1>22, <1>23, <1>24, <1>26
<1> QED
    BY <1>3 DEF Parsed

\* The expression on top is complete, with all its operators applied.
LEMMA ResultGrouped ==
    ASSUME NEW g \in FrameType, frames' = Append(Below(1), g),
           Below(1) \in Seq(FrameType), m' \in Machine,
           Len(g.args) = Len(g.oprs) + 1,
           Spans(g.args, g.oprs, m'.term, 1, Len(g.oprs), m'.reg[g.pn])
    PROVE  GroupsByPriority'
<1> DEFINE n == Len(g.oprs)
           term == m'.term
<1>1. frames'[Len(frames')] = g
    OBVIOUS
<1>2. PICK node \in [1..n -> 1..Len(term)] :
          Computes(g.args, g.oprs, term, node, 1, n, m'.reg[g.pn])
    BY DEF Spans
<1>3. n \in Nat /\ g.oprs \in Seq(BinaryOps)
    BY DEF FrameType
<1> HIDE DEF term
<1>4. node \in [1..n -> {v \in 1..Len(term) : term[v].op \in BinaryOps}]
    <2>1. ASSUME NEW j \in 1..n
          PROVE  node[j] \in {v \in 1..Len(term) : term[v].op \in BinaryOps}
        <3>1. term[node[j]].op = g.oprs[j]
            BY <1>2 DEF Computes
        <3>2. g.oprs[j] \in BinaryOps
            BY <1>3
        <3> QED
            BY <3>1, <3>2
    <2> QED
        BY <2>1
<1>5. Len(g.args) = n + 1
    OBVIOUS
<1> HIDE DEF n
<1>6. \E b \in [1..n -> {v \in 1..Len(term) : term[v].op \in BinaryOps}] :
          Computes(g.args, g.oprs, term, b, 1, n, m'.reg[g.pn])
    BY <1>2, <1>4
<1> QED
    BY <1>1, <1>5, <1>6 DEF GroupsByPriority, Top, n, term

-----------------------------------------------------------------------------
(* What p_read_expression does to what it has parsed: its steps.           *)

\* A push adds a word.
LEMMA PushFacts ==
    ASSUME NEW mc \in Machine, NEW r \in Regs
    PROVE  LET b == Push(mc, r) IN
           /\ b \in Machine /\ b.term = mc.term /\ b.reg = mc.reg
           /\ Len(b.stack) = Len(mc.stack) + 1
           /\ b.stack[Len(mc.stack) + 1] = mc.reg[r]
           /\ \A k \in 1..Len(mc.stack) : b.stack[k] = mc.stack[k]
           /\ Adding(mc, b, Len(mc.stack))
<1> DEFINE b == Push(mc, r)
<1>1. mc.stack \in Seq(Nat) /\ mc.reg[r] \in Nat /\ mc.term \in Seq(Term)
    BY DEF Machine
<1>2. b.reg = mc.reg /\ b.stack = Append(mc.stack, mc.reg[r]) /\ b.term = mc.term
    BY DEF Push, Machine
<1>3. b \in Machine
    BY PushMachine
<1> HIDE DEF b
<1>4. /\ Len(b.stack) = Len(mc.stack) + 1
      /\ b.stack[Len(mc.stack) + 1] = mc.reg[r]
      /\ \A k \in 1..Len(mc.stack) : b.stack[k] = mc.stack[k]
    BY <1>1, <1>2
<1>5. Adding(mc, b, Len(mc.stack))
    BY <1>1, <1>2, <1>4 DEF Adding, Adds
<1> QED
    BY <1>2, <1>3, <1>4, <1>5 DEF b

\* The last word is taken into register r.
Popped(mc, b, r, n) ==
    /\ b \in Machine /\ b.term = mc.term
    /\ b.reg[r] = mc.stack[n + 1]
    /\ \A s \in Regs : s # r => b.reg[s] = mc.reg[s]
    /\ Len(b.stack) = n /\ \A k \in 1..n : b.stack[k] = mc.stack[k]

\* What a pop does.
LEMMA PopFacts ==
    ASSUME NEW mc \in Machine, NEW r \in Regs, NEW n \in Nat, Len(mc.stack) = n + 1
    PROVE  Popped(mc, Pop(mc, r), r, n)
<1> DEFINE b == Pop(mc, r)
<1>1. mc.stack \in Seq(Nat) /\ mc.reg \in [Regs -> Nat] /\ Len(mc.stack) > 0
    BY DEF Machine
<1>2. /\ b.reg = [mc.reg EXCEPT ![r] = mc.stack[n + 1]] /\ b.term = mc.term
      /\ b.stack = SubSeq(mc.stack, 1, Len(mc.stack) - 1)
    BY DEF Pop, Machine
<1>3. b \in Machine
    BY <1>1, PopMachine
<1> HIDE DEF b
<1>4. b.reg[r] = mc.stack[n + 1] /\ \A s \in Regs : s # r => b.reg[s] = mc.reg[s]
    BY <1>1, <1>2
<1>5. Len(b.stack) = n /\ \A k \in 1..n : b.stack[k] = mc.stack[k]
    <2>1. /\ Len(b.stack) = Len(mc.stack) - 1
          /\ \A k \in 1..Len(b.stack) : b.stack[k] = mc.stack[k]
        BY <1>1, <1>2, AllButLast
    <2> QED
        BY <2>1
<1> QED
    BY <1>2, <1>3, <1>4, <1>5 DEF Popped, b

\* The operator on top is applied to the two words on top: what it computes.
LEMMA ApplyTopAdds ==
    ASSUME VInv, pc = "apply", NEW d \in Nat, Len(Top.ops) = d, d > 0
    PROVE  LET a == ApplyTop(Top)
               v == Len(a.term)
           IN  /\ a \in Machine /\ Adding(m, a, Top.base) /\ Adds(m.term, a.term)
               /\ v \in 1..Len(a.term) /\ a.reg[Top.pn] = v
               /\ a.term[v].op = Top.ops[d]
               /\ a.term[v].l = m.stack[Top.base + d]
               /\ a.term[v].r = m.stack[Top.base + d + 1]
               /\ Len(a.stack) = Top.base + (d - 1)
               /\ Agrees(a.stack, m.stack, Top.base + (d - 1))
<1>0. IInv /\ Top.at \in {"climb", "unwind"} /\ Len(Top.ops) > 0
    BY ApplyFacts, TopValues
<1>1. /\ Top.base \in Nat /\ Top.pn \in Regs /\ Top.pn + 1 \in Regs /\ Top.pn \in Nat
      /\ Top \in FrameType
    BY <1>0, TopFacts
<1>2. Len(m.stack) = Top.base + (d + 1) /\ m \in Machine
    BY <1>0, TopFacts, HeldFacts
<1>3. PICK p \in Regs : p = Top.pn
    BY <1>1
<1>4. PICK r \in Regs : r = Top.pn + 1
    BY <1>1
<1>5. r # p
    BY <1>1, <1>3, <1>4
<1>6. PICK n \in Nat : n = Top.base + d
    BY <1>1
<1>7. PICK k \in Nat : k = Top.base + (d - 1)
    BY <1>1
<1>8. n = k + 1 /\ Len(m.stack) = n + 1 /\ Top.base + d + 1 = n + 1
    <2>1. PICK x \in Nat : x = Top.base
        BY <1>1
    <2>2. n = x + d /\ k = x + (d - 1)
        BY <1>6, <1>7, <2>1
    <2>3. PICK z : z = Len(m.stack)
        OBVIOUS
    <2>4. z = x + (d + 1)
        BY <1>2, <2>1, <2>3
    <2>5. n = k + 1 /\ z = n + 1 /\ x + d + 1 = n + 1
        BY <2>2, <2>4
    <2> QED
        BY <2>1, <2>3, <2>5
<1> DEFINE b == Pop(m, r)
<1>9. /\ b \in Machine /\ b.term = m.term /\ b.reg[r] = m.stack[n + 1]
      /\ Len(b.stack) = n /\ \A h \in 1..n : b.stack[h] = m.stack[h]
    <2>1. Popped(m, b, r, n)
        BY <1>2, <1>8, PopFacts
    <2> HIDE DEF b
    <2> QED
        BY <2>1 DEF Popped
<1> HIDE DEF b
<1> DEFINE c == Pop(b, p)
<1>22. b \in Machine /\ Len(b.stack) = k + 1
    BY <1>8, <1>9
<1>10. /\ c \in Machine /\ c.term = b.term /\ c.reg[p] = b.stack[k + 1]
       /\ \A s \in Regs : s # p => c.reg[s] = b.reg[s]
       /\ Len(c.stack) = k /\ \A h \in 1..k : c.stack[h] = b.stack[h]
    <2>1. Popped(b, c, p, k)
        BY <1>22, PopFacts
    <2> HIDE DEF c
    <2> QED
        BY <2>1 DEF Popped
<1> HIDE DEF c
<1>11. c.reg[p] = m.stack[n] /\ c.reg[r] = m.stack[n + 1]
    <2>1. n \in 1..n
        BY <1>8
    <2> QED
        BY <1>5, <1>8, <1>9, <1>10, <2>1
<1>12. \A h \in 1..k : c.stack[h] = m.stack[h]
    <2>1. \A h \in 1..k : h \in 1..n
        BY <1>8
    <2> QED
        BY <1>9, <1>10, <2>1
<1>13. PICK op \in BinaryOps : op = Top.ops[d]
    <2>1. Top.ops \in Seq(BinaryOps) /\ d \in 1..d
        BY <1>1 DEF FrameType
    <2> QED
        BY <2>1
<1>14. op \in TermOps
    BY DEF TermOps
<1> DEFINE a == Apply(c, op, p, r)
           v == Len(c.term) + 1
<1>15. a \in Machine /\ a.stack = c.stack
    BY <1>10, <1>14, ApplyMachine
<1>16. /\ Adding(c, a, k) /\ Len(a.term) = v /\ a.reg[p] = v
       /\ a.term[v].op = op /\ a.term[v].l = c.reg[p] /\ a.term[v].r = c.reg[r]
    <2>1. c \in Machine
        BY <1>10
    <2> QED
        BY <1>14, <2>1, ApplyAdds
<1>17. a = ApplyTop(Top)
    BY <1>3, <1>4, <1>13 DEF ApplyTop, b, c
<1>18. Len(c.term) \in Nat
    BY <1>10 DEF Machine
<1> HIDE DEF a
<1>19. v \in 1..v
    BY <1>18
<1>20. Adds(m.term, a.term) /\ Agrees(a.stack, m.stack, k)
    BY <1>9, <1>10, <1>12, <1>15, <1>16 DEF Adding, Agrees
<1>21. Adding(m, a, Top.base)
    <2>1. \A h \in 1..Top.base : h \in 1..k
        BY <1>1, <1>7
    <2> QED
        BY <1>20, <2>1 DEF Adding, Agrees
<1> HIDE DEF v
<1> QED
    BY <1>3, <1>6, <1>7, <1>8, <1>10, <1>11, <1>13, <1>15, <1>16, <1>17, <1>19, <1>20, <1>21

\* Reading an operand or an operator.
LEMMA ReadFacts ==
    ASSUME NEW f \in FrameType
    PROVE  /\ \A at : [f EXCEPT !.at = at].args = f.args
           /\ \A op, at : /\ Following(f, op, at).args = f.args
                          /\ Following(f, op, at).oprs = Append(f.oprs, op)
BY DEF Following, FrameType

\* An expression that is not complete has nothing to show.
LEMMA UnfinishedGroups ==
    ASSUME pc' # "expr_done"
    PROVE  GroupsByPriority'
BY Zenon DEF GroupsByPriority

\* The first operand.
LEMMA FirstOperandGroups ==
    ASSUME VInv, Groups(frames, m), FirstOperand
    PROVE  Groups(frames', m') /\ GroupsByPriority'
<1> DEFINE f == WithOperand(Top)
           p == Top.pn
<1>1. /\ IInv /\ Top.at = "first" /\ m' = m /\ m \in Machine /\ p \in Regs
    BY ExpressionValues DEF FirstOperand, ExpressionAts
<1>2. /\ f \in FrameType /\ f.pn = Top.pn /\ f.oprs = Top.oprs
    BY <1>1, WithOperandFacts
<1>3. f.args = Append(Top.args, m.reg[p])
    BY <1>1, WithOperandLow
<1>4. Top.args = << >> /\ Top.oprs = << >>
    <2>1. Len(frames) \in 1..Len(frames)
        BY <1>1, TopFacts
    <2> QED
        BY <1>1, <2>1 DEF Groups, Grouped, Top
<1>5. Len(f.args) = 1 /\ f.args[1] = m.reg[p] /\ Len(f.oprs) = 0
    <2>1. m.reg[p] \in Nat
        BY <1>1 DEF Machine
    <2> QED
        BY <1>2, <1>3, <1>4, <2>1
<1>6. Adding(m, m, Top.base)
    BY <1>1, AddingNothing
<1>0. Below(1) \in Seq(FrameType)
    BY <1>6, GroupsPopped
<1> HIDE DEF f
<1>7. CASE frames' = Append(Below(1), [f EXCEPT !.at = "end"])
    <2> DEFINE g == [f EXCEPT !.at = "end"]
    <2>1. g \in FrameType /\ g.at = "end" /\ g.pn = f.pn /\ g.oprs = f.oprs
        BY <1>2, PlacedFacts DEF ExpressionAts
    <2>2. g.args = f.args
        BY <1>2, ReadFacts
    <2>3. frames' = Append(Below(1), g)
        BY <1>7
    <2> HIDE DEF g
    <2>4. Grouped(g, m.stack, m.term)
        BY <2>1, OtherGrouped
    <2>5. Groups(frames', m')
        BY <1>1, <1>6, <2>1, <2>3, <2>4, GroupsReplaced
    <2>6. Spans(g.args, g.oprs, m.term, 1, 0, g.args[1])
        <3>1. PICK i \in Nat : i = 1
            OBVIOUS
        <3>2. Spans(g.args, g.oprs, m.term, i, i - 1, g.args[i]) /\ i - 1 = 0
            BY <3>1, LeafSpans
        <3> QED
            BY <3>1, <3>2
    <2>7. Spans(g.args, g.oprs, m'.term, 1, Len(g.oprs), m'.reg[g.pn])
        BY <1>1, <1>2, <1>5, <2>1, <2>2, <2>6
    <2>8. Len(g.args) = Len(g.oprs) + 1
        BY <1>5, <2>1, <2>2
    <2>9. GroupsByPriority'
        BY <1>0, <1>1, <2>1, <2>3, <2>7, <2>8, ResultGrouped
    <2> QED
        BY <2>5, <2>9
<1>8. CASE /\ \E op \in BinaryOps : frames' = Append(Below(1), Following(f, op, "second"))
           /\ pc' = "operand"
    <2>1. PICK op \in BinaryOps : frames' = Append(Below(1), Following(f, op, "second"))
        BY <1>8
    <2> DEFINE g == Following(f, op, "second")
    <2>2. /\ g \in FrameType /\ g.at = "second" /\ Len(g.oprs) = Len(f.oprs) + 1
        BY <1>2, FollowingFacts DEF ExpressionAts
    <2>3. g.args = f.args
        BY <1>2, LowFacts
    <2> HIDE DEF g
    <2>4. Grouped(g, m.stack, m.term)
        BY <1>5, <2>2, <2>3 DEF Grouped
    <2>5. Groups(Append(Below(1), g), m)
        BY <1>6, <2>2, <2>4, GroupsReplaced
    <2>7. pc' # "expr_done"
        BY <1>8
    <2>6. GroupsByPriority'
        BY <2>7, UnfinishedGroups
    <2> QED
        BY <1>1, <2>1, <2>5, <2>6 DEF g
<1> QED
    BY <1>7, <1>8 DEF FirstOperand, f

\* Two operands and the operator applied to them.
LEMMA SpansTwo ==
    ASSUME NEW args, NEW oprs, NEW term, Len(term) \in Nat, NEW v \in 1..Len(term),
           term[v].op = oprs[1], term[v].l = args[1], term[v].r = args[2]
    PROVE  Spans(args, oprs, term, 1, 1, v)
<1>1. PICK i \in Nat : i = 1
    OBVIOUS
<1>2. PICK k \in Nat : k = 2
    OBVIOUS
<1>3. /\ Spans(args, oprs, term, i, i - 1, args[i])
      /\ Spans(args, oprs, term, k, k - 1, args[k])
    BY LeafSpans
<1>4. i <= i /\ i + 1 = k /\ k - 1 = i /\ i..(i - 1) = {} /\ (i + 1)..i = {}
    BY <1>1, <1>2
<1>5. /\ Spans(args, oprs, term, i, i - 1, term[v].l)
      /\ Spans(args, oprs, term, i + 1, i, term[v].r)
      /\ term[v].op = oprs[i]
    BY <1>1, <1>2, <1>3, <1>4
<1>6. /\ \A h \in i..(i - 1) :
             p_get_operator_priority(oprs[h]) >= p_get_operator_priority(oprs[i])
      /\ \A h \in (i + 1)..i :
             p_get_operator_priority(oprs[h]) > p_get_operator_priority(oprs[i])
    BY <1>4
<1>7. Spans(args, oprs, term, i, i, v)
    BY <1>4, <1>5, <1>6, SpansJoined
<1> QED
    BY <1>1, <1>7

\* The activation on top has what Grouped says.
LEMMA TopIsGrouped ==
    ASSUME IInv, Groups(frames, m)
    PROVE  Grouped(Top, m.stack, m.term)
<1>1. Len(frames) \in 1..Len(frames)
    BY TopFacts
<1> QED
    BY <1>1 DEF Groups, Top

\* The second operand.
LEMMA SecondOperandGroups ==
    ASSUME VInv, Groups(frames, m), SecondOperand
    PROVE  Groups(frames', m') /\ GroupsByPriority'
<1> DEFINE f == WithOperand(Top)
<1>1. /\ IInv /\ Top.at = "second" /\ m \in Machine /\ Top.pn \in Regs
      /\ Top.pn + 1 \in Regs /\ Top.base \in Nat /\ Top \in FrameType
    BY ExpressionValues DEF SecondOperand, ExpressionAts
<1>2. /\ f \in FrameType /\ f.pn = Top.pn /\ f.oprs = Top.oprs /\ f.base = Top.base
    BY <1>1, WithOperandFacts
<1>3. f.args = Append(Top.args, m.reg[Top.pn + 1])
    BY <1>1 DEF WithOperand, FrameType
<1>4. /\ Len(Top.args) = 1 /\ Len(Top.oprs) = 1 /\ Top.args \in Seq(Nat)
      /\ Top.oprs \in Seq(BinaryOps) /\ m.reg[Top.pn] = Top.args[1]
    <2>1. Grouped(Top, m.stack, m.term)
        BY <1>1, TopIsGrouped
    <2> QED
        BY <1>1, <2>1, TopValues DEF Relies, Grouped, FrameType
<1>5. PICK p \in Regs : p = Top.pn
    BY <1>1
<1>6. PICK s \in Regs : s = Top.pn + 1
    BY <1>1
<1>7. PICK args \in Seq(Nat) : args = f.args
    BY <1>2 DEF FrameType
<1>8. PICK oprs \in Seq(BinaryOps) : oprs = f.oprs
    BY <1>2 DEF FrameType
<1>9. Len(args) = 2 /\ args[1] = m.reg[p] /\ args[2] = m.reg[s]
    <2>1. m.reg[s] \in Nat
        BY <1>1 DEF Machine
    <2> QED
        BY <1>3, <1>4, <1>5, <1>6, <1>7, <2>1
<1>10. Len(oprs) = 1 /\ oprs[1] \in BinaryOps
    BY <1>2, <1>4, <1>8
<1>11. PICK op1 \in BinaryOps : op1 = oprs[1]
    BY <1>10
<1> HIDE DEF f
<1>12. CASE /\ m' = Apply(m, f.oprs[1], f.pn, f.pn + 1)
            /\ frames' = Append(Below(1), [f EXCEPT !.at = "end"])
    <2> DEFINE g == [f EXCEPT !.at = "end"]
    <2>1. g \in FrameType /\ g.at = "end" /\ g.pn = f.pn /\ g.oprs = f.oprs
        BY <1>2, PlacedFacts DEF ExpressionAts
    <2>2. g.args = f.args
        BY <1>2, ReadFacts
    <2>3. frames' = Append(Below(1), g)
        BY <1>12
    <2> HIDE DEF g
    <2>4. m' = Apply(m, op1, p, s)
        BY <1>2, <1>5, <1>6, <1>8, <1>11, <1>12
    <2>5. op1 \in TermOps
        BY DEF TermOps
    <2>6. PICK v : v = Len(m.term) + 1
        OBVIOUS
    <2>7. /\ m' \in Machine /\ Adding(m, m', Top.base)
          /\ Len(m'.term) = v /\ m'.reg[p] = v
          /\ m'.term[v].op = op1 /\ m'.term[v].l = m.reg[p] /\ m'.term[v].r = m.reg[s]
        <3>1. m' \in Machine
            BY <1>1, <2>4, <2>5, ApplyMachine
        <3> DEFINE a == Apply(m, op1, p, s)
                   w == Len(m.term) + 1
        <3>4. PICK h : h = Top.base
            OBVIOUS
        <3>5. m \in Machine
            BY <1>1
        <3>2. /\ Adding(m, a, h) /\ Len(a.term) = w /\ a.reg[p] = w
              /\ a.term[w].op = op1 /\ a.term[w].l = m.reg[p] /\ a.term[w].r = m.reg[s]
            BY <2>5, <3>5, ApplyAdds
        <3>3. m' = a /\ v = w
            BY <2>4, <2>6
        <3> HIDE DEF a, w
        <3> QED
            BY <3>1, <3>2, <3>3, <3>4
    <2>8. Len(m'.term) \in Nat /\ v \in 1..Len(m'.term)
        <3>1. Len(m.term) \in Nat
            BY <1>1 DEF Machine
        <3> QED
            BY <2>6, <2>7, <3>1
    <2>9. PICK term : term = m'.term
        OBVIOUS
    <2>10. Spans(args, oprs, term, 1, 1, v)
        BY <1>9, <1>11, <2>7, <2>8, <2>9, SpansTwo
    <2>11. Spans(g.args, g.oprs, m'.term, 1, Len(g.oprs), m'.reg[g.pn])
        BY <1>2, <1>5, <1>7, <1>8, <1>10, <2>1, <2>2, <2>7, <2>9, <2>10
    <2>12. Len(g.args) = Len(g.oprs) + 1
        <3>1. Len(g.args) = 2 /\ Len(g.oprs) = 1
            BY <1>7, <1>8, <1>9, <1>10, <2>1, <2>2
        <3> QED
            BY <3>1
    <2>13. Below(1) \in Seq(FrameType)
        BY <2>7, GroupsPopped
    <2>14. GroupsByPriority'
        BY <2>1, <2>3, <2>7, <2>11, <2>12, <2>13, ResultGrouped
    <2>15. Grouped(g, m'.stack, m'.term)
        BY <2>1, OtherGrouped
    <2>16. Groups(frames', m')
        BY <2>1, <2>3, <2>7, <2>15, GroupsReplaced
    <2> QED
        BY <2>14, <2>16
<1>13. CASE /\ \E op \in BinaryOps :
                  /\ m' = Push(Push(m, f.pn), f.pn + 1)
                  /\ frames' = Append(Below(1),
                         [Following(f, op, "climb") EXCEPT !.ops = <<f.oprs[1]>>])
            /\ pc' = "apply"
    <2>1. PICK op \in BinaryOps :
              frames' = Append(Below(1),
                     [Following(f, op, "climb") EXCEPT !.ops = <<f.oprs[1]>>])
        BY <1>13
    <2> DEFINE e == Following(f, op, "climb")
               o == <<f.oprs[1]>>
               g == [e EXCEPT !.ops = o]
    <2>2. e \in FrameType /\ e.at = "climb" /\ e.base = f.base
        BY <1>2, FollowingFacts DEF ExpressionAts
    <2>3. e.args = f.args /\ e.oprs = Append(f.oprs, op)
        BY <1>2, ReadFacts
    <2>4. o \in Seq(BinaryOps) /\ Len(o) = 1 /\ o[1] = op1
        BY <1>8, <1>11
    <2> HIDE DEF e, o
    <2>5. /\ g \in FrameType /\ g.at = "climb" /\ g.base = Top.base
          /\ g.args = args /\ g.oprs = Append(oprs, op) /\ g.ops = o
        BY <1>2, <1>7, <1>8, <2>2, <2>3, <2>4 DEF FrameType
    <2> HIDE DEF g
    <2>6. Len(g.oprs) = 2 /\ g.oprs[1] = op1
        <3>1. 1 \in 1..Len(oprs) /\ Len(oprs) + 1 = 2
            BY <1>10
        <3>2. Len(Append(oprs, op)) = Len(oprs) + 1 /\ Append(oprs, op)[1] = oprs[1]
            BY <3>1
        <3> QED
            BY <1>11, <2>5, <3>1, <3>2
    <2>7. m' = Push(Push(m, p), s)
        BY <1>2, <1>5, <1>6, <1>13
    <2> DEFINE a == Push(m, p)
    <2>8. /\ a \in Machine /\ a.term = m.term /\ a.reg = m.reg
          /\ Len(a.stack) = Len(m.stack) + 1
          /\ a.stack[Len(m.stack) + 1] = m.reg[p]
          /\ Adding(m, a, Len(m.stack))
        BY <1>1, PushFacts
    <2> HIDE DEF a
    <2>9. /\ m'.term = a.term
          /\ m'.stack[Len(a.stack) + 1] = a.reg[s]
          /\ \A k \in 1..Len(a.stack) : m'.stack[k] = a.stack[k]
          /\ Adding(a, m', Len(a.stack))
        <3>1. m' = Push(a, s)
            BY <2>7 DEF a
        <3> QED
            BY <2>8, <3>1, PushFacts
    <2>10. Len(m.stack) = Top.base
        <3>1. Held(Top) = 0
            BY <1>1 DEF Held
        <3> QED
            BY <1>1, <3>1, TopFacts
    <2>11. m'.stack[g.base + 1] = args[1] /\ m'.stack[g.base + 2] = args[2]
        <3>1. g.base + 1 \in 1..Len(a.stack) /\ Len(a.stack) + 1 = g.base + 2
            BY <1>1, <2>5, <2>8, <2>10
        <3>2. m'.stack[g.base + 1] = a.stack[g.base + 1]
            BY <2>9, <3>1
        <3>3. a.stack[g.base + 1] = m.reg[p] /\ a.reg[s] = m.reg[s]
            BY <2>5, <2>8, <2>10
        <3> QED
            BY <1>9, <2>9, <3>1, <3>2, <3>3
    <2>12. Adding(m, m', Top.base)
        <3>1. Adding(a, m', Len(m.stack))
            <4>1. \A k \in 1..Len(m.stack) : k \in 1..Len(a.stack)
                BY <1>1, <2>8, <2>10
            <4> QED
                BY <2>9, <4>1 DEF Adding
        <3> QED
            BY <2>8, <2>10, <3>1, AddingTwice
    <2>13. Parsed(g, m'.stack, m'.term, 1, 1)
        BY <2>4, <2>5, <2>6, <2>11, ParsedTwo
    <2>14. Len(g.args) = Len(g.oprs) /\ Len(g.oprs) - 1 = 1
        BY <1>9, <2>5, <2>6
    <2>15. Grouped(g, m'.stack, m'.term)
        BY <2>5, <2>13, <2>14 DEF Grouped
    <2>16. Groups(Append(Below(1), g), m')
        BY <2>5, <2>12, <2>15, GroupsReplaced
    <2>17. pc' # "expr_done"
        BY <1>13
    <2>18. GroupsByPriority'
        BY <2>17, UnfinishedGroups
    <2> QED
        BY <2>1, <2>16, <2>18 DEF g, e, o
<1> QED
    BY <1>12, <1>13 DEF SecondOperand, f

\* A further operand.
LEMMA LaterOperandGroups ==
    ASSUME VInv, Groups(frames, m), LaterOperand
    PROVE  Groups(frames', m') /\ GroupsByPriority'
<1> DEFINE f == WithOperand(Top)
           e == Len(Top.oprs)
           d == Len(Top.ops)
<1>1. /\ IInv /\ Top.at = "later" /\ m \in Machine /\ Top.pn \in Regs
      /\ Top.base \in Nat /\ Top \in FrameType
    BY ExpressionValues DEF LaterOperand, ExpressionAts
<1>2. /\ f \in FrameType /\ f.pn = Top.pn /\ f.oprs = Top.oprs /\ f.base = Top.base
      /\ f.ops = Top.ops
    BY <1>1, WithOperandFacts
<1>3. f.args = Append(Top.args, m.reg[Top.pn])
    BY <1>1, WithOperandLow
<1>4. /\ Len(Top.args) = e /\ Top.args \in Seq(Nat) /\ e \in Nat /\ d \in Nat
      /\ Top.oprs \in Seq(BinaryOps) /\ Parsed(Top, m.stack, m.term, e, 0)
    <2>1. Grouped(Top, m.stack, m.term)
        BY <1>1, TopIsGrouped
    <2> QED
        BY <1>1, <2>1 DEF Grouped, FrameType
<1>5. /\ Len(f.args) = e + 1 /\ f.args[e + 1] = m.reg[Top.pn]
      /\ \A h \in 1..e : f.args[h] = Top.args[h]
    <2>1. m.reg[Top.pn] \in Nat
        BY <1>1 DEF Machine
    <2> QED
        BY <1>3, <1>4, <2>1
<1>6. Len(m.stack) = Top.base + d
    BY <1>1, HeldFacts, TopFacts
<1>7. m' = Push(m, Top.pn)
    BY <1>2 DEF LaterOperand
<1>8. /\ m'.term = m.term
      /\ m'.stack[Top.base + d + 1] = m.reg[Top.pn]
      /\ \A k \in 1..(Top.base + d) : m'.stack[k] = m.stack[k]
      /\ Adding(m, m', Len(m.stack))
    <2>1. /\ m'.term = m.term
          /\ m'.stack[Len(m.stack) + 1] = m.reg[Top.pn]
          /\ \A k \in 1..Len(m.stack) : m'.stack[k] = m.stack[k]
          /\ Adding(m, m', Len(m.stack))
        BY <1>1, <1>7, PushFacts
    <2> QED
        BY <1>6, <2>1
<1>9. Adding(m, m', Top.base)
    BY <1>8, TopGrouped
<1>10. Len(m.term) \in Nat
    BY <1>1 DEF Machine
<1>11. pc' # "expr_done"
    BY DEF LaterOperand
<1> HIDE DEF f, e, d
<1>12. ASSUME NEW g \in FrameType, g.ops = Top.ops, g.base = Top.base, g.args = f.args,
              \A h \in 1..e : g.oprs[h] = Top.oprs[h]
       PROVE  Parsed(g, m'.stack, m'.term, e, 1)
    <2>1. PICK stack : stack = m.stack
        OBVIOUS
    <2>2. PICK term : term = m.term
        OBVIOUS
    <2>3. PICK btack : btack = m'.stack
        OBVIOUS
    <2>4. Agrees(g.args, Top.args, e) /\ Agrees(g.oprs, Top.oprs, e)
        BY <1>5, <1>12 DEF Agrees
    <2>5. /\ Agrees(btack, stack, Top.base + Len(Top.ops))
          /\ btack[Top.base + Len(Top.ops) + 1] = g.args[e + 1]
        BY <1>5, <1>8, <1>12, <2>1, <2>3 DEF d, Agrees
    <2>6. Parsed(g, btack, term, e, 1)
        BY <1>1, <1>4, <1>10, <1>12, <2>1, <2>2, <2>4, <2>5, ParsedLater
    <2> QED
        BY <1>8, <2>2, <2>3, <2>6
<1>13. CASE frames' = Append(Below(1), [f EXCEPT !.at = "unwind"])
    <2> DEFINE g == [f EXCEPT !.at = "unwind"]
    <2>1. /\ g \in FrameType /\ g.at = "unwind" /\ g.ops = f.ops /\ g.oprs = f.oprs
          /\ g.base = f.base
        BY <1>2, PlacedFacts DEF ExpressionAts
    <2>2. g.args = f.args
        BY <1>2, ReadFacts
    <2> HIDE DEF g
    <2>3. Parsed(g, m'.stack, m'.term, e, 1)
        BY <1>2, <1>12, <2>1, <2>2
    <2>4. Len(g.oprs) = e /\ Len(g.args) = e + 1
        BY <1>2, <1>5, <2>1, <2>2 DEF e
    <2>5. Grouped(g, m'.stack, m'.term)
        BY <2>1, <2>3, <2>4 DEF Grouped
    <2>6. Groups(Append(Below(1), g), m')
        BY <1>9, <2>1, <2>5, GroupsReplaced
    <2> QED
        BY <1>11, <1>13, <2>6, UnfinishedGroups DEF g
<1>14. CASE \E op \in BinaryOps : frames' = Append(Below(1), Following(f, op, "climb"))
    <2>1. PICK op \in BinaryOps : frames' = Append(Below(1), Following(f, op, "climb"))
        BY <1>14
    <2> DEFINE g == Following(f, op, "climb")
    <2>2. /\ g \in FrameType /\ g.at = "climb" /\ g.base = f.base /\ g.ops = f.ops
        BY <1>2, FollowingFacts DEF ExpressionAts
    <2>3. g.args = f.args /\ g.oprs = Append(f.oprs, op)
        BY <1>2, ReadFacts
    <2> HIDE DEF g
    <2>4. Len(g.oprs) = e + 1 /\ \A h \in 1..e : g.oprs[h] = Top.oprs[h]
        BY <1>2, <1>4, <2>3 DEF e
    <2>5. Parsed(g, m'.stack, m'.term, e, 1)
        BY <1>2, <1>12, <2>2, <2>3, <2>4
    <2>6. Len(g.args) = Len(g.oprs) /\ Len(g.oprs) - 1 = e
        BY <1>4, <1>5, <2>3, <2>4
    <2>7. Grouped(g, m'.stack, m'.term)
        BY <2>2, <2>5, <2>6 DEF Grouped
    <2>8. Groups(Append(Below(1), g), m')
        BY <1>9, <2>2, <2>7, GroupsReplaced
    <2> QED
        BY <1>11, <2>1, <2>8, UnfinishedGroups DEF g
<1> QED
    BY <1>13, <1>14 DEF LaterOperand, f

\* What a pop of op_stack leaves.
LEMMA PopOpFacts ==
    ASSUME NEW f \in FrameType, NEW d \in Nat, Len(f.ops) = d, d > 0
    PROVE  /\ PopOp(f).args = f.args /\ PopOp(f).oprs = f.oprs
           /\ PopOp(f).base = f.base /\ PopOp(f).at = f.at /\ PopOp(f).pn = f.pn
           /\ Len(PopOp(f).ops) = d - 1 /\ Agrees(PopOp(f).ops, f.ops, d - 1)
<1> DEFINE r == SubSeq(f.ops, 1, Len(f.ops) - 1)
<1>1. f.ops \in Seq(BinaryOps)
    BY DEF FrameType
<1>2. Len(r) = Len(f.ops) - 1 /\ \A j \in 1..Len(r) : r[j] = f.ops[j]
    BY <1>1, AllButLast
<1> HIDE DEF r
<1>3. Agrees(r, f.ops, d - 1) /\ Len(r) = d - 1
    BY <1>2 DEF Agrees
<1>4. PopOp(f) = [f EXCEPT !.ops = r]
    BY DEF PopOp, r
<1>5. /\ PopOp(f).args = f.args /\ PopOp(f).oprs = f.oprs /\ PopOp(f).ops = r
      /\ PopOp(f).base = f.base /\ PopOp(f).at = f.at /\ PopOp(f).pn = f.pn
    BY <1>4 DEF FrameType
<1> QED
    BY <1>3, <1>5

\* The operator on top has been applied, and its value is pushed or it is that
\* of the expression.
LEMMA TopApplied ==
    ASSUME VInv, pc = "apply", NEW d \in Nat, Len(Top.ops) = d, d > 0,
           NEW e \in Nat, Parsed(Top, m.stack, m.term, e, 1),
           Top.at = "climb" => p_get_operator_priority(Top.ops[d])
                                   >= p_get_operator_priority(Top.oprs[e + 1]),
           NEW a, a = ApplyTop(Top), NEW b, b = Push(a, Top.pn)
    PROVE  /\ a \in Machine /\ Adding(m, a, Top.base) /\ Adding(m, b, Top.base)
           /\ Parsed(PopOp(Top), b.stack, b.term, e, 1)
           /\ d = 1 => Spans(Top.args, Top.oprs, a.term, 1, e, a.reg[Top.pn])
<1>1. /\ IInv /\ Top \in FrameType /\ Top.pn \in Regs /\ Top.base \in Nat /\ m \in Machine
    BY TopFacts, TopValues
<1>2. PICK v : v = Len(a.term)
    OBVIOUS
<1>3. /\ a \in Machine /\ Adding(m, a, Top.base) /\ Adds(m.term, a.term)
      /\ v \in 1..Len(a.term) /\ a.reg[Top.pn] = v
      /\ a.term[v].op = Top.ops[d]
      /\ a.term[v].l = m.stack[Top.base + d]
      /\ a.term[v].r = m.stack[Top.base + d + 1]
      /\ Len(a.stack) = Top.base + (d - 1)
      /\ Agrees(a.stack, m.stack, Top.base + (d - 1))
    BY <1>2, ApplyTopAdds
<1>4. /\ b.term = a.term /\ b.stack[Len(a.stack) + 1] = a.reg[Top.pn]
      /\ \A k \in 1..Len(a.stack) : b.stack[k] = a.stack[k]
      /\ Adding(a, b, Len(a.stack))
    <2>1. a \in Machine
        BY <1>3
    <2> QED
        BY <1>1, <2>1, PushFacts
<1>5. b.stack[Top.base + d] = v
    <2>1. Len(a.stack) + 1 = Top.base + d
        BY <1>1, <1>3
    <2> QED
        BY <1>3, <1>4, <2>1
<1>6. Agrees(b.stack, m.stack, Top.base + (d - 1))
    BY <1>3, <1>4 DEF Agrees
<1>7. Adding(m, b, Top.base)
    <2>1. \A k \in 1..Top.base : k \in 1..(Top.base + (d - 1))
        BY <1>1
    <2> QED
        BY <1>3, <1>4, <1>6, <2>1 DEF Adding, Agrees
<1>8. PICK f \in FrameType : f = Top
    BY <1>1
<1>9. PICK g \in FrameType : g = PopOp(Top)
    <2>1. Len(Top.ops) > 0
        OBVIOUS
    <2>2. PopOp(Top) \in FrameType
        BY <1>1, <2>1, ApplyFacts
    <2> QED
        BY <2>2
<1>10. /\ g.args = f.args /\ g.oprs = f.oprs /\ g.base = f.base /\ g.at = f.at
       /\ Len(g.ops) = d - 1 /\ Agrees(g.ops, f.ops, d - 1)
    BY <1>8, <1>9, PopOpFacts
<1>11. PICK berm : berm = a.term
    OBVIOUS
<1>12. PICK term : term = m.term
    OBVIOUS
<1>13. PICK stack : stack = m.stack
    OBVIOUS
<1>14. PICK btack : btack = b.stack
    OBVIOUS
<1>15. PopsTop(f, stack, term, e, d, g, btack, berm, v)
    BY <1>3, <1>6, <1>8, <1>10, <1>11, <1>12, <1>13, <1>14 DEF PopsTop
<1>16. /\ btack[f.base + d] = v => Parsed(g, btack, berm, e, 1)
       /\ d = 1 => Spans(g.args, g.oprs, berm, 1, e, v)
    BY <1>15, ParsedApplied
<1> QED
    BY <1>3, <1>4, <1>5, <1>7, <1>8, <1>9, <1>10, <1>11, <1>14, <1>16

\* A stacked operator is applied.
LEMMA ApplyStackedGroups ==
    ASSUME VInv, Groups(frames, m), ApplyStacked
    PROVE  Groups(frames', m') /\ GroupsByPriority'
<1> DEFINE g == PopOp(Top)
           e == Len(Top.oprs) - 1
           d == Len(Top.ops)
<1>1. /\ IInv /\ pc = "apply" /\ Top.at = "climb" /\ d > 0 /\ pc' = "apply"
      /\ Top \in FrameType
    BY TopValues, TopFacts DEF ApplyStacked, AppliesFirst
<1>2. /\ Top.ops \in Seq(BinaryOps) /\ Top.oprs \in Seq(BinaryOps)
      /\ d \in Nat /\ e \in Nat /\ e + 1 = Len(Top.oprs)
    <2>1. Len(Top.oprs) > 0
        BY <1>1, TopFacts DEF Good, FrameOK
    <2>2. /\ Top.ops \in Seq(BinaryOps) /\ Top.oprs \in Seq(BinaryOps)
        BY <1>1 DEF FrameType
    <2> QED
        BY <2>1, <2>2
<1>3. Len(Top.args) = Len(Top.oprs) /\ Parsed(Top, m.stack, m.term, e, 1)
    BY <1>1, TopIsGrouped DEF Grouped
<1>4. p_get_operator_priority(Top.ops[d]) >= p_get_operator_priority(Top.oprs[e + 1])
    BY <1>2 DEF ApplyStacked, AppliesFirst
<1>5. m' = Push(ApplyTop(Top), Top.pn) /\ frames' = Append(Below(1), g)
    BY DEF ApplyStacked
<1> HIDE DEF e, d
<1>6. Adding(m, m', Top.base) /\ Parsed(g, m'.stack, m'.term, e, 1)
    BY <1>1, <1>2, <1>3, <1>4, <1>5, TopApplied DEF d
<1>7. g \in FrameType /\ g.at = "climb" /\ g.args = Top.args /\ g.oprs = Top.oprs
    BY <1>1, <1>2, ApplyFacts, PopOpFacts DEF d
<1> HIDE DEF g
<1>8. Grouped(g, m'.stack, m'.term)
    BY <1>3, <1>6, <1>7 DEF Grouped, e
<1>9. Groups(frames', m')
    BY <1>5, <1>6, <1>7, <1>8, GroupsReplaced
<1> QED
    BY <1>1, <1>9, UnfinishedGroups

\* An operator is stacked.
LEMMA PushOperatorGroups ==
    ASSUME VInv, Groups(frames, m), PushOperator
    PROVE  Groups(frames', m') /\ GroupsByPriority'
<1> DEFINE e == Len(Top.oprs) - 1
           d == Len(Top.ops)
           op == Top.oprs[Len(Top.oprs)]
           o == Append(Top.ops, op)
           g == [Top EXCEPT !.ops = o, !.at = "later"]
<1>1. /\ IInv /\ Top.at = "climb" /\ pc' = "operand" /\ m' = m /\ m \in Machine
      /\ Top \in FrameType
    BY ExpressionValues DEF PushOperator, ExpressionAts
<1>2. /\ Top.ops \in Seq(BinaryOps) /\ Top.oprs \in Seq(BinaryOps)
      /\ d \in Nat /\ e \in Nat /\ e + 1 = Len(Top.oprs)
    <2>1. Len(Top.oprs) > 0
        BY <1>1, TopFacts DEF Good, FrameOK
    <2>2. /\ Top.ops \in Seq(BinaryOps) /\ Top.oprs \in Seq(BinaryOps)
        BY <1>1 DEF FrameType
    <2> QED
        BY <2>1, <2>2
<1>3. Len(Top.args) = Len(Top.oprs) /\ Parsed(Top, m.stack, m.term, e, 1)
    BY <1>1, TopIsGrouped DEF Grouped
<1>4. op \in BinaryOps
    BY <1>2
<1>5. d > 0 => p_get_operator_priority(Top.ops[d]) < p_get_operator_priority(Top.oprs[e + 1])
    <2>1. /\ p_get_operator_priority(Top.ops[d]) \in Nat
          /\ p_get_operator_priority(Top.oprs[e + 1]) \in Nat
        BY PriorityRange
    <2> QED
        BY <1>2, <2>1 DEF PushOperator, AppliesFirst
<1>6. frames' = Append(Below(1), g)
    BY DEF PushOperator
<1>7. op = Top.oprs[e + 1]
    BY <1>2
<1> HIDE DEF e, op
<1>8. o \in Seq(BinaryOps) /\ Len(o) = d + 1 /\ o[d + 1] = op /\ Agrees(o, Top.ops, d)
    BY <1>2, <1>4 DEF Agrees
<1> HIDE DEF d, o
<1>9. "later" \in UNION {Ats(c) : c \in Functions}
    <2>1. "later" \in Ats("expression") /\ "expression" \in Functions
        BY DEF Ats, Functions
    <2> QED
        BY <2>1
<1>10. /\ g \in FrameType /\ g.at = "later" /\ g.base = Top.base /\ g.args = Top.args
       /\ g.oprs = Top.oprs /\ g.ops = o
    BY <1>1, <1>8, <1>9 DEF FrameType
<1> HIDE DEF g
<1>11. Parsed(g, m.stack, m.term, e + 1, 0)
    <2>1. PICK f \in FrameType : f = Top
        BY <1>1
    <2>2. PICK term : term = m.term
        OBVIOUS
    <2>3. PICK stack : stack = m.stack
        OBVIOUS
    <2>4. StacksTop(f, stack, term, e, d, g)
        BY <1>1, <1>2, <1>3, <1>5, <1>7, <1>8, <1>10, <2>1, <2>2, <2>3 DEF StacksTop, d
    <2>5. Parsed(g, stack, term, e + 1, 0)
        BY <2>4, ParsedStacked
    <2> QED
        BY <2>2, <2>3, <2>5
<1>12. Grouped(g, m.stack, m.term)
    <2>1. e + 1 = Len(g.oprs) /\ Len(g.args) = Len(g.oprs)
        BY <1>2, <1>3, <1>10
    <2> QED
        BY <1>10, <1>11, <2>1 DEF Grouped
<1>13. Groups(Append(Below(1), g), m)
    BY <1>1, <1>10, <1>12, AddingNothing, GroupsReplaced
<1> QED
    BY <1>1, <1>6, <1>13, UnfinishedGroups

\* The operators left are applied; with the last the expression is complete.
LEMMA UnwindGroups ==
    ASSUME VInv, Groups(frames, m), Unwind
    PROVE  Groups(frames', m') /\ GroupsByPriority'
<1> DEFINE h == PopOp(Top)
           e == Len(Top.oprs)
           d == Len(Top.ops)
<1>1. /\ IInv /\ pc = "apply" /\ Top.at = "unwind" /\ d > 0 /\ Top \in FrameType
    BY TopValues, TopFacts DEF Unwind
<1>2. d \in Nat /\ e \in Nat
    BY <1>1 DEF FrameType
<1>3. Len(Top.args) = e + 1 /\ Parsed(Top, m.stack, m.term, e, 1)
    BY <1>1, TopIsGrouped DEF Grouped
<1>4. PICK a : a = ApplyTop(Top)
    OBVIOUS
<1>5. PICK b : b = Push(a, Top.pn)
    OBVIOUS
<1> HIDE DEF e, d
<1>6. /\ a \in Machine /\ Adding(m, a, Top.base) /\ Adding(m, b, Top.base)
      /\ Parsed(h, b.stack, b.term, e, 1)
      /\ d = 1 => Spans(Top.args, Top.oprs, a.term, 1, e, a.reg[Top.pn])
    <2>1. Top.at # "climb" /\ Len(Top.ops) = d
        BY <1>1 DEF d
    <2> QED
        BY <1>1, <1>2, <1>3, <1>4, <1>5, <2>1, TopApplied
<1>7. /\ h \in FrameType /\ h.at = "unwind" /\ h.pn = Top.pn /\ h.args = Top.args
      /\ h.oprs = Top.oprs
    BY <1>1, <1>2, ApplyFacts, PopOpFacts DEF d
<1> HIDE DEF h
<1>8. CASE d = 1
    <2> DEFINE g == [h EXCEPT !.at = "end"]
    <2>1. m' = a /\ frames' = Append(Below(1), g)
        BY <1>4, <1>8 DEF Unwind, h, d
    <2>2. g \in FrameType /\ g.at = "end" /\ g.pn = h.pn /\ g.oprs = h.oprs
        BY <1>7, PlacedFacts DEF ExpressionAts
    <2>3. g.args = h.args
        BY <1>7, ReadFacts
    <2> HIDE DEF g
    <2>4. Grouped(g, a.stack, a.term)
        BY <2>2, OtherGrouped
    <2>5. Groups(frames', m')
        BY <1>6, <2>1, <2>2, <2>4, GroupsReplaced
    <2>6. Below(1) \in Seq(FrameType)
        BY <1>6, GroupsPopped
    <2>7. /\ Len(g.args) = Len(g.oprs) + 1
          /\ Spans(g.args, g.oprs, a.term, 1, Len(g.oprs), a.reg[g.pn])
        BY <1>3, <1>6, <1>7, <1>8, <2>2, <2>3 DEF e
    <2>8. GroupsByPriority'
        BY <1>6, <2>1, <2>2, <2>6, <2>7, ResultGrouped
    <2> QED
        BY <2>5, <2>8
<1>9. CASE d # 1
    <2>1. m' = b /\ frames' = Append(Below(1), h) /\ pc' = pc
        BY <1>4, <1>5, <1>9 DEF Unwind, h, d
    <2>2. Grouped(h, b.stack, b.term)
        BY <1>3, <1>6, <1>7 DEF Grouped, e
    <2>3. Groups(frames', m')
        BY <1>6, <1>7, <2>1, <2>2, GroupsReplaced
    <2>4. pc' # "expr_done"
        BY <1>1, <2>1
    <2> QED
        BY <2>3, <2>4, UnfinishedGroups
<1> QED
    BY <1>8, <1>9

-----------------------------------------------------------------------------
(* The invariant of the specification, with what is parsed.                *)

\* Nothing has been read.
LEMMA GroupsInitially ==
    ASSUME Init
    PROVE  GInv
<1>1. VInv
    BY ValuesInitially
<1>2. PICK pn \in StartRegs :
          frames = << Frame(Machine0, "expression", "first", pn, FALSE) >>
    BY DEF Init
<1> DEFINE f == Frame(Machine0, "expression", "first", pn, FALSE)
<1>3. Grouped(f, m.stack, m.term)
    BY NewGrouped
<1> HIDE DEF f
<1>4. frames = <<f>>
    BY <1>2 DEF f
<1>5. Groups(frames, m)
    BY <1>3, <1>4 DEF Groups
<1>6. GroupsByPriority
    BY DEF Init, GroupsByPriority
<1> QED
    BY <1>1, <1>5, <1>6 DEF GInv

\* A step that changes nothing keeps it.
LEMMA GroupsUnchanged ==
    ASSUME Groups(frames, m), GroupsByPriority, UNCHANGED vars
    PROVE  Groups(frames', m') /\ GroupsByPriority'
<1>1. frames' = frames /\ m' = m /\ pc' = pc
    BY DEF vars
<1>2. Groups(frames', m')
    BY <1>1
<1>3. GroupsByPriority'
    BY <1>1 DEF GroupsByPriority, Top
<1> QED
    BY <1>2, <1>3

\* Every step keeps what has been parsed, and ends with what was meant.
LEMMA GroupsStep ==
    ASSUME VInv, Groups(frames, m), GroupsByPriority, Next
    PROVE  Groups(frames', m') /\ GroupsByPriority'
<1>1. CASE Operand
    <2>1. CASE Reject
        <3>1. frames' = frames /\ m' = m /\ pc' # "expr_done"
            BY <2>1 DEF Reject
        <3> QED
            BY <3>1, UnfinishedGroups
    <2>2. Groups(frames', m')
        BY <1>1, <2>1, OperandConstantGroups, OperandFunctionNameGroups, OperandNotGroups,
           OperandParenGroups, OperandLvalueGroups, OperandStarGroups, OperandCallGroups,
           NotDoneGroups
        DEF Operand
    <2>3. pc' # "expr_done"
        BY <1>1 DEF Operand, OperandConstant, OperandFunctionName, OperandNot, OperandParen,
           OperandLvalue, OperandStar, OperandCall, NotDone, Reject
    <2> QED
        BY <2>2, <2>3, UnfinishedGroups
<1>2. CASE Call
    <2>1. Groups(frames', m')
        BY <1>2, NextArgumentGroups, EndCallGroups, PointerCallGroups DEF Call
    <2>2. pc' # "expr_done"
        BY <1>2 DEF Call, NextArgument, EndCall, PointerCall
    <2> QED
        BY <2>1, <2>2, UnfinishedGroups
<1>3. CASE Lvalue
    <2>1. Groups(frames', m')
        BY <1>3, StartIndexGroups, MemberGroups, AddressOfGroups, PointerPlusGroups,
           PointerPlusDoneGroups, EvaluateGroups, LvalueDoneGroups
        DEF Lvalue
    <2>2. pc' # "expr_done"
        BY <1>3 DEF Lvalue, StartIndex, Member, AddressOf, PointerPlus, PointerPlusDone,
           Evaluate, LvalueDone
    <2> QED
        BY <2>1, <2>2, UnfinishedGroups
<1>4. CASE Expr
    <2>1. CASE ReturnToParen \/ ReturnToCall \/ ReturnToIndex
        <3>1. Groups(frames', m')
            BY <2>1, ReturnToParenGroups, ReturnToCallGroups, ReturnToIndexGroups
        <3>2. pc' # "expr_done"
            BY <2>1 DEF ReturnToParen, ReturnToCall, ReturnToIndex
        <3> QED
            BY <3>1, <3>2, UnfinishedGroups
    <2> QED
        BY <1>4, <2>1, FirstOperandGroups, SecondOperandGroups, LaterOperandGroups,
           ApplyStackedGroups, PushOperatorGroups, UnwindGroups
        DEF Expr
<1>5. CASE Terminating
    BY <1>5, GroupsUnchanged DEF Terminating
<1> QED
    BY <1>1, <1>2, <1>3, <1>4, <1>5 DEF Next

\* So it holds of every reachable state.
LEMMA GroupsInvariance == Spec => []GInv
<1>1. Init => GInv
    BY GroupsInitially
<1>2. GInv /\ [Next]_vars => GInv'
    <2>1. SUFFICES ASSUME GInv, [Next]_vars
                   PROVE  GInv'
        OBVIOUS
    <2>2. VInv /\ Groups(frames, m) /\ GroupsByPriority
        BY <2>1 DEF GInv
    <2>3. VInv'
        <3>1. IInv'
            BY <2>1, <2>2, Inductive, TopValues
        <3>2. CASE Next
            BY <2>2, <3>1, <3>2, ValuesStep DEF VInv
        <3>3. CASE UNCHANGED vars
            BY <2>2, <3>1, <3>3 DEF VInv, vars, Values
        <3> QED
            BY <2>1, <3>2, <3>3
    <2>4. CASE Next
        BY <2>2, <2>3, <2>4, GroupsStep DEF GInv
    <2>5. CASE UNCHANGED vars
        BY <2>2, <2>3, <2>5, GroupsUnchanged DEF GInv
    <2> QED
        BY <2>1, <2>4, <2>5
<1> QED
    BY <1>1, <1>2, PTL DEF Spec

\* For an expression of any length: the code computes the tree that the
\* operator priorities describe over the operands of p_read_expression.
\* Operators of higher priority bind tighter, equal ones group to the left, and
\* every operand is used exactly once and in order.  A + directly behind a
\* pointer or an array belongs to an operand, not to these operators.
THEOREM ExpressionGroups == Spec => []GroupsByPriority
<1>1. GInv => GroupsByPriority
    BY DEF GInv
<1> QED
    BY <1>1, GroupsInvariance, PTL

=============================================================================
