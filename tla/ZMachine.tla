------------------------------ MODULE ZMachine ------------------------------
(***************************************************************************)
(* The interpreter of hiptop/zmachine/ZMachine.java: operands and variables,  *)
(* the stack that all routines share, calls and returns, branches, save,      *)
(* restore and restart.  A position in the code is a routine and a number; a  *)
(* game is any sequence of instructions, with jumps back to a routine's start.*)
(***************************************************************************)
EXTENDS Integers, Sequences, FiniteSets, FiniteSetsExt, SequencesExt

CONSTANTS
    Word,        \* number of values of a word; 65536 in the code
    LocalsOf,    \* a sequence: how many locals each routine has
    DefaultOf,   \* what version 3 loads them with
    Operand,     \* operands: constants, and variables to read
    StoreVars,   \* variables that instructions name: 0 the stack, 1.. locals, 16.. globals
    StackSize,   \* length of `stack'; 4096
    LocalMax,    \* length of the locals of a frame; 16
    MaxDepth, MaxPc, MaxInstr    \* bounds

VARIABLES
    zver,        \* version of the game: 3 or 5
    zm,          \* mem (one global), stack, frames, whether DIE was called
    zsaved,      \* what the last save wrote, or nothing
    zinstr       \* instructions so far

zmachineVars == <<zver, zm, zsaved, zinstr>>

NoRes == -1
Signed(v) == IF v >= Word \div 2 THEN v - Word ELSE v

\* Slip: every routine may use the whole stack.
ZFrameLow(pc, sp) == [pc |-> pc, sp |-> sp, bp |-> 0, res |-> 0, locals |-> [i \in 1..LocalMax |-> 0]]

ZFrame(pc, sp) == [pc |-> pc, sp |-> sp, bp |-> sp, res |-> 0, locals |-> [i \in 1..LocalMax |-> 0]]
Boot(glob) == [glob |-> glob, stack |-> [i \in 0..StackSize - 1 |-> 0],
               frames |-> <<ZFrame(<<0, 0>>, 0)>>, dead |-> FALSE]

ZMachineInit ==
    /\ zver \in {3, 5}
    /\ zm = Boot(0) /\ zsaved = <<>> /\ zinstr = 0

-----------------------------------------------------------------------------
frame(z) == Last(z.frames)
WithFrame(z, f) == [z EXCEPT !.frames[Len(z.frames)] = f]
Die(z) == [z EXCEPT !.dead = TRUE]

\* Load: its value, and what it leaves; variable 0 is popped.
ValueOf(z, id) ==
    CASE id = 0 -> IF frame(z).sp > 0 THEN z.stack[frame(z).sp - 1] ELSE 0
      [] id \in 1..LocalMax -> frame(z).locals[id]
      [] OTHER -> z.glob

\* Slip: a routine may pop what its caller has pushed.
LoadedAny(z, id) ==
    IF id # 0 THEN z ELSE
    LET f == [frame(z) EXCEPT !.sp = @ - 1]
    IN  IF f.sp < 0 THEN Die(WithFrame(z, f)) ELSE WithFrame(z, f)

Loaded(z, id) ==
    IF id # 0 THEN z ELSE
    LET f == [frame(z) EXCEPT !.sp = @ - 1]
    IN  IF f.sp < f.bp THEN Die(WithFrame(z, f)) ELSE WithFrame(z, f)

\* Store; pushing past the end of the array throws, which ends in DIE too.
Store(z, id, val) ==
    LET f == frame(z)  v == val % Word
    IN  CASE id = 0 -> IF f.sp = StackSize THEN Die(z)
                       ELSE WithFrame([z EXCEPT !.stack[f.sp] = v], [f EXCEPT !.sp = @ + 1])
          [] id \in 1..LocalMax -> WithFrame(z, [f EXCEPT !.locals[id] = v])
          [] OTHER -> [z EXCEPT !.glob = v]

\* Return: the frame goes (`freelist' stays as it was), and its caller gets the value.
Return(z, value) ==
    LET up == [z EXCEPT !.frames = Front(@)]
    IN  IF Len(z.frames) = 1 THEN Die(z)
        ELSE IF frame(z).res = NoRes THEN up
        ELSE Store(up, frame(z).res, value)

\* Branch, to another place or out of the routine.
BranchTo == {"false", "true", "back"}
Branch(z, cond, on, to) ==
    CASE cond # on -> z
      [] to = "false" -> Return(z, 0)
      [] to = "true" -> Return(z, 1)
      [] OTHER -> WithFrame(z, [frame(z) EXCEPT !.pc[2] = 0])

\* op_call: a frame above the caller's part of the stack, locals with defaults in
\* version 3, arguments as far as there are locals.  Routine 0 only returns 0.
op_call(z, args, res) ==
    LET r == args[1]
        l == LocalsOf[r]
        fresh == [i \in 1..LocalMax |-> IF i <= l /\ zver = 3 THEN DefaultOf[r] ELSE 0]
        given == [i \in 1..LocalMax |-> IF i <= Min({Len(args) - 1, l}) THEN args[i + 1] ELSE fresh[i]]
    IN  IF r = 0 THEN IF res = NoRes THEN z ELSE Store(z, res, 0)
        ELSE [z EXCEPT !.frames = Append(@, [ZFrame(<<r, 0>>, frame(z).sp) EXCEPT
                                              !.locals = given, !.res = res])]

-----------------------------------------------------------------------------
\* Operands are constants, or variables that are read from left to right.
Decode(z, ops) ==
    FoldLeft(LAMBDA acc, o : IF o.kind = "const" THEN [acc EXCEPT !.args = Append(@, o.v)]
                             ELSE [z |-> Loaded(acc.z, o.v), args |-> Append(acc.args, ValueOf(acc.z, o.v))],
             [z |-> WithFrame(z, [frame(z) EXCEPT !.pc[2] = @ + 1]), args |-> <<>>], ops)

\* One turn of execute: the operands, and then what the instruction does.
Execute(ops, Effect(_, _)) ==
    LET d == Decode(zm, ops)
    IN  /\ ~zm.dead /\ zinstr < MaxInstr /\ frame(zm).pc[2] < MaxPc
        /\ zm' = IF d.z.dead THEN d.z ELSE Effect(d.z, d.args)
        /\ zinstr' = zinstr + 1

\* 2OP: arithmetic, which truncates to a word, and logic.  Division by 0 throws.
Arith(op, x, y, to) ==
    /\ Execute(<<x, y>>, LAMBDA z, a :
          LET m == Signed(a[1])  n == Signed(a[2])
              quot == (IF m < 0 THEN -m ELSE m) \div (IF n < 0 THEN -n ELSE n)
              div == IF (m < 0) = (n < 0) THEN quot ELSE -quot
          IN  IF op \in {"div", "mod"} /\ n = 0 THEN Die(z)
              ELSE Store(z, to, CASE op = "add" -> m + n
                                  [] op = "sub" -> m - n
                                  [] op = "mul" -> m * n
                                  [] op = "div" -> div
                                  [] op = "mod" -> m - n * div))
    /\ UNCHANGED <<zver, zsaved>>

\* Comparisons, and inc_chk and dec_chk, which change a variable first.
Compare(op, x, y, on, to) ==
    /\ Execute(<<x, y>>, LAMBDA z, a :
          Branch(z, CASE op = "je" -> a[1] = a[2]
                      [] op = "jl" -> Signed(a[1]) < Signed(a[2])
                      [] op = "jg" -> Signed(a[1]) > Signed(a[2]), on, to))
    /\ UNCHANGED <<zver, zsaved>>

IncCheck(by, id, y, to) ==
    /\ Execute(<<[kind |-> "const", v |-> 0], y>>, LAMBDA z, a :
          LET t == (ValueOf(z, id) + by) % Word
              s == Store(Loaded(z, id), id, t)
          IN  IF Loaded(z, id).dead THEN Loaded(z, id)
              ELSE Branch(s, IF by = 1 THEN Signed(t) > Signed(a[2]) ELSE Signed(t) < Signed(a[2]), TRUE, to))
    /\ UNCHANGED <<zver, zsaved>>

\* store, load, inc, dec, push, pull and pop.
MoveValue(op, id, x) ==
    /\ Execute(IF op \in {"store", "push"} THEN <<x>> ELSE <<>>, LAMBDA z, a :
          LET from == IF op \in {"pull", "pop"} THEN 0 ELSE id
              l == Loaded(z, from)
              v == ValueOf(z, from)
          IN  CASE op = "store" -> Store(z, id, a[1])
                [] op = "push"  -> Store(z, 0, a[1])
                [] l.dead -> l
                [] op = "pop"   -> l
                [] op = "pull"  -> Store(l, id, v)
                [] op = "load"  -> Store(l, 0, v)
                [] op = "inc"   -> Store(l, id, v + 1)
                [] op = "dec"   -> Store(l, id, v - 1))
    /\ UNCHANGED <<zver, zsaved>>

\* call_1s, call_2s, call with results, and in version 5 the ones without.
Call(r, ops, res) ==
    /\ res = NoRes => zver = 5
    /\ Len(zm.frames) < MaxDepth
    /\ Execute(<<[kind |-> "const", v |-> r]>> \o ops, LAMBDA z, a : op_call(z, a, res))
    /\ UNCHANGED <<zver, zsaved>>

\* ret, rtrue, rfalse and ret_popped.
Ret(x) ==
    /\ Execute(<<x>>, LAMBDA z, a : Return(z, a[1]))
    /\ UNCHANGED <<zver, zsaved>>

-----------------------------------------------------------------------------
\* save(): memory, the stack up to sp, and the frames, the current one first.
FrameWords(f) == <<f.pc, f.sp, f.bp, LocalMax>> \o f.locals
save(z) ==
    <<z.glob, frame(z).sp>> \o [i \in 1..frame(z).sp |-> z.stack[i - 1]] \o
    <<Len(z.frames)>> \o FlattenSeq([i \in 1..Len(z.frames) |-> FrameWords(Reverse(z.frames)[i])])

\* Slip: a frame begins at its sp, as ZFrame() leaves it.
FrameAtTop(w, p) ==
    [ZFrame(w[p], w[p + 1]) EXCEPT !.locals = [j \in 1..w[p + 3] |-> w[p + 3 + j]]]

\* A frame out of the words from p on; where its result goes is not among them.
FrameAt(w, p) ==
    [ZFrame(w[p], w[p + 1]) EXCEPT !.bp = w[p + 2], !.locals = [j \in 1..w[p + 3] |-> w[p + 3 + j]]]

\* restore(state): cells of the stack above what was saved stay as they are.
restore(z, w) ==
    LET top == w[2]
        c   == w[3 + top]
        read == FoldLeft(LAMBDA acc, i : [p |-> acc.p + 4 + w[acc.p + 3],
                                          frames |-> <<FrameAt(w, acc.p)>> \o acc.frames],
                         [p |-> 4 + top, frames |-> <<>>], [i \in 1..c |-> i])
    IN  [z EXCEPT !.glob = w[1], !.frames = read.frames,
                  !.stack = [i \in 0..StackSize - 1 |-> IF i < top THEN w[3 + i] ELSE z.stack[i]]]

\* save, whose Save() says TRUE also when the user has cancelled; in version 3 it
\* branches, in version 5 it stores 1.
SaveOp(kept, id, to) ==
    /\ kept => zsaved = <<>>    \* bound: one save
    /\ Execute(<<>>, LAMBDA z, a : IF zver = 3 THEN Branch(z, TRUE, TRUE, to) ELSE Store(z, id, 1))
    /\ zsaved' = IF kept THEN save(Decode(zm, <<>>).z) ELSE zsaved
    /\ UNCHANGED zver

\* restore goes on behind the save, with a branch or a 2, and behind itself if there
\* is nothing to restore.
RestoreOp(chosen, id, to) ==
    /\ chosen => zsaved # <<>>
    /\ Execute(<<>>, LAMBDA z, a :
          LET s == IF chosen THEN restore(z, zsaved) ELSE z
          IN  IF zver = 3 THEN Branch(s, chosen, TRUE, to) ELSE Store(s, id, IF chosen THEN 2 ELSE 0))
    /\ UNCHANGED <<zver, zsaved>>

\* restart, and quit, which restarts too.  The array of the stack stays.
Restart ==
    /\ Execute(<<>>, LAMBDA z, a : [Boot(0) EXCEPT !.stack = z.stack])
    /\ UNCHANGED <<zver, zsaved>>

ZMachineNext ==
    \/ \E op \in {"add", "sub", "mul", "div", "mod"}, x, y \in Operand, to \in StoreVars : Arith(op, x, y, to)
    \/ \E op \in {"je", "jl", "jg"}, x, y \in Operand, on \in BOOLEAN, to \in BranchTo : Compare(op, x, y, on, to)
    \/ \E by \in {1, -1}, id \in StoreVars, y \in Operand, to \in BranchTo :
         IncCheck(by, id, y, to)
    \/ \E op \in {"store", "push"}, id \in StoreVars, x \in Operand : MoveValue(op, id, x)
    \/ \E op \in {"pull", "pop", "load", "inc", "dec"}, id \in StoreVars : MoveValue(op, id, 0)
    \/ \E r \in 0..Len(LocalsOf), ops \in BoundedSeq(Operand, 2), res \in StoreVars \cup {NoRes} :
         Call(r, ops, res)
    \/ \E x \in Operand : Ret(x)
    \/ \E kept \in BOOLEAN, id \in StoreVars, to \in BranchTo : SaveOp(kept, id, to)
    \/ \E chosen \in BOOLEAN, id \in StoreVars, to \in BranchTo : RestoreOp(chosen, id, to)
    \/ Restart

ZMachineSpec == ZMachineInit /\ [][ZMachineNext]_zmachineVars
-----------------------------------------------------------------------------
\* Every routine has its own part of the stack: it begins where its caller's ends,
\* and ends where its callee's begins, also after a restore.
StacksApart ==
    ~zm.dead =>
        /\ zm.frames # <<>>
        /\ \A k \in 1..Len(zm.frames) :
             LET f == zm.frames[k]
             IN  /\ f.bp <= f.sp /\ f.sp <= StackSize
                 /\ f.bp = IF k = 1 THEN 0 ELSE zm.frames[k - 1].sp

\* What a caller has pushed is there when the routines that it called are done: while
\* there is a routine, only a restore changes what is below its part of the stack.
CallersKept ==
    [][\A k \in 1..Len(zm.frames) :
         (Len(zm'.frames) >= k /\ zm'.frames[k].bp = zm.frames[k].bp /\ ~zm'.dead
            /\ (zsaved = <<>> \/ zm' # restore(zm, zsaved)))
         => \A i \in 0..zm.frames[k].bp - 1 : zm'.stack[i] = zm.stack[i]]_zmachineVars

\* What restore() makes of what save() wrote is the state that was saved: memory, the
\* stack, and every frame with its part of it and its locals, but not the variable
\* that waits for its result.
RestoreIsSave ==
    ~zm.dead =>
        LET back == restore(Boot(0), save(zm))
        IN  /\ back.glob = zm.glob
            /\ \A i \in 0..frame(zm).sp - 1 : back.stack[i] = zm.stack[i]
            /\ back.frames = [k \in 1..Len(zm.frames) |-> [zm.frames[k] EXCEPT !.res = 0]]

\* call, Return, save and restore: frames do not overlap, a caller finds its stack
\* again, and what was saved is what is restored.
FramesKept == [](StacksApart /\ RestoreIsSave) /\ CallersKept
=============================================================================
