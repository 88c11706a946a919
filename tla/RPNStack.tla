----------------------------- MODULE RPNStack ------------------------------
(***************************************************************************)
(* The RPN interface of Calculator, one call after the other: each returns *)
(* with its calculation finished (CalculateThread has the interleaving).   *)
(* rpn_stack is a vector of owned references, register 1 at its end.       *)
(*                                                                         *)
(* Most operations exist twice: one sets the command that the calculation  *)
(* thread performs (Perform), the other calculates and works on rpn_stack  *)
(* itself.  A call names which, and for a logical not whether the caller   *)
(* asked for the parsed structure.                                         *)
(*                                                                         *)
(* A structure is a number, a new one the smallest that is not in use.     *)
(***************************************************************************)
EXTENDS RPNRegisters, FiniteSetsExt

CONSTANTS Operators,       \* the binary operations, "subtract" and "divide" among them
          Arities,         \* how many arguments the functions take from the stack:
                           \* none, or minargs() and at least one.  Left out: one
                           \* whose last argument is a vector of all registers
          MaxRegisters     \* bound: registers

ASSUME RPNStackAssumption ==
    /\ Operators \subseteq {"add", "subtract", "divide", "multiply"}
    /\ Arities \subseteq Nat
    /\ MaxRegisters \in Nat

VARIABLES rpn_stack,
          refs,       \* the structures' reference counts, 0 when freed
          made,       \* the call last made, and the operands of what it computed
          defined     \* no undefined behaviour so far

stackVars == <<rpn_stack, refs, made, defined>>
-----------------------------------------------------------------------------
Indices == 0..MaxRegisters + 1
Record(name, i, j) == [name |-> name, i |-> i, j |-> j]
Made(c, args, thread) ==
    [name |-> c.name, i |-> c.i, j |-> c.j, args |-> args, thread |-> thread]
StackCalls ==
    {Record(name, i, 0) : name \in {"set", "evaluate", "delete", "up", "down"}, i \in Indices}
    \cup {Record("move", i, j) : i \in Indices, j \in Indices}
    \cup {Record(name, 0, 0) : name \in Operators \cup {"enter", "duplicate", "clear", "not"}}
    \cup {Record("function", n, 0) : n \in Arities}

\* The operations of the vector; each index is that of the code plus one.
MutMoveRPNRegister(stack, old, new) ==
    LET o == Position(stack, old)
        n == IF new > Len(stack) THEN 1 ELSE Position(stack, new)
    IN  IF old = new \/ ~HasRegister(stack, old) THEN stack
        ELSE IF new <= 1 /\ new <= Len(stack) THEN RemoveAt(Append(stack, stack[o]), o)
        ELSE IF n > o THEN InsertAt(RemoveAt(stack, o), n - 1, stack[o])
        ELSE IF n < o THEN RemoveAt(InsertAt(stack, n, stack[o]), o + 1)
        ELSE stack

moveRPNRegister(stack, old, new) ==
    LET o == Position(stack, old)
        n == IF new > Len(stack) THEN 1 ELSE Position(stack, new)
    IN  IF old = new \/ ~HasRegister(stack, old) THEN stack
        ELSE IF new <= 1 /\ new <= Len(stack) THEN RemoveAt(Append(stack, stack[o]), o)
        ELSE IF n > o THEN InsertAt(RemoveAt(stack, o), n, stack[o])
        ELSE IF n < o THEN RemoveAt(InsertAt(stack, n, stack[o]), o + 1)
        ELSE stack

moveRPNRegisterUp(stack, i) ==
    LET p == Position(stack, i)
    IN  IF i > 1 /\ i <= Len(stack)
        THEN InsertAt(RemoveAt(stack, p), p + 1, stack[p]) ELSE stack

moveRPNRegisterDown(stack, i) ==
    LET p == Position(stack, i)
    IN  IF i > 0 /\ i < Len(stack)
        THEN InsertAt(RemoveAt(stack, p), p - 1, stack[p]) ELSE stack

Structures == 1..MaxRegisters + 1

StackInit ==
    /\ rpn_stack = <<>> /\ refs = [s \in Structures |-> 0]
    /\ made = Made(Record("none", 0, 0), <<>>, FALSE)
    /\ defined = TRUE

Unused == {s \in Structures : refs[s] = 0}
New == Min(Unused)
OrZero(i) == IF HasRegister(rpn_stack, i) THEN Register(rpn_stack, i) ELSE 0

\* The first n registers.
First(n) == {Register(rpn_stack, i) : i \in {k \in 1..n : HasRegister(rpn_stack, k)}}

Called(c, args, thread) ==
    /\ defined /\ c \in StackCalls
    /\ made' = Made(c, args, thread)

\* References held by the vector are dropped (unref); a new structure comes
\* with the one that the vector takes over.
MutReleased(dropped, s) == refs[s]
MutReleasedTwice(dropped, s) == IF s \in dropped THEN refs[s] - 2 ELSE refs[s]
Released(dropped, s) == IF s \in dropped THEN refs[s] - 1 ELSE refs[s]

Unref(dropped) == refs' = [s \in Structures |-> Released(dropped, s)]
UnrefAndNew(dropped) ==
    /\ Unused # {}
    /\ refs' = [s \in Structures |-> IF s = New THEN 1 ELSE Released(dropped, s)]

Room == Len(rpn_stack) < MaxRegisters

\* RPNStackEnter; an empty expression copies register 1.
Enter ==
    /\ Room
    /\ \/ Called(Record("enter", 0, 0), <<>>, FALSE)
       \/ Called(Record("duplicate", 0, 0), IF rpn_stack = <<>> THEN <<>> ELSE <<Last(rpn_stack)>>, FALSE)
    /\ UnrefAndNew({})
    /\ rpn_stack' = RPNStackEnter(rpn_stack, New)
    /\ UNCHANGED defined

\* setRPNRegister, and calculateRPNRegister, which sets what it evaluated.
Set(i) ==
    /\ HasRegister(rpn_stack, i)
    /\ \/ Called(Record("set", i, 0), <<>>, FALSE)
       \/ Called(Record("evaluate", i, 0), <<Register(rpn_stack, i)>>, FALSE)
    /\ UnrefAndNew({Register(rpn_stack, i)})
    /\ rpn_stack' = setRPNRegister(rpn_stack, i, New)
    /\ UNCHANGED defined

SetNothing(i) ==
    /\ ~HasRegister(rpn_stack, i)
    /\ \E name \in {"set", "evaluate"} : Called(Record(name, i, 0), <<>>, FALSE)
    /\ UNCHANGED <<rpn_stack, refs, defined>>

Delete(i) ==
    /\ Called(Record("delete", i, 0), <<>>, FALSE)
    /\ Unref(IF HasRegister(rpn_stack, i) THEN {Register(rpn_stack, i)} ELSE {})
    /\ rpn_stack' = deleteRPNRegister(rpn_stack, i)
    /\ UNCHANGED defined

clearRPNStack ==
    /\ Called(Record("clear", 0, 0), <<>>, FALSE)
    /\ Unref(ToSet(rpn_stack))
    /\ rpn_stack' = <<>>
    /\ UNCHANGED defined

Move(i, j) ==
    /\ \/ Called(Record("move", i, j), <<>>, FALSE) /\ rpn_stack' = moveRPNRegister(rpn_stack, i, j)
       \/ Called(Record("up", i, 0), <<>>, FALSE) /\ rpn_stack' = moveRPNRegisterUp(rpn_stack, i)
       \/ Called(Record("down", i, 0), <<>>, FALSE) /\ rpn_stack' = moveRPNRegisterDown(rpn_stack, i)
    /\ UNCHANGED <<refs, defined>>

\* What a binary operation is applied to; with one register the two variants
\* differ: the one for the thread starts from 0 or 1 when it subtracts or
\* divides, and from the register itself in every other operation.
One == -1
Operands(op, async) ==
    IF async /\ Len(rpn_stack) = 1
    THEN <<CASE op = "subtract" -> 0 [] op = "divide" -> One [] OTHER -> OrZero(1), OrZero(1)>>
    ELSE <<OrZero(2), OrZero(1)>>

Binary(op, async) ==
    /\ Room \/ rpn_stack # <<>>
    /\ Called(Record(op, 0, 0), Operands(op, async), async)
    /\ UnrefAndNew(First(2))
    /\ rpn_stack' = IF async THEN Perform(rpn_stack, "op2", 0, New)
                    ELSE OperationTwo(rpn_stack, New)
    /\ UNCHANGED defined

\* calculateRPNBitwiseNot and calculateRPNLogicalNot.  The latter's variant
\* for the thread copies register 1 into the parsed structure unasked.
Not(logical, parsed, async) ==
    /\ Room \/ rpn_stack # <<>>
    /\ Called(Record("not", 0, 0), <<OrZero(1)>>, async)
    /\ UnrefAndNew(First(1))
    /\ rpn_stack' = IF async THEN Perform(rpn_stack, "op1", 0, New)
                    ELSE ReplaceFirst(rpn_stack, New)
    /\ defined' = ~(logical /\ parsed /\ async /\ rpn_stack = <<>>)

\* The arguments of a function of n arguments: register n first.  Taken
\* counts those that are registers (iregs).
Arguments(n) == [k \in 1..n |-> OrZero(n - k + 1)]
Taken(n) == Min({n, Len(rpn_stack)})

AsyncFunction(n) ==
    /\ Room \/ Taken(n) > 0
    /\ Called(Record("function", n, 0), Arguments(n), TRUE)
    /\ UnrefAndNew(First(Taken(n)))
    /\ rpn_stack' = Perform(rpn_stack, "opF", Taken(n), New)
    /\ UNCHANGED defined

\* The other variant removes two registers in each of its Taken(n) - 1 rounds
\* while more than one is left, and then writes to the last element, defined
\* only if there is one.
Removed(n) ==
    IF Taken(n) = 0 THEN 0 ELSE 2 * Min({Taken(n) - 1, Len(rpn_stack) \div 2})

SyncFunction(n) ==
    /\ Room \/ Taken(n) > 0
    /\ Called(Record("function", n, 0), Arguments(n), FALSE)
    /\ UnrefAndNew(IF Taken(n) = 0 THEN {} ELSE First(Removed(n) + 1))
    /\ rpn_stack' = LET rest == DropRegisters(rpn_stack, Removed(n))
                    IN  IF Taken(n) = 0 THEN RPNStackEnter(rest, New)
                        ELSE setRPNRegister(rest, 1, New)
    /\ defined' = (Taken(n) = 0 \/ Removed(n) < Len(rpn_stack))
-----------------------------------------------------------------------------
StackNext ==
    \/ Enter \/ clearRPNStack
    \/ \E i \in Indices : Set(i) \/ SetNothing(i) \/ Delete(i) \/ \E j \in Indices : Move(i, j)
    \/ \E op \in Operators, async \in BOOLEAN : Binary(op, async)
    \/ \E logical, parsed, async \in BOOLEAN : Not(logical, parsed, async)
    \/ \E n \in Arities : AsyncFunction(n) \/ SyncFunction(n)

StackSpec == StackInit /\ [][StackNext]_stackVars
-----------------------------------------------------------------------------
\* The registers hold structures, the operands of the last call are structures,
\* zero or one.
StackTypeOK ==
    /\ rpn_stack \in Seq(Structures) /\ Len(rpn_stack) <= MaxRegisters
    /\ refs \in [Structures -> {0, 1}]
    /\ made.args \in Seq(Structures \cup {0, One})
    /\ Record(made.name, made.i, made.j) \in StackCalls \cup {Record("none", 0, 0)}
    /\ made.thread \in BOOLEAN /\ defined \in BOOLEAN

\* A structure has exactly as many references as the stack has registers with
\* it, one or none: nothing on the stack was freed, nothing off it is leaked,
\* and no two registers share a structure, whatever was moved or replaced.
OwnedOnce ==
    defined => \A s \in Structures :
        refs[s] = Cardinality({p \in DOMAIN rpn_stack : rpn_stack[p] = s})

Documented == INSTANCE RPNSpec
    WITH registers <- Reverse(rpn_stack), Calls <- StackCalls,
         call <- [name |-> made.name, i |-> made.i, j |-> made.j, args |-> made.args]

\* The calls that do what they are documented to do.  Calculator.h of
\* calculateRPN(MathOperation): "If not enough registers is available, then
\* zeros are added", which the variant for the thread does not with one register
\* unless it subtracts.  Of calculateRPNLogicalNot: "If no register is available,
\* then zero is added", where the variant for the thread reads one.  And the
\* synchronous function of several registers drops twice as many.
FollowsDocumentation ==
    /\ defined'
    /\ ~(made'.name \in Operators \ {"subtract"} /\ made'.thread /\ Len(rpn_stack) = 1)
    /\ ~(made'.name = "function" /\ ~made'.thread /\ Taken(made'.i) > 1)

\* Seen by register numbers, the vector does what RPNSpec promises, whichever
\* calls came before.
ImplementsSpec ==
    /\ Documented!Init
    /\ [][FollowsDocumentation => Documented!Next]_stackVars
=============================================================================
