---------------------------- MODULE RPNRegisters ----------------------------
(***************************************************************************)
(* The RPN stack of Calculator as a sequence of structures (rpn_stack) and *)
(* the pure effect of the operations on it.  Register 1 is the last        *)
(* element, register Len(stack) the first; an index outside is ignored.    *)
(* What an operation drops from the stack it also unreferences.            *)
(***************************************************************************)
EXTENDS Integers, SequencesExt

HasRegister(stack, i) == i \in 1..Len(stack)

\* Position of register i in the vector.
Position(stack, i) == Len(stack) - i + 1

Register(stack, i) == stack[Position(stack, i)]

RPNStackEnter(stack, x) == Append(stack, x)

setRPNRegister(stack, i, x) ==
    IF HasRegister(stack, i) THEN ReplaceAt(stack, Position(stack, i), x) ELSE stack

deleteRPNRegister(stack, i) ==
    IF HasRegister(stack, i) THEN RemoveAt(stack, Position(stack, i)) ELSE stack

\* The stack without its n first registers.
DropRegisters(stack, n) == SubSeq(stack, 1, Len(stack) - n)

\* A result replaces register 1, or becomes it on an empty stack.
ReplaceFirst(stack, x) ==
    IF stack = <<>> THEN RPNStackEnter(stack, x) ELSE setRPNRegister(stack, 1, x)

\* A binary operation: register 1 goes, register 2 becomes the result.
OperationTwo(stack, x) ==
    ReplaceFirst(IF Len(stack) > 1 THEN deleteRPNRegister(stack, 1) ELSE stack, x)

\* Registers a function of n arguments removes before its result is stored;
\* a negative n stands for all of them.
Consumed(stack, n) ==
    IF Len(stack) <= 1 \/ n \in {0, 1} THEN 0
    ELSE IF n < 0 \/ n > Len(stack) THEN Len(stack) - 1
    ELSE n - 1

OperationFunction(stack, n, x) ==
    LET rest == DropRegisters(stack, Consumed(stack, n))
    IN  IF n = 0 THEN RPNStackEnter(rest, x) ELSE ReplaceFirst(rest, x)

Commands == {"none", "add", "set", "op1", "op2", "opF"}

\* The calculation thread's switch on tmp_proc_command: arg is the register
\* index of "set" and the number of consumed registers of "opF".
Perform(stack, command, arg, x) ==
    CASE command = "none" -> stack
      [] command = "add"  -> RPNStackEnter(stack, x)
      [] command = "set"  -> setRPNRegister(stack, arg, x)
      [] command = "op1"  -> ReplaceFirst(stack, x)
      [] command = "op2"  -> OperationTwo(stack, x)
      [] command = "opF"  -> OperationFunction(stack, arg, x)
=============================================================================
