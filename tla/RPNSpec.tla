------------------------------ MODULE RPNSpec ------------------------------
(***************************************************************************)
(* What the RPN stack promises its client: a list of registers numbered    *)
(* from 1, and calls that speak of register numbers only.                  *)
(*                                                                         *)
(* A structure is a positive number, a new one the smallest in no register *)
(* (memory is used again); 0 is the value zero that stands in for a        *)
(* missing register.  call is the call last made, with the operands of     *)
(* what it computed.                                                       *)
(***************************************************************************)
EXTENDS Integers, SequencesExt, FiniteSetsExt

CONSTANT Calls    \* records [name, i, j]

VARIABLES registers, call

New == Min((1..Len(registers) + 1) \ ToSet(registers))
Has(i) == i \in 1..Len(registers)
OrZero(i) == IF Has(i) THEN registers[i] ELSE 0

Init == registers = <<>> /\ call = [name |-> "none", i |-> 0, j |-> 0, args |-> <<>>]

\* A value comes first on the stack.
Enter(args) == registers' = <<New>> \o registers /\ args = <<>>

\* An empty expression copies register 1.
Duplicate(args) ==
    /\ registers' = <<New>> \o registers
    /\ args = IF Has(1) THEN <<registers[1]>> ELSE <<>>

\* A new value in place of register i, or its own value evaluated.
Replace(i) == registers' = IF Has(i) THEN [registers EXCEPT ![i] = New] ELSE registers
Set(i, args) == Replace(i) /\ args = <<>>
Evaluate(i, args) == Replace(i) /\ args = IF Has(i) THEN <<registers[i]>> ELSE <<>>

Delete(i, args) ==
    /\ registers' = IF Has(i) THEN RemoveAt(registers, i) ELSE registers
    /\ args = <<>>

Clear(args) == registers' = <<>> /\ args = <<>>

\* Register i becomes register j, the others keep their order.
Relocate(i, j, args) ==
    /\ registers' = IF Has(i) /\ Has(j)
                    THEN InsertAt(RemoveAt(registers, i), j, registers[i])
                    ELSE registers
    /\ args = <<>>

\* A destination outside the stack means its nearest end.
Move(i, j, args) ==
    Relocate(i, IF j < 1 THEN 1 ELSE IF j > Len(registers) THEN Len(registers) ELSE j, args)

\* The first k registers are replaced by the result computed from them: the
\* highest is the first operand, missing ones are zero.
Apply(k, args) ==
    /\ args = [n \in 1..k |-> OrZero(k - n + 1)]
    /\ registers' = <<New>> \o SubSeq(registers, k + 1, Len(registers))

Performed(c, args) ==
    CASE c.name = "enter"     -> Enter(args)
      [] c.name = "duplicate" -> Duplicate(args)
      [] c.name = "set"       -> Set(c.i, args)
      [] c.name = "evaluate"  -> Evaluate(c.i, args)
      [] c.name = "delete"    -> Delete(c.i, args)
      [] c.name = "clear"     -> Clear(args)
      [] c.name = "move"      -> Move(c.i, c.j, args)
      [] c.name = "up"        -> Relocate(c.i, c.i - 1, args)
      [] c.name = "down"      -> Relocate(c.i, c.i + 1, args)
      [] c.name = "not"       -> Apply(1, args)
      [] c.name = "function"  -> Apply(c.i, args)
      [] OTHER                -> Apply(2, args)

Next ==
    /\ [name |-> call'.name, i |-> call'.i, j |-> call'.j] \in Calls
    /\ Performed(call', call'.args)

Spec == Init /\ [][Next]_<<registers, call>>
=============================================================================
