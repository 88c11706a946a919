------------------------- MODULE MCCalculateThread -------------------------
(***************************************************************************)
(* Instances of CalculateThread.  The calls: calculate() of an expression  *)
(* with and without a time limit, calculateRPN() entering a value and      *)
(* applying a binary operation, convertTimeOut().                          *)
(***************************************************************************)
EXTENDS CalculateThread

Expr(timed) == [kind |-> "parse", cmd |-> "none", arg |-> 0, timed |-> timed]
Rpn(kind, cmd, arg, timed) == [kind |-> kind, cmd |-> cmd, arg |-> arg, timed |-> timed]
Convert(timed) == [kind |-> "convert", cmd |-> "none", arg |-> 0, timed |-> timed]

MCRequests == {Expr(TRUE), Expr(FALSE), Rpn("parse", "add", 0, TRUE),
               Rpn("value", "op2", 0, FALSE), Convert(TRUE)}

MCForcedRequests == {Expr(FALSE), Rpn("parse", "add", 0, TRUE)}

\* For a single question.
MCExprOnly == {Expr(FALSE)}
=============================================================================
