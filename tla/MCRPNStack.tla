----------------------------- MODULE MCRPNStack -----------------------------
(***************************************************************************)
(* Instances of RPNStack.                                                  *)
(***************************************************************************)
EXTENDS RPNStack

MCOperators == {"add", "subtract", "divide"}
MCArities == 0..3
=============================================================================
