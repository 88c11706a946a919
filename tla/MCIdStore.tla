----------------------------- MODULE MCIdStore ------------------------------
(***************************************************************************)
(* Two contents tell whose value an id stands for.                         *)
(***************************************************************************)
EXTENDS IdStore

CONSTANTS v1, v2, empty
MCValues == {v1, v2}
=============================================================================
