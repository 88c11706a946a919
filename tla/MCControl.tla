----------------------------- MODULE MCControl -----------------------------
(* Two limits, so that one call's is not taken for another's, and two bases.  *)
EXTENDS Control
==============================================================================
