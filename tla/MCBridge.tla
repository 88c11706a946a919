------------------------------ MODULE MCBridge ------------------------------
(***************************************************************************)
(* Instances of Bridge: a request of plain letters, one with a unit whose  *)
(* low byte is 0 and one of non-ASCII letters; results shorter and longer  *)
(* than each other, one holding a byte with the high bit set and one a NUL.*)
(***************************************************************************)
EXTENDS Bridge

MCRequests == {<<49>>, <<256, 50>>, <<50, 8730>>}
MCResults == {<<>>, <<51>>, <<52, 53>>, <<54, 55, 56>>, <<226, 57>>, <<54, 0, 56>>}
=============================================================================
