----------------------------- MODULE MCMessages ------------------------------
(***************************************************************************)
(* One message of each type, the warning about a wide interval.            *)
(***************************************************************************)
EXTENDS Messages

MCForced == [text |-> "a", type |-> "error", wide |-> FALSE]
MCReports == {MCForced,
              [text |-> "b", type |-> "warning", wide |-> TRUE],
              [text |-> "c", type |-> "information", wide |-> FALSE]}
=============================================================================
