----------------------------- MODULE MessageLog ------------------------------
(***************************************************************************)
(* What the message functions of Calculator promise: one log of messages   *)
(* in the order they were reported, no text twice, with savepoints.        *)
(* Beginning a temporary stop sets a savepoint; ending it either keeps     *)
(* what was reported since or takes it back.  The client reads the log up  *)
(* to the first savepoint.                                                 *)
(***************************************************************************)
EXTENDS Integers, SequencesExt

CONSTANT Reports    \* messages: records [text, type, wide]

VARIABLES log,
          marks,    \* the savepoints: lengths of the log
          asked     \* what the last end of a stop was to do

Init == log = <<>> /\ marks = <<>> /\ asked = "nothing"

Known(m) == \E i \in DOMAIN log : log[i].text = m.text
Readable == IF marks = <<>> THEN Len(log) ELSE marks[1]

\* A report of a known text adds nothing.
Report(m) ==
    /\ log' = IF Known(m) THEN log ELSE Append(log, m)
    /\ UNCHANGED <<marks, asked>>

Begin ==
    /\ marks' = Append(marks, Len(log))
    /\ UNCHANGED <<log, asked>>

\* The stop's messages stay where they are, or none of them does.
End ==
    /\ marks # <<>>
    /\ asked' \in {"keep", "take back"}
    /\ log' = IF asked' = "keep" THEN log ELSE SubSeq(log, 1, Last(marks))
    /\ marks' = Front(marks)

\* Messages taken back earlier are reported again.
Again ==
    /\ IsPrefix(log, log')
    /\ \A i \in DOMAIN log' : log'[i] \in Reports
    /\ \A i, k \in DOMAIN log' : log'[i].text = log'[k].text => i = k
    /\ UNCHANGED <<marks, asked>>

\* The client drops readable messages: those it keeps stay in their order, and
\* before everything that is not readable yet.
Drop ==
    \E n \in 0..Readable : \E kept \in [1..n -> 1..Readable] :
        /\ \A i, k \in 1..n : i < k => kept[i] < kept[k]
        /\ log' = [i \in 1..n |-> log[kept[i]]] \o SubSeq(log, Readable + 1, Len(log))
        /\ marks' = [l \in DOMAIN marks |-> marks[l] - (Readable - n)]
        /\ UNCHANGED asked

\* A forced stop takes everything back and says so.
ForcedStop(m) ==
    /\ marks' = <<>>
    /\ LET kept == SubSeq(log, 1, Readable)
       IN  log' = IF \E i \in DOMAIN kept : kept[i].text = m.text THEN kept ELSE Append(kept, m)
    /\ UNCHANGED asked

Next ==
    \/ \E m \in Reports : Report(m) \/ ForcedStop(m)
    \/ Begin \/ End \/ Again \/ Drop

Spec == Init /\ [][Next]_<<log, marks, asked>>
=============================================================================
