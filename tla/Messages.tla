------------------------------ MODULE Messages -------------------------------
(***************************************************************************)
(* The message queue of Calculator and the temporary stops, begun and      *)
(* ended by the functions a calculation is made of, nested as their calls  *)
(* are.  Four vectors, one entry per stop that is open, and                *)
(* disable_errors_ref, which indexes them.                                 *)
(*                                                                         *)
(* A message is a text with its type and whether its category is           *)
(* MESSAGE_CATEGORY_WIDE_INTERVAL; formatting is left out.                 *)
(***************************************************************************)
EXTENDS Integers, SequencesExt

CONSTANTS Reports,    \* the messages that are reported: [text, type, wide]
          Forced,     \* the one of them that a forced stop reports
          MaxStops,   \* bound: nested stops
          MaxCount    \* bound: reports counted in one stop

Types == {"information", "warning", "error"}
Severity == [information |-> 1, warning |-> 2, error |-> 3]

ASSUME MessagesAssumption ==
    /\ \A m \in Reports : m.type \in Types /\ m.wide \in BOOLEAN
    /\ Forced \in Reports
    /\ MaxStops \in Nat /\ MaxCount \in Nat

VARIABLES messages,
          disable_errors_ref,
          stopped_messages, stopped_errors_count,
          stopped_warnings_count, stopped_messages_count,
          blocked,    \* what a caller of endTemporaryStopMessages received
          worst,      \* history: the worst type reported in each open stop
          asked       \* history: what the last end of a stop was to do

stops == <<stopped_messages, stopped_errors_count, stopped_warnings_count,
           stopped_messages_count>>
vars == <<messages, disable_errors_ref, stops, blocked, worst, asked>>
-----------------------------------------------------------------------------
Init ==
    /\ messages = <<>> /\ disable_errors_ref = 0
    /\ stopped_messages = <<>> /\ stopped_errors_count = <<>>
    /\ stopped_warnings_count = <<>> /\ stopped_messages_count = <<>>
    /\ blocked = <<>> /\ worst = <<>> /\ asked = "nothing"

HasText(seq, m) == \E i \in DOMAIN seq : seq[i].text = m.text

\* dup_error: among the messages, or in one of the n open stops.
Duplicate(m, n, msgs, stopped) ==
    HasText(msgs, m) \/ \E l \in 1..n : HasText(stopped[l], m)

\* The two queues after m, when n stops are open.
Put(m, n, msgs, stopped) ==
    IF Duplicate(m, n, msgs, stopped) THEN <<msgs, stopped>>
    ELSE IF n > 0 THEN <<msgs, [stopped EXCEPT ![n] = Append(@, m)]>>
    ELSE <<Append(msgs, m), stopped>>

\* addMessages(v): one after the other.
PutAll(v, n, msgs, stopped) ==
    LET queues[k \in 0..Len(v)] ==
            IF k = 0 THEN <<msgs, stopped>> ELSE Put(v[k], n, queues[k - 1][1], queues[k - 1][2])
    IN  queues[Len(v)]

Increment(counts, n, yes) == IF n > 0 /\ yes THEN [counts EXCEPT ![n] = @ + 1] ELSE counts

\* message() and error().
Message(m) ==
    LET n == disable_errors_ref
    IN  /\ n > 0 => stopped_messages_count[n] < MaxCount
        /\ stopped_messages_count' = Increment(stopped_messages_count, n, TRUE)
        /\ stopped_errors_count' = Increment(stopped_errors_count, n, m.type = "error")
        /\ stopped_warnings_count' = Increment(stopped_warnings_count, n, m.type = "warning")
        /\ messages' = Put(m, n, messages, stopped_messages)[1]
        /\ stopped_messages' = Put(m, n, messages, stopped_messages)[2]
        /\ worst' = IF n > 0 /\ Severity[m.type] > worst[n]
                    THEN [worst EXCEPT ![n] = Severity[m.type]] ELSE worst
        /\ UNCHANGED <<disable_errors_ref, blocked, asked>>

beginTemporaryStopMessages ==
    /\ disable_errors_ref < MaxStops
    /\ disable_errors_ref' = disable_errors_ref + 1
    /\ stopped_errors_count' = Append(stopped_errors_count, 0)
    /\ stopped_warnings_count' = Append(stopped_warnings_count, 0)
    /\ stopped_messages_count' = Append(stopped_messages_count, 0)
    /\ stopped_messages' = Append(stopped_messages, <<>>)
    /\ worst' = Append(worst, 0)
    /\ UNCHANGED <<messages, blocked, asked>>

\* The end of a stop: its counts go, its messages are added to what is left
\* or not, and go too.
End(release) ==
    LET n == disable_errors_ref
        queues == IF release THEN PutAll(stopped_messages[n], n - 1, messages, stopped_messages)
                  ELSE <<messages, stopped_messages>>
    IN  /\ disable_errors_ref' = n - 1
        /\ stopped_errors_count' = Front(stopped_errors_count)
        /\ stopped_warnings_count' = Front(stopped_warnings_count)
        /\ stopped_messages_count' = Front(stopped_messages_count)
        /\ messages' = queues[1]
        /\ stopped_messages' = Front(queues[2])
        /\ worst' = Front(worst)

\* Whether the third parameter releases the messages of stop n.
MutReleases(type, n) ==
    \/ type = "error" /\ stopped_errors_count[n] > 0
    \/ type = "warning" /\ stopped_warnings_count[n] > 0
    \/ type = "information" /\ stopped_messages_count[n] > 0
Releases(type, n) ==
    \/ stopped_errors_count[n] > 0
    \/ type = "warning" /\ stopped_warnings_count[n] > 0
    \/ type = "information" /\ stopped_messages_count[n] > 0

\* endTemporaryStopMessages(message_count, warning_count, type).
EndUnlessHarmless(type) ==
    /\ disable_errors_ref > 0
    /\ End(Releases(type, disable_errors_ref))
    /\ asked' = IF Last(worst) >= Severity[type] THEN "keep" ELSE "take back"
    /\ UNCHANGED blocked

\* endTemporaryStopMessages(release_messages, blocked_messages), and the first
\* one without a type.
EndEither(release, hand_over) ==
    /\ disable_errors_ref > 0
    /\ End(release)
    /\ asked' = IF release THEN "keep" ELSE "take back"
    /\ blocked' = IF hand_over THEN stopped_messages[disable_errors_ref] ELSE blocked

\* addMessages() of what was handed over.
AddBlocked ==
    LET queues == PutAll(blocked, disable_errors_ref, messages, stopped_messages)
    IN  /\ messages' = queues[1]
        /\ stopped_messages' = queues[2]
        /\ UNCHANGED <<disable_errors_ref, stopped_errors_count, stopped_warnings_count,
                       stopped_messages_count, blocked, worst, asked>>

nextMessage ==
    /\ messages # <<>>
    /\ messages' = Tail(messages)
    /\ UNCHANGED <<disable_errors_ref, stops, blocked, worst, asked>>

clearMessages ==
    /\ messages' = <<>>
    /\ UNCHANGED <<disable_errors_ref, stops, blocked, worst, asked>>

\* The messages but those after the first skip that are about wide intervals.
Cleaned(msgs, skip) ==
    LET cleaned[k \in 0..Len(msgs)] ==
            IF k = 0 THEN <<>>
            ELSE IF k > skip /\ msgs[k].wide THEN cleaned[k - 1]
            ELSE Append(cleaned[k - 1], msgs[k])
    IN  cleaned[Len(msgs)]

\* A result without intervals: no message about wide ones since the first.
cleanMessages(first_message) ==
    LET skip == IF first_message > 0 THEN first_message - 1 ELSE 0
    IN  /\ Len(messages) > skip
        /\ messages' = Cleaned(messages, skip)
        /\ UNCHANGED <<disable_errors_ref, stops, blocked, worst, asked>>

\* abort() after a forced stop of the calculation thread.
MutForcedStop ==
    /\ disable_errors_ref' = 0
    /\ stopped_messages' = <<>> /\ stopped_errors_count' = <<>>
    /\ stopped_messages_count' = <<>>
    /\ messages' = Put(Forced, 0, messages, <<>>)[1]
    /\ worst' = <<>>
    /\ UNCHANGED <<stopped_warnings_count, blocked, asked>>

ForcedStop ==
    /\ disable_errors_ref' = 0
    /\ stopped_messages' = <<>> /\ stopped_errors_count' = <<>>
    /\ stopped_warnings_count' = <<>> /\ stopped_messages_count' = <<>>
    /\ messages' = Put(Forced, 0, messages, <<>>)[1]
    /\ worst' = <<>>
    /\ UNCHANGED <<blocked, asked>>

Next ==
    \/ \E m \in Reports : Message(m)
    \/ beginTemporaryStopMessages
    \/ \E type \in Types : EndUnlessHarmless(type)
    \/ \E release, hand_over \in BOOLEAN : EndEither(release, hand_over)
    \/ AddBlocked \/ nextMessage \/ clearMessages
    \/ \E first \in 0..Cardinality(Reports) : cleanMessages(first)
    \/ ForcedStop

Spec == Init /\ [][Next]_vars
-----------------------------------------------------------------------------
\* One entry per open stop in each of the vectors, always: the index
\* disable_errors_ref - 1 is in all of them or in none.
TypeOK ==
    /\ messages \in Seq(Reports) /\ blocked \in Seq(Reports)
    /\ disable_errors_ref \in 0..MaxStops
    /\ stopped_messages \in [1..disable_errors_ref -> Seq(Reports)]
    /\ stopped_errors_count \in [1..disable_errors_ref -> 0..MaxCount]
    /\ stopped_warnings_count \in [1..disable_errors_ref -> 0..MaxCount]
    /\ stopped_messages_count \in [1..disable_errors_ref -> 0..MaxCount]

\* The messages and what the first l stops hold, for every l.
Gathered(msgs, stopped) ==
    LET gathered[l \in 0..Len(stopped)] ==
            IF l = 0 THEN msgs ELSE gathered[l - 1] \o stopped[l]
    IN  gathered

Everything == Gathered(messages, stopped_messages)[Len(stopped_messages)]
Beginnings == [l \in DOMAIN stopped_messages |->
                 Len(Gathered(messages, stopped_messages)[l - 1])]

Log == INSTANCE MessageLog WITH log <- Everything, marks <- Beginnings

\* Stops are savepoints of one log in the order of the reports, and no text is
\* in it twice (the abstract log never adds a known one): what a stop
\* releases stays where it was reported, what it does not is gone, and the
\* counts release exactly when something as severe was reported.
ImplementsLog == Log!Spec
=============================================================================
