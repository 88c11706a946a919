------------------------------ MODULE Control ------------------------------
(***************************************************************************)
(* Control of time and the settings that outlive a call, for a client that *)
(* calculates, prints and plots without the calculation thread (as the     *)
(* app does).  Several calls set and reset the same members on their way   *)
(* in and out, through early returns, aborts from another thread, time     *)
(* limits and exceptions.                                                  *)
(*                                                                         *)
(* One piece of evaluation, printing or plotting is a stage.  It ends by   *)
(* itself or when it asks aborted(), which all of the evaluation does; or  *)
(* it throws.                                                              *)
(***************************************************************************)
EXTENDS Integers

CONSTANTS
  Limits,   \* time limits in milliseconds; 0 is none
  Bases,    \* custom number bases
  Series,   \* the most series that one plot has
  MaxThrows \* bound on the number of exceptions

ASSUME ControlAssumption ==
  /\ Limits \subseteq Nat /\ 0 \in Limits
  /\ Series \in Nat \ {0} /\ MaxThrows \in Nat

VARIABLES
  control,              \* b_controlled, i_aborted, i_timeout; is t_end past?
  custom_output_base,
  use_binary_prefixes,
  i_stop_interval,      \* how often interval arithmetic was stopped
  call,                 \* the call at work
  wanted,               \* history: the settings the client made
  held,                 \* history: TRUE while control is the client's own
  throws,               \* history: how often something was thrown
  asked                 \* history: abort() or the end of time came since startControl

settings == <<custom_output_base, use_binary_prefixes, i_stop_interval>>
vars == <<control, settings, call, wanted, held, throws, asked>>

NoCall == [stage |-> "none", command |-> "none", msecs |-> 0, custom |-> FALSE,
           base_save |-> 0, save_bin |-> 0, left |-> 0]

Commands == {"none", "base", "decimal prefixes", "binary prefixes", "bases", "calendars"}

Init ==
  /\ control = [controlled |-> FALSE, aborted |-> 0, timeout |-> 0, late |-> FALSE]
  /\ custom_output_base = 0
  /\ use_binary_prefixes = 0
  /\ i_stop_interval = 0
  /\ call = NoCall
  /\ wanted = [base |-> 0, bin |-> 0]
  /\ held = FALSE
  /\ throws = 0
  /\ asked = FALSE

------------------------------------------------------------------------------
(* Control *)

startControl(c, milli_timeout) ==
  [controlled |-> TRUE, aborted |-> 0, timeout |-> milli_timeout, late |-> FALSE]

MutStopControlKeepsLimit(c) ==
  [controlled |-> FALSE, aborted |-> 0, timeout |-> c.timeout, late |-> c.late]

stopControl(c) == [controlled |-> FALSE, aborted |-> 0, timeout |-> 0, late |-> c.late]

MutAbortedOnlyByHand(c) == c.controlled /\ c.aborted > 0

aborted(c) == c.controlled /\ (c.aborted > 0 \/ (c.timeout > 0 /\ c.late))

\* What asking leaves: i_aborted is 2 after a time out.
Asked(c) == IF aborted(c) /\ c.aborted = 0 THEN [c EXCEPT !.aborted = 2] ELSE c

------------------------------------------------------------------------------
(* The client between its calls *)

Idle == call.stage = "none"

StartControl ==
  \E msecs \in Limits :
    /\ Idle
    /\ control' = startControl(control, msecs)
    /\ held' = TRUE
    /\ asked' = FALSE
    /\ UNCHANGED <<settings, call, wanted, throws>>

StopControl ==
  /\ Idle
  /\ control' = stopControl(control)
  /\ held' = FALSE
  /\ UNCHANGED <<settings, call, wanted, throws, asked>>

setCustomOutputBase ==
  \E b \in Bases :
    /\ Idle
    /\ custom_output_base' = b
    /\ wanted' = [wanted EXCEPT !.base = b]
    /\ UNCHANGED <<control, use_binary_prefixes, i_stop_interval, call, held, throws, asked>>

useBinaryPrefixes ==
  \E n \in 0..2 :
    /\ Idle
    /\ use_binary_prefixes' = n
    /\ wanted' = [wanted EXCEPT !.bin = n]
    /\ UNCHANGED <<control, custom_output_base, i_stop_interval, call, held, throws, asked>>

\* abort() from another thread, and the clock.
Abort ==
  /\ control' = [control EXCEPT !.aborted = 1]
  /\ asked' = TRUE
  /\ UNCHANGED <<settings, call, wanted, held, throws>>

TimeOut ==
  /\ control.timeout > 0 /\ ~control.late
  /\ control' = [control EXCEPT !.late = TRUE]
  /\ asked' = TRUE
  /\ UNCHANGED <<settings, call, wanted, held, throws>>

------------------------------------------------------------------------------
(* calculateAndPrint *)

\* A call begins, and starts control if it does.
Begin(started, next) ==
  /\ Idle
  /\ control' = IF started THEN startControl(control, next.msecs) ELSE control
  /\ call' = next
  /\ asked' = (asked /\ ~started)
  /\ held' = (held /\ ~started)
  /\ UNCHANGED <<wanted, throws>>

\* custom says whether the caller's PrintOptions have BASE_CUSTOM; the text
\* after "to" may be a base that is yet to be calculated.
CalculateAndPrint ==
  \E command \in Commands, msecs \in Limits, custom \in BOOLEAN :
    /\ Begin(msecs > 0,
             [stage |-> IF command = "base" THEN "base" ELSE "evaluate",
              command |-> command, msecs |-> msecs, custom |-> custom,
              base_save |-> IF custom THEN custom_output_base ELSE 0,
              save_bin |-> use_binary_prefixes, left |-> 0])
    /\ use_binary_prefixes' = IF command = "decimal prefixes" THEN 0 ELSE use_binary_prefixes
    /\ UNCHANGED <<custom_output_base, i_stop_interval>>

\* The call goes on to its next stage under the same control.
Continue(c, next) ==
  /\ control' = c
  /\ call' = next
  /\ UNCHANGED <<wanted, held, throws, asked>>

\* The call goes on after it has ended control and started its own again.
Again(next, msecs) ==
  /\ control' = startControl(control, msecs)
  /\ call' = next
  /\ held' = FALSE
  /\ asked' = FALSE
  /\ UNCHANGED <<wanted, throws>>

\* The call returns, and with it control may end, whoever started it.
Return(c) ==
  /\ control' = c
  /\ call' = NoCall
  /\ held' = (held /\ c.controlled)
  /\ UNCHANGED <<wanted, throws, asked>>

MutBaseSaved(b) == b

BaseSaved(b) == custom_output_base

\* The base after "to base" is an integer from 2 to 36, or becomes the custom one.
BaseEnds(c) ==
  /\ call.stage = "base"
  /\ \/ /\ Continue(c, [call EXCEPT !.stage = "evaluate", !.custom = FALSE])
        /\ UNCHANGED settings
     \/ \E b \in Bases :
          /\ Continue(c, [call EXCEPT !.stage = "evaluate", !.custom = TRUE,
                                      !.base_save = BaseSaved(b)])
          /\ custom_output_base' = b
          /\ UNCHANGED <<use_binary_prefixes, i_stop_interval>>

\* All calendars of a date are printed here and now.
CalendarsPrinted(c) ==
  /\ call.stage = "evaluate" /\ call.command = "calendars"
  /\ Return(stopControl(c))
  /\ UNCHANGED settings

MutToPrint(c) == startControl(c, call.msecs)

\* Control is the same from the evaluation to the printing.
ToPrint(c) == c

EvaluateEnds(c) ==
  /\ call.stage = "evaluate"
  /\ \/ /\ call.command = "bases"
        /\ Again([call EXCEPT !.stage = "print", !.left = 3], 0)
        /\ UNCHANGED settings
     \/ /\ call.command = "binary prefixes"
        /\ Continue(ToPrint(c), [call EXCEPT !.stage = "print"])
        /\ use_binary_prefixes' \in {1, 2}
        /\ UNCHANGED <<custom_output_base, i_stop_interval>>
     \/ /\ call.command \notin {"bases", "binary prefixes"}
        /\ Continue(ToPrint(c), [call EXCEPT !.stage = "print"])
        /\ UNCHANGED settings

\* Each base of "to bases" is printed by print(mstruct, 0, printops).
PrintBaseEnds(c) ==
  /\ call.stage = "print" /\ call.command = "bases"
  /\ UNCHANGED settings
  /\ IF call.left > 0
     THEN Again([call EXCEPT !.left = @ - 1], 0)
     ELSE Return(stopControl(c))

PrintEnds(c) ==
  /\ call.stage = "print" /\ call.command \in Commands \ {"bases"}
  /\ Return(stopControl(c))
  /\ custom_output_base' = IF call.custom THEN call.base_save ELSE custom_output_base
  /\ use_binary_prefixes' = call.save_bin
  /\ UNCHANGED i_stop_interval

------------------------------------------------------------------------------
(* print, and the plots *)

print ==
  \E msecs \in Limits :
    /\ Begin(TRUE,
             [NoCall EXCEPT !.stage = "print only", !.command = "print", !.msecs = msecs])
    /\ UNCHANGED settings

PrintOnlyEnds(c) ==
  /\ call.stage = "print only"
  /\ Return(stopControl(c))
  /\ UNCHANGED settings

ExpressionToPlotVector ==
  \E msecs \in Limits :
    /\ Begin(msecs > 0,
             [NoCall EXCEPT !.stage = "vector", !.command = "plot", !.msecs = msecs])
    /\ i_stop_interval' = i_stop_interval + 1
    /\ UNCHANGED <<custom_output_base, use_binary_prefixes>>

StopIfLimited(c) == IF call.msecs > 0 THEN stopControl(c) ELSE c

VectorEnds(c) ==
  /\ call.stage = "vector"
  /\ Return(StopIfLimited(c))
  /\ i_stop_interval' = i_stop_interval - 1
  /\ UNCHANGED <<custom_output_base, use_binary_prefixes>>

MutMoreSeries == call.left >= 0

MoreSeries == call.left > 0

\* plotVectors controls each series by itself.
PlotVectors ==
  \E msecs \in Limits, n \in 1..Series :
    /\ Begin(msecs > 0,
             [NoCall EXCEPT !.stage = "series", !.command = "plot", !.msecs = msecs,
                            !.left = n - 1])
    /\ UNCHANGED settings

\* It returns after the last one, or one that was aborted.
SeriesEnds(c) ==
  /\ call.stage = "series"
  /\ ~MoreSeries \/ aborted(c)
  /\ Return(StopIfLimited(c))
  /\ UNCHANGED settings

\* The next series; an abort since it last asked is forgotten.
NextSeries ==
  /\ call.stage = "series" /\ MoreSeries
  /\ IF call.msecs > 0 THEN Again([call EXCEPT !.left = @ - 1], call.msecs)
     ELSE Continue(control, [call EXCEPT !.left = @ - 1])
  /\ UNCHANGED settings

------------------------------------------------------------------------------
(* The end of a stage *)

Ends(c) ==
  \/ BaseEnds(c) \/ CalendarsPrinted(c) \/ EvaluateEnds(c) \/ PrintBaseEnds(c)
  \/ PrintEnds(c) \/ PrintOnlyEnds(c) \/ VectorEnds(c) \/ SeriesEnds(c)

Finish == Ends(control)

Poll == aborted(control) /\ Ends(Asked(control))

Throw ==
  /\ ~Idle /\ throws < MaxThrows
  /\ call' = NoCall
  /\ throws' = throws + 1
  /\ UNCHANGED <<control, settings, wanted, held, asked>>

Next ==
  \/ StartControl \/ StopControl \/ setCustomOutputBase \/ useBinaryPrefixes
  \/ Abort \/ TimeOut
  \/ CalculateAndPrint \/ print \/ ExpressionToPlotVector \/ PlotVectors
  \/ Finish \/ Poll \/ NextSeries \/ Throw

\* Time passes, and whatever is at work asks aborted() again and again; that it
\* ends by itself is not assumed.
Fairness == WF_vars(TimeOut) /\ WF_vars(Poll)

Spec == Init /\ [][Next]_vars /\ Fairness

------------------------------------------------------------------------------
(* Properties *)

ControlType == [controlled : BOOLEAN, aborted : 0..2, timeout : Limits, late : BOOLEAN]

Stages == {"none", "base", "evaluate", "print", "print only", "vector", "series"}

CallType == [stage : Stages, command : Commands \cup {"print", "plot"}, msecs : Limits,
             custom : BOOLEAN, base_save : Bases \cup {0}, save_bin : 0..2,
             left : 0..Series + 3]

\* Every call has the settings, counters and control it works with in range.
TypeOK ==
  /\ control \in ControlType
  /\ call \in CallType
  /\ custom_output_base \in Bases \cup {0} /\ use_binary_prefixes \in 0..2
  /\ i_stop_interval \in 0..MaxThrows + 1
  /\ wanted \in [base : Bases \cup {0}, bin : 0..2]
  /\ held \in BOOLEAN /\ throws \in 0..MaxThrows /\ asked \in BOOLEAN

\* Between calls the settings are the client's own and interval arithmetic is as
\* often stopped as enabled, whichever way the last call returned, unless it threw.
SettingsRestored ==
  Idle /\ throws = 0 => /\ custom_output_base = wanted.base
                       /\ use_binary_prefixes = wanted.bin
                       /\ i_stop_interval = 0

\* "@param msecs The maximum time for the calculation in milliseconds. If msecs
\* <= 0 the time will be unlimited." (Calculator.h:412): a call works under its own
\* limit, whatever was left behind before it, except while it prints all bases;
\* one without a limit works under none but the client's, unless a call threw.
\* And what aborts it came since control began: an abort of one call never cuts
\* short the next.
OwnControl ==
  /\ ~Idle /\ call.msecs > 0 /\ ~(call.command = "bases" /\ call.stage = "print")
       => control.controlled /\ control.timeout = call.msecs
  /\ ~Idle /\ call.msecs = 0 /\ ~held /\ throws = 0 => control.timeout = 0
  /\ control.controlled /\ control.aborted > 0 => asked

\* Whoever asks aborted() and is told yes is told so until the call returns, all
\* the way up: evaluation and printing do not forget an abort in between.  The
\* bases and the series are each under a control of their own.
AbortSticks ==
  [][(~Idle /\ aborted(control) /\ call.command \notin {"bases", "plot"})
       => (aborted(control') \/ call' = NoCall)]_vars

\* A call with a time limit ends although the work it has to do never does.
CallEnds ==
  (~Idle /\ call.msecs > 0 /\ call.command # "bases") ~> Idle

==============================================================================
