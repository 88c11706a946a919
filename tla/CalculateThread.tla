-------------------------- MODULE CalculateThread --------------------------
(***************************************************************************)
(* The calculation thread of Calculator and the calls that drive it.       *)
(*                                                                         *)
(* One client thread calls calculate(), calculateRPN(), convertTimeOut(),  *)
(* abort(), terminateThreads() and the destructor.  It hands a worker      *)
(* thread (CalculateThread::run) a bool and a pointer through a pipe,      *)
(* passes everything else in the tmp_* members, and learns of the end by   *)
(* polling b_busy.  Nothing but volatile flags orders the two.             *)
(*                                                                         *)
(* pthread_cancel is redefined in util.cc as pthread_kill(h, 0), which     *)
(* stops nothing: a cancelled worker runs on.  cancels counts how often    *)
(* that happened; most properties speak of a run where it never did.       *)
(*                                                                         *)
(* A structure is the number of the call that created it (0 is NULL), its  *)
(* value one of "fresh", "aborted" (setAborted) or "done".  How long a     *)
(* wait lasts is abstracted: it may run out whenever b_busy is still set.  *)
(***************************************************************************)
EXTENDS RPNRegisters

CONSTANTS Requests,    \* the calls a client may make
          MaxJobs,     \* bound: calculations of one run
          MaxWorkers,  \* bound: threads created in one run
          MaxFaults    \* bound: failed pthread_create and fwrite calls

Jobs == 1..MaxJobs
Workers == 1..MaxWorkers
Kinds == {"parse", "value", "convert"}
Request == [kind : Kinds, cmd : Commands, arg : Int, timed : BOOLEAN]

ASSUME ThreadAssumption ==
    /\ Requests \subseteq Request
    \* convertTimeOut always sets PROC_NO_COMMAND.
    /\ \A r \in Requests : r.kind = "convert" => r.cmd = "none"
    /\ MaxJobs \in Nat
    /\ MaxWorkers \in Nat
    /\ MaxFaults \in Nat

VARIABLES
    busy,        \* b_busy
    running,     \* calculate_thread->running
    controlled,  \* b_controlled
    iAborted,    \* i_aborted > 0
    pipe,        \* what was written to the thread's pipe and not yet read
    pipesOpen,   \* the Thread object still exists
    tmp,         \* the tmp_* members
    value,       \* the structures' values
    rpn,         \* rpn_stack
    freed,       \* structures unreferenced by the library
    cpc, call, job, ret, jobs,   \* the client: position, call, its structure,
                                 \* what the last call returned, calls so far
    wpc, wparse, wjob,           \* per worker: position, b_parse, mstruct
    spawned, cancels, faults

flags == <<busy, running, controlled, iAborted>>
store == <<tmp, value, rpn, freed>>
channel == <<pipe, pipesOpen>>
client == <<cpc, call, job, ret, jobs>>
workers == <<wpc, wparse, wjob, spawned>>
counts == <<cancels, faults>>
vars == <<flags, store, channel, client, workers, counts>>
-----------------------------------------------------------------------------
Plain(kind) == [kind |-> kind, cmd |-> "none", arg |-> 0, timed |-> FALSE]
Calls == [kind : Kinds \cup {"none", "abort", "terminate", "destroy"},
          cmd : Commands, arg : Int, timed : BOOLEAN]

\* What travels through the pipe: bools and pointers.
Bool(b) == [type |-> "bool", val |-> IF b THEN 1 ELSE 0]
Ptr(p) == [type |-> "ptr", val |-> p]
Messages == {Bool(b) : b \in BOOLEAN} \cup {Ptr(p) : p \in 0..MaxJobs}

Init ==
    /\ busy = FALSE /\ running = FALSE
    /\ controlled = FALSE /\ iAborted = FALSE
    /\ pipe = <<>> /\ pipesOpen = TRUE
    /\ tmp = [opts |-> 0, expr |-> 0, rpn |-> 0, cmd |-> "none", arg |-> 0]
    /\ value = [j \in Jobs |-> "fresh"]
    /\ rpn = <<>> /\ freed = {}
    /\ cpc = "idle" /\ call = Plain("none") /\ job = 0 /\ ret = "none" /\ jobs = 0
    /\ wpc = [w \in Workers |-> "none"]
    /\ wparse = [w \in Workers |-> TRUE]
    /\ wjob = [w \in Workers |-> 0]
    /\ spawned = 0 /\ cancels = 0 /\ faults = 0

(* Operators named Mut... are plausible bugs, each written before the      *)
(* definition whose body it replaces when the properties are tested.       *)

(***************************** the client *********************************)

Goto(label) == cpc' = label /\ UNCHANGED <<call, job, ret, jobs>>
Return(v) == cpc' = "idle" /\ ret' = v /\ UNCHANGED <<call, job, jobs>>

\* pthread_create: a new worker that waits for its first bool.
Spawn ==
    /\ spawned < MaxWorkers
    /\ spawned' = spawned + 1
    /\ wpc' = [wpc EXCEPT ![spawned + 1] = "bool"]
    /\ running' = TRUE
    /\ UNCHANGED <<wparse, wjob>>

\* pthread_create fails; it always does once the process may create no more.
SpawnFails ==
    /\ \/ spawned = MaxWorkers /\ UNCHANGED faults
       \/ faults < MaxFaults /\ faults' = faults + 1
    /\ UNCHANGED workers

MutStartControl == controlled' = TRUE /\ UNCHANGED iAborted
startControl == controlled' = TRUE /\ iAborted' = FALSE

MutStopControl == UNCHANGED controlled /\ iAborted' = FALSE
stopControl == controlled' = FALSE /\ iAborted' = FALSE

\* Thread::cancel: the flag goes, the thread stays.
Cancel ==
    /\ cancels' = IF running THEN cancels + 1 ELSE cancels
    /\ running' = FALSE

\* setAborted() on the call's own structure.
MarkAborted == value' = [value EXCEPT ![job] = "aborted"]

\* A client starts a calculation when the last one is over (busy() is false).
Call(r) ==
    /\ cpc = "idle" /\ pipesOpen /\ ~busy
    /\ jobs < MaxJobs
    /\ jobs' = jobs + 1
    /\ job' = jobs + 1
    /\ call' = r
    /\ busy' = TRUE
    /\ cpc' = "ensure"
    /\ UNCHANGED <<running, controlled, iAborted, store, channel, ret, workers,
                   counts>>

MutNeedsThread == TRUE
NeedsThread == ~running

\* if(!calculate_thread->running && !calculate_thread->start()) ...
EnsureThread ==
    /\ cpc = "ensure"
    /\ IF NeedsThread THEN Spawn ELSE UNCHANGED <<running, workers>>
    /\ Goto("params")
    /\ UNCHANGED <<busy, controlled, iAborted, store, channel, counts>>

EnsureFails ==
    /\ cpc = "ensure" /\ NeedsThread
    /\ SpawnFails
    /\ IF call.kind = "convert" THEN UNCHANGED value ELSE MarkAborted
    /\ Return("false")
    /\ UNCHANGED <<flags, tmp, rpn, freed, channel, cancels>>

\* convertTimeOut sets only options and command, calculateRPN of a value
\* leaves the expression, calculate clears tmp_rpn_mstruct.
NextRpn == IF call.kind = "convert" THEN tmp.rpn
           ELSE IF call.cmd = "none" THEN 0 ELSE job

MutNextExpr == tmp.expr
NextExpr == IF call.kind = "parse" THEN job
            ELSE IF call.kind = "value" /\ call.cmd = "none" THEN 0 ELSE tmp.expr

SetParams ==
    /\ cpc = "params"
    /\ tmp' = [opts |-> job, expr |-> NextExpr, rpn |-> NextRpn,
               cmd |-> call.cmd, arg |-> call.arg]
    /\ Goto("bool")
    /\ UNCHANGED <<flags, value, rpn, freed, channel, workers, counts>>

\* fwrite and fflush.
MutPost(x) == UNCHANGED pipe
Post(x) == pipe' = Append(pipe, x)

WriteBool ==
    /\ cpc = "bool"
    /\ Post(Bool(call.kind = "parse"))
    /\ Goto("ptr")
    /\ UNCHANGED <<flags, store, pipesOpen, workers, counts>>

\* Only a call with a positive msecs waits.
WritePtr ==
    /\ cpc = "ptr"
    /\ Post(Ptr(job))
    /\ IF call.timed THEN Goto("wait")
       ELSE IF call.kind = "convert" THEN Goto("between") ELSE Return("true")
    /\ UNCHANGED <<flags, store, pipesOpen, workers, counts>>

WriteFails ==
    /\ cpc \in {"bool", "ptr"}
    /\ faults < MaxFaults /\ faults' = faults + 1
    /\ Cancel
    /\ IF call.kind = "convert" THEN UNCHANGED value ELSE MarkAborted
    /\ Return("false")
    /\ UNCHANGED <<busy, controlled, iAborted, tmp, rpn, freed, channel, workers>>

\* The polling loop ends because the calculation did.  call.arg counts the
\* phases of convertTimeOut: it converts the result and posts it again.
WaitFinishes ==
    /\ cpc = "wait" /\ ~busy
    /\ IF call.kind = "convert" /\ call.arg = 0 THEN Goto("between") ELSE Return("true")
    /\ UNCHANGED <<flags, store, channel, workers, counts>>

\* It ends because the time is up, and b_busy is still set.
WaitTimesOut ==
    /\ cpc = "wait" /\ busy
    /\ Goto("abort")
    /\ UNCHANGED <<flags, store, channel, workers, counts>>

\* convertTimeOut between its two phases: the client works on the structure.
ConvertBetween ==
    /\ cpc = "between"
    /\ IF call.arg = 0
       THEN /\ busy' = TRUE
            /\ call' = [call EXCEPT !.arg = 1]
            /\ cpc' = "bool"
            /\ UNCHANGED ret
       ELSE cpc' = "idle" /\ ret' = "true" /\ UNCHANGED <<busy, call>>
    /\ UNCHANGED <<running, controlled, iAborted, store, channel, job, jobs,
                   workers, counts>>

\* abort(), terminateThreads() and ~Calculator() called by the client.  The
\* documentation reserves terminateThreads for an idle thread.
Other(kind) ==
    /\ cpc = "idle" /\ pipesOpen
    /\ kind = "terminate" => ~busy
    /\ call' = Plain(kind)
    /\ cpc' = IF kind = "terminate" THEN "terminate" ELSE "abort"
    /\ UNCHANGED <<flags, store, channel, job, ret, jobs, workers, counts>>

AbortFlag ==
    /\ cpc = "abort"
    /\ iAborted' = TRUE
    /\ Goto("test")
    /\ UNCHANGED <<busy, running, controlled, store, channel, workers, counts>>

\* What abort's caller makes of its answer.
AfterAbort(v) ==
    /\ CASE call.kind = "destroy" -> Goto("terminate")
         [] call.kind = "abort" -> Return(v)
         [] OTHER -> Return("false")
    /\ IF \/ call.kind = "convert"
          \/ call.kind \in {"parse", "value"} /\ call.cmd = "none" /\ v = "false"
       THEN MarkAborted ELSE UNCHANGED value

\* tmp_rpn_mstruct unreferenced by every abort.
MutAbortReturns ==
    /\ \/ cpc = "test" /\ ~(busy /\ running)
       \/ cpc = "abortWait" /\ ~busy
    /\ busy' = FALSE
    /\ AfterAbort("true")
    /\ freed' = freed \cup ({tmp.rpn} \ {0})
    /\ UNCHANGED <<running, controlled, iAborted, tmp, rpn, channel, workers, counts>>

\* abort() without a running thread, or after the calculation ended.
AbortReturns ==
    /\ \/ cpc = "test" /\ ~(busy /\ running)
       \/ cpc = "abortWait" /\ ~busy
    /\ busy' = FALSE
    /\ AfterAbort("true")
    /\ UNCHANGED <<running, controlled, iAborted, tmp, rpn, freed, channel,
                   workers, counts>>

AbortWaits ==
    /\ cpc = "test" /\ busy /\ running
    /\ Goto("abortWait")
    /\ UNCHANGED <<flags, store, channel, workers, counts>>

\* The 5000 ms are over: forced stop, first calculate_thread->cancel().
\* (The mutant waits without counting them.)
MutAbortTimesOut == FALSE
AbortTimesOut ==
    /\ cpc = "abortWait" /\ busy
    /\ Cancel
    /\ Goto("reset")
    /\ UNCHANGED <<busy, controlled, iAborted, store, channel, workers, faults>>

\* stopControl(), tmp_rpn_mstruct->unref(), b_busy = false.
AbortResets ==
    /\ cpc = "reset"
    /\ stopControl
    /\ busy' = FALSE
    /\ freed' = freed \cup ({tmp.rpn} \ {0})
    /\ tmp' = [tmp EXCEPT !.rpn = 0]
    /\ Goto("restart")
    /\ UNCHANGED <<running, value, rpn, channel, workers, counts>>

\* calculate_thread->start(), whose answer nobody looks at.
AbortRestarts ==
    /\ cpc = "restart"
    /\ \/ running /\ UNCHANGED <<running, workers, faults>>
       \/ ~running /\ Spawn /\ UNCHANGED faults
       \/ ~running /\ SpawnFails /\ UNCHANGED running
    /\ AfterAbort("false")
    /\ UNCHANGED <<busy, controlled, iAborted, tmp, rpn, freed, channel, cancels>>

\* terminateThreads(): write(false), write(NULL).
TerminateWrites ==
    /\ cpc = "terminate" /\ running
    /\ pipe' = pipe \o <<Bool(FALSE), Ptr(0)>>
    /\ Goto("termWait")
    /\ UNCHANGED <<flags, store, pipesOpen, workers, counts>>

\* A failed write is followed by cancel.
TerminateWriteFails ==
    /\ cpc = "terminate" /\ running
    /\ faults < MaxFaults /\ faults' = faults + 1
    /\ \/ UNCHANGED pipe
       \/ pipe' = Append(pipe, Bool(FALSE))
    /\ Cancel
    /\ Goto("termWait")
    /\ UNCHANGED <<busy, controlled, iAborted, store, pipesOpen, workers>>

MutThreadEnded == TRUE
ThreadEnded == ~running

\* ~Calculator goes on to ~Thread, which cancels again and closes the pipes.
Terminated ==
    IF call.kind = "destroy"
    THEN pipesOpen' = FALSE /\ Goto("gone")
    ELSE Return("none") /\ UNCHANGED pipesOpen

\* The thread was not running, or ended within the ten milliseconds.
TerminateEnds ==
    /\ cpc \in {"terminate", "termWait"} /\ ThreadEnded
    /\ Terminated
    /\ UNCHANGED <<flags, store, pipe, workers, counts>>

\* It did not: cancel.
TerminateTimesOut ==
    /\ cpc = "termWait" /\ running
    /\ Cancel
    /\ Terminated
    /\ UNCHANGED <<busy, controlled, iAborted, store, pipe, workers, faults>>

(***************************** a worker ***********************************)

WorkerGoto(w, label) ==
    /\ wpc' = [wpc EXCEPT ![w] = label]
    /\ UNCHANGED spawned

Available(type) == pipesOpen /\ pipe # <<>> /\ Head(pipe).type = type

ReadBool(w) ==
    /\ wpc[w] = "bool" /\ Available("bool")
    /\ wparse' = [wparse EXCEPT ![w] = Head(pipe).val = 1]
    /\ pipe' = Tail(pipe)
    /\ WorkerGoto(w, "ptr")
    /\ UNCHANGED <<flags, store, pipesOpen, client, wjob, counts>>

\* The null pointer ends run().
MutAfterPointer(p) == "control"
AfterPointer(p) == IF p = 0 THEN "exit" ELSE "control"

ReadPtr(w) ==
    /\ wpc[w] = "ptr" /\ Available("ptr")
    /\ wjob' = [wjob EXCEPT ![w] = Head(pipe).val]
    /\ pipe' = Tail(pipe)
    /\ WorkerGoto(w, AfterPointer(Head(pipe).val))
    /\ UNCHANGED <<flags, store, pipesOpen, client, wparse, counts>>

\* Bytes of the other kind come first: what is read is undefined, and so is
\* all the worker does with it.
Misread(w) ==
    /\ \/ wpc[w] = "bool" /\ Available("ptr")
       \/ wpc[w] = "ptr" /\ Available("bool")
    /\ WorkerGoto(w, "undefined")
    /\ UNCHANGED <<flags, store, channel, client, wparse, wjob, counts>>

StartControl(w) ==
    /\ wpc[w] = "control"
    /\ startControl
    /\ WorkerGoto(w, "begin")
    /\ UNCHANGED <<busy, running, store, channel, client, wparse, wjob, counts>>

\* mstruct->setAborted(), before the calculation starts.
Begin(w) ==
    /\ wpc[w] = "begin"
    /\ value' = [value EXCEPT ![wjob[w]] = "aborted"]
    /\ WorkerGoto(w, "calc")
    /\ UNCHANGED <<flags, tmp, rpn, freed, channel, client, wparse, wjob, counts>>

\* mstruct->set(calculate(...)): a calculation that ran to its end...
CalculationEnds(w) ==
    /\ wpc[w] = "calc"
    /\ value' = [value EXCEPT ![wjob[w]] = "done"]
    /\ WorkerGoto(w, "command")
    /\ UNCHANGED <<flags, tmp, rpn, freed, channel, client, wparse, wjob, counts>>

\* ... or saw that it was aborted.
CalculationAborted(w) ==
    /\ wpc[w] = "calc" /\ controlled /\ iAborted
    /\ WorkerGoto(w, "command")
    /\ UNCHANGED <<flags, store, channel, client, wparse, wjob, counts>>

\* The switch on tmp_proc_command.
PerformCommand(w) ==
    /\ wpc[w] = "command"
    /\ rpn' = Perform(rpn, tmp.cmd, tmp.arg, wjob[w])
    /\ freed' = freed \cup (ToSet(rpn) \ ToSet(rpn'))
    /\ WorkerGoto(w, "stop")
    /\ UNCHANGED <<flags, tmp, value, channel, client, wparse, wjob, counts>>

StopControl(w) ==
    /\ wpc[w] = "stop"
    /\ stopControl
    /\ WorkerGoto(w, "clear")
    /\ UNCHANGED <<busy, running, store, channel, client, wparse, wjob, counts>>

ClearBusy(w) ==
    /\ wpc[w] = "clear"
    /\ busy' = FALSE
    /\ WorkerGoto(w, "bool")
    /\ UNCHANGED <<running, controlled, iAborted, store, channel, client,
                   wparse, wjob, counts>>

\* doCleanup.
Exit(w) ==
    /\ wpc[w] = "exit"
    /\ running' = FALSE
    /\ WorkerGoto(w, "dead")
    /\ UNCHANGED <<busy, controlled, iAborted, store, channel, client, wparse,
                   wjob, counts>>
-----------------------------------------------------------------------------
ClientStep ==
    \/ EnsureThread \/ EnsureFails \/ SetParams \/ WriteBool \/ WritePtr
    \/ WriteFails \/ WaitFinishes \/ WaitTimesOut \/ ConvertBetween
    \/ AbortFlag \/ AbortReturns \/ AbortWaits \/ AbortTimesOut \/ AbortResets
    \/ AbortRestarts \/ TerminateWrites \/ TerminateWriteFails \/ TerminateEnds
    \/ TerminateTimesOut

\* A worker's steps other than the natural end of a calculation.
WorkerStep(w) ==
    \/ ReadBool(w) \/ ReadPtr(w) \/ Misread(w) \/ StartControl(w) \/ Begin(w)
    \/ CalculationAborted(w) \/ PerformCommand(w) \/ StopControl(w)
    \/ ClearBusy(w) \/ Exit(w)

Next ==
    \/ \E r \in Requests : Call(r)
    \/ \E kind \in {"abort", "terminate", "destroy"} : Other(kind)
    \/ ClientStep
    \/ \E w \in Workers : WorkerStep(w) \/ CalculationEnds(w)

Spec == Init /\ [][Next]_vars

\* The scheduler runs both threads, waits count down to their end, and a
\* calculation polls aborted(); that it ends by itself is not assumed.
FairSpec ==
    /\ Spec
    /\ WF_vars(ClientStep)
    /\ \A w \in Workers : WF_vars(WorkerStep(w))
-----------------------------------------------------------------------------
Positions == {"idle", "ensure", "params", "bool", "ptr", "wait", "between", "abort",
              "test", "abortWait", "reset", "restart", "terminate", "termWait", "gone"}
BeforeEnd == {"control", "begin", "calc", "command"}
AtWork == BeforeEnd \cup {"stop", "clear"}
Alive == {"bool", "ptr", "exit"} \cup AtWork
WorkerPositions == Alive \cup {"none", "undefined", "dead"}

TmpType == [opts : 0..MaxJobs, expr : 0..MaxJobs, rpn : 0..MaxJobs, cmd : Commands,
            arg : Int]

FlagsType ==
    /\ busy \in BOOLEAN /\ running \in BOOLEAN
    /\ controlled \in BOOLEAN /\ iAborted \in BOOLEAN

StoreType ==
    /\ tmp \in TmpType
    /\ value \in [Jobs -> {"fresh", "aborted", "done"}]
    /\ rpn \in Seq(0..MaxJobs) /\ freed \subseteq 0..MaxJobs

ChannelType == pipe \in Seq(Messages) /\ pipesOpen \in BOOLEAN

ClientType ==
    /\ cpc \in Positions /\ call \in Calls
    /\ job \in 0..MaxJobs /\ jobs \in 0..MaxJobs
    /\ ret \in {"none", "true", "false"}
    /\ call.kind \in Kinds => job # 0

WorkersType ==
    /\ wpc \in [Workers -> WorkerPositions]
    /\ wparse \in [Workers -> BOOLEAN] /\ wjob \in [Workers -> 0..MaxJobs]
    /\ \A w \in Workers : wpc[w] \in AtWork => wjob[w] # 0
    /\ spawned \in 0..MaxWorkers

CountsType == cancels \in Nat /\ faults \in 0..MaxFaults

\* The members hold values of their types, at every interleaving, also after
\* forced stops; the pipe carries bools and pointers and nothing else, and no
\* worker works on the null pointer that ends it.
TypeOK ==
    /\ FlagsType /\ StoreType /\ ChannelType
    /\ ClientType /\ WorkersType /\ CountsType

\* No thread was ever cancelled.
Undisturbed == cancels = 0

\* convertTimeOut posts its structure twice, and only its waits keep the two
\* apart: a client that never converts without a time limit.
TimedConversions == \A r \in Requests : r.kind = "convert" => r.timed

\* At most one worker exists, calculate_thread->running says whether, and it
\* reads bools as bools and pointers as pointers.
OneWorker ==
    Undisturbed =>
        /\ \A w \in Workers : wpc[w] # "undefined"
        /\ \A v, w \in Workers : wpc[v] \in Alive /\ wpc[w] \in Alive => v = w
        /\ running <=> \E w \in Workers : wpc[w] \in Alive

\* b_busy is cleared last: who sees it false finds no calculation at work, its
\* control ended, and the next calculation's control safe from this one.
QuietWhenNotBusy ==
    (Undisturbed /\ ~busy) =>
        /\ ~controlled
        /\ \A w \in Workers : wpc[w] \notin AtWork

\* The tmp_* members a calculation reads are those its own call wrote: no
\* later call overwrites them before it is over.
ParamsMatch ==
    Undisturbed =>
        \A w \in Workers : wpc[w] \in BeforeEnd =>
            /\ tmp.opts = wjob[w]
            /\ wparse[w] => tmp.expr = wjob[w]

\* A register is never a structure the library has unreferenced, no structure
\* is in two registers, and a worker works on neither.
RegistersLive ==
    Undisturbed =>
        /\ ToSet(rpn) \cap freed = {}
        /\ \A i, k \in 1..Len(rpn) : rpn[i] = rpn[k] => i = k
        /\ \A w \in Workers : wpc[w] \in BeforeEnd =>
              wjob[w] \notin freed \cup ToSet(rpn)

\* "@returns true if the calculation was successfully started (and finished if
\* msecs > 0)": after a timed call that returned true the structure holds a
\* calculated value, never one cut short by somebody's earlier abort().
TrueMeansDone ==
    (Undisturbed /\ cpc = "idle" /\ call.timed /\ ret = "true") =>
        value[job] = "done"

\* The pipes are closed only when no worker can still read from them.
NoReaderOfClosedPipe ==
    (Undisturbed /\ ~pipesOpen) => \A w \in Workers : wpc[w] \notin Alive

\* Every call of the client returns, also one whose calculation never ends,
\* whose thread cannot be started or whose write fails.
CallReturns == (cpc # "idle") ~> (cpc \in {"idle", "gone"})

\* A calculation reported as started gets to the worker.
StartedStarts ==
    (cpc = "idle" /\ ret = "true" /\ busy) ~>
        (~busy \/ ~Undisturbed \/ \E w \in Workers : wpc[w] = "calc")

(* What the documentation says of abort(); the code does otherwise.         *)

\* Calculator.h: a started calculation "can then be stopped with abort()".
\* While abort() waits for it, the calculation finds i_aborted set.
AbortIsSeen ==
    (cpc = "abortWait" /\ \E w \in Workers : wpc[w] = "calc") => iAborted
=============================================================================
