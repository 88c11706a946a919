# Verification of Qalculate (Flutter plugin over libqalculate)

TLA+ specifications of the parts of this repository that keep state across calls
and between threads, their TLC instances, and TLAPS proofs. Paths such as
`Calculator.cc` are relative to `src/ios/Classes/libqalculate/`.

## The system

A Flutter app (`src/app/lib/main.dart`) holds a text field. Each request goes
through two foreign functions, one character at a time, into native code
(`src/ios/Classes/native_add_test.cpp`), which owns one global `Calculator`
(libqalculate, `CALCULATOR`) and calls `calculateAndPrint` synchronously. The
library itself offers a second way to calculate, which its command-line client
`qalc.cc` uses and the app does not yet: a calculation thread, driven over a pipe.

| Component | State | Operations | Interacts with |
|---|---|---|---|
| Bridge (`native_add_test.cpp`, `main.dart`) | `toC`, `result`, `resultIndex`, `resultLength`, `isInited` | `putChar`, `getChar`, `native_add`, `init`, Dart's `compute` | constructs `Calculator`, calls `calculateAndPrint`, catches what it throws |
| Calculation thread (`Calculator.cc`, `util.cc/.h`) | `b_busy`, `running`, `b_controlled`, `i_aborted`, the pipe, the `tmp_*` members | `calculate`, `calculateRPN`, `convertTimeOut`, `abort`, `terminateThreads`, `~Calculator`, `CalculateThread::run` | client and worker share every flag without a lock; works on `rpn_stack` and the messages |
| RPN registers (`Calculator.cc`) | `rpn_stack`, reference counts | enter, set, delete, move, clear, operations | the thread or the client changes it |
| Messages (`Calculator.cc`) | `messages`, `disable_errors_ref`, four vectors of stops | `message`, `begin/endTemporaryStopMessages`, `addMessages`, `nextMessage`, `cleanMessages` | called from all of the evaluation; cleared by `abort` |
| Id store (`Calculator.cc`) | `ids_i`, `freed_ids`, `ids_p`, `id_structs` | `addId`, `parseAddId*`, `getId`, `delId`, `clearBuffers` | parser, `Function.cc`, `Unit.cc` |
| Control, printing and plotting (`Calculator.cc`) | `b_controlled`, `i_aborted`, `i_timeout`, `t_end`, `custom_output_base`, `use_binary_prefixes`, `i_stop_interval` | `startControl`, `stopControl`, `aborted`, `calculateAndPrint`, `print`, `expressionToPlotVector`, `plotVectors` | everything that polls `aborted()`; `abort` from another thread |
| Names (`Calculator.cc`, `ExpressionItem.cc`) | item vectors, `ufv`, `ufvl`, `deleted_*` | add, activate, restore, destroy, rename, `setLocal` | the parser reads the tables |
| Dates and calendars (`QalculateDateTime.cc`) | year to second of a date | `addDays` .. `addSeconds`, timestamps, differences, weeks, conversions | functions of the evaluation, "to calendars" of `calculateAndPrint` |
| Command-line threads (`qalc.cc`) | own `b_busy`, two `Thread`s | `ViewThread`, `CommandThread`, `handle_exit` | `abort`, `startControl` of the calculator |
| Prefixes | three sorted tables | exact, nearest, optimal prefix | printing |
| Exchange rates, Gnuplot, definition files, CSV | files, one process, times | load, save, fetch, plot | files and network |
| Parser, `MathStructure`, `Number`, `Function`, `Unit`, `Variable`, `DataSet` | values | evaluation | each other |
| Vendored GMP, MPFR, libxml2 | | | |

What is hard: two threads ordered by volatile flags alone (`util.h:129` says so
itself), a forced stop that stops nothing, failures between two assignments,
globals and settings that outlive a request, a vector of owned raw pointers with two
implementations of each operation, four vectors indexed by one counter, ids and
addresses that are used again, item handlers that call each other's, and date
arithmetic that is all carries. What makes each part correct is stated with its module
below. The hazards, each at its line, are in `PROJECT.json`.

## Modules

`X` is a component, `MCX` its instance for TLC, `XProofs` its theorems (those of Bridge and
Control are together in **RequestProofs**, those of the calculation thread and the registers in
**RPNProofs**, which is why Bridge's specification is called `BridgeSpec` and RPNStack's
`StackSpec`, as that of CalendarWalk is called `WalkSpec`). The
operators named `Mut...` are plausible bugs in the definition that follows each;
substituted for it, they make a property fail.

**Bridge.** One request is `Compute`, `PutLetter` per code unit, `PutZeroPrints` or
`PutZeroThrows` (the two ways through `putChar(0)`), then `GetLetter`, and `GetEnd` or
`GetNul`. What `calculateAndPrint` prints is any member of `Results`. A unit that cuts to 0
(`native_add_test.cpp:125`) puts a NUL into the text, which the parser takes for an unknown
(`Calculator.cc:6821`), so a result may hold one: `compute` takes it for the end and the
request is abandoned (`GetNul`). `InitThrows` may stop after the constructor or any
definition stage. A byte of 128 or more is negative where `char` is signed;
`String.fromCharCode` throws, and that request is abandoned too. The next one begins with a
read position in the middle.

**RPNRegisters** has the pure effect of each RPN operation on the vector, used by both
**CalculateThread** and **RPNStack**.

**CalculateThread.** The client is at a position `cpc` in one call, the workers each at
`wpc` in `CalculateThread::run`; a step is what lies between two accesses that the
other side can see: setting `b_busy`, starting the thread, writing the parameters,
each of the two writes to the pipe, each test and wait, each step of a forced stop.
A structure is the number of the call that made it. `Cancel` is
`Thread::cancel` as this repository builds it: `pthread_cancel` is redefined as
`pthread_kill(h, 0)` (`util.cc:59`), so the flag goes and the thread stays; `cancels`
counts that, and later workers share the flags and the pipe with it. `Misread` is a
worker that finds a pointer where it expects a bool, after which its behaviour is
left undefined. Waiting loops may end whenever `b_busy` is still set: lengths of time
are abstracted. A client starts a calculation only when `busy()` is false, as
`qalc.cc` does, and calls `terminateThreads` only then (`Calculator.h:473`). The client
is one thread; an `abort()` from a second one is not modelled.

**RPNStack** takes the same registers one finished call at a time, in both variants
of each operation, with reference counts. **RPNSpec** is what is promised: registers
numbered from 1. `ImplementsSpec` shows the one to implement the other under
`registers <- Reverse(rpn_stack)`, except for the three calls `FollowsDocumentation`
names: a binary operation handed to the thread with one register uses it as both
operands, or divides one by it (`Calculator.cc:2567-2574`), where `Calculator.h:491`
adds zeros; a logical not handed to it with none reads the last register of an empty
stack (`:2660`); a function of several registers calculated without it drops too many
(`:2770`).

**Messages** models the queue and its stops, **MessageLog** what they amount to: one
log in the order of the reports with savepoints. The mapping concatenates all
queues; a savepoint is the length below it. `worst` and `asked` are history: the
severity reported in each stop, and what its end was supposed to do. A
message counts for the stop it was reported in; released into an outer stop it is not
counted there, neither by the code nor by `worst`.

**IdStore** has the parser's nesting (`parsing`) and the holders' expectations
(`held`). A persistent value is fetched any number of times until its holder
calls `delId`; another is fetched once. A holder fetches and deletes only ids it
holds, or ones that are in the store no more: that is an assumption on the holders, under
which `HeldIsStored` says that no other one's fetch, deletion or parsing disturbs them.

**Control** is the client without the calculation thread, as the app is: one call is a
chain of stages (`call.stage`: the base after "to base", evaluation, printing; a vector
or the series of a plot), each of which ends by itself (`Finish`), when it asks
`aborted()` and is told yes (`Poll`), or by an exception (`Throw`), while `Abort` and
`TimeOut` come from outside at any moment. `i_aborted` is 2 after a time out, which
asking sets (`Asked`). What is computed is left out; of the "to" commands those are kept
that set something (`Commands`). `wanted`, `held`, `asked` and `throws` are history: the
client's settings, whether control is the client's own, whether anything aborted it, and
how often something was thrown.

**Names** is the registry between two calls. A call runs other items' handlers from
within its own (adding an item destroys one, which may activate a third, each changing
the tables), so each handler is an operator from a registry to a registry, named as in
the source, and a call composes them in the source's order. An item is an address; a
freed one is used again. A name is a base name and the numbers `getName` has appended;
case is left out. The name that an item gets and the order of two assignments are the code's:
`setName` of a string asks `getName` before it gives up the old name (`ExpressionItem.cc:266`),
`setName` of an `ExpressionName` and `addName` write the new one first (`:253`, `:278`; `Rename`).
Loops over names and vectors are functions of the number of rounds (`EnterNames`, `Wake`,
`CheckNames`, `Only`). `plain`, `apart`, `tidy` and `replaced` are history, for what holds only
of some histories.

**Dates** has `QalculateDateTime`'s arithmetic on whole units, in a fixed time zone, with the
table of leap seconds: `addDays` with its four carries, `addMonths`, `addYears`, `addMinutes`,
`addSeconds`, `setTimestamp` and `timestamp`, `secondsTo`, `daysTo`, `weekday`, `week` in both
forms. The zone is a constant number of minutes: daylight saving and the lookup for each date
(`dateTimeZone`) are left out. `prevLeapSecond` begins one past the end of the table for every
year after 2016 (`:185`, `:194`); what is there is undefined, so `AddSeconds` chooses whether it
is read as a leap second (`beyond`). If it is, going back walks over the end of June 2017, where
it finds itself again round after round: `Backward` says where that ends. All is checked against
a count of days, minutes and leap seconds that is no part of the code (`Fixed`, `MinutesUTC`,
`Elapsed`). The loops of the code are functions that call themselves on what a round leaves
(`EarlierDay`, `LaterDay`, `LeapForward`, `LeapBackward`); `FirstDates` are dates that a month
has (`FirstDatesAssumption`), as `set` accepts no others.

**Calendars** are the conversions of nine calendars to a day number and back, and the second
set of formulas with Julian day numbers; **CalendarWalk** (`WalkSpec`) goes through days one by one.

## Runs that pass

| Run | Instance and bounds | Shows |
|---|---|---|
| `bridge` | 3 requests, texts with a unit that cuts to 0 and one over 255, results of 0 to 3 bytes, one with a byte over 127 and one with a NUL, 2 failed initialisations | `AnswerIsSuffix`, `RequestIsServed`: nothing crosses from one request into another, whatever it left behind; what is calculated is the request, on loaded definitions, and an error arrives whole. `ComputeEnds` |
| `calculate_thread` | 3 calls of 5 kinds, 2 threads, 1 fault, no cancel | `OneWorker`, `QuietWhenNotBusy`, `ParamsMatch`, `RegistersLive`, `TrueMeansDone`, `NoReaderOfClosedPipe` |
| `forced_stop` | 2 calls, 2 threads, 1 fault (a thread that cannot be created, or a write that fails), any cancels | `TypeOK`; `CallReturns` and `StartedStarts` |
| `rpn_stack` | 4 registers, 3 operations, functions of 0 to 3 arguments | `StackTypeOK`, `OwnedOnce`, `ImplementsSpec` |
| `messages` | 2 nested stops, 3 texts of the 3 severities, 2 counts | vectors in step (`TypeOK`), `ImplementsLog` |
| `id_store` | 4 ids, nesting 2, 2 values | `IdsPartition`, `HeldIsStored` |
| `control` | no limit and two, 2 custom bases, 2 series, 1 exception; any number of calls | `SettingsRestored`, `OwnControl`, `AbortSticks`, `CallEnds` |
| `names` | 4 calls on 3 addresses, 6 definitions over 3 names, one short and two long | `TablesInStep`, `StillHasWhatIsListed`, `InactiveIsShadowed`, `NameIsUnique` |
| `dates` | 2 calls from 17 dates, amounts around each carry, zone one hour east, seconds in 1940 to 2060 | `DatesAreExact`, `TimesAreExact`, `SecondsToIsElapsed`, `WeeksFollow` |
| `calendars` | 13 stretches of 800 days | `DatesReturn`, `HebrewReturns`, `FormulasAgree`, `NextDayIsNextDate` |

Why the bounds are enough. Two requests are the shortest history in which one can
disturb the next; three let a failed one lie between. Three calculations let a call
follow one that was aborted or that created a register; two workers are the old one
of a forced stop and the new. Four registers give a move room to go up, down, to an
end and to stay, and a function of three arguments one register to leave alone. Two
stops give a release a stop and the queue to go to; counters matter only as zero or
more. Four ids with nesting two let an id be freed inside a parser and used again by
it. Control counts no calls: all histories of any length are explored, since only settings
and flags outlive a call. Four calls on three addresses are an item, its rival, a third
that has a name of each, and one call that destroys or renames; a fourth address would only
delay the reuse of one. Two date calls put the second at the odd places that the first
reaches; the dates are ends of months and years, leap days, three leap seconds, the
ends of their table and the years around 0. The stretches of the calendars cover every
epoch, year 0, ends of centuries and the present, each longer than two years.

`MCCalculateThread` explores no state past a cancelled thread (`CONSTRAINT
Undisturbed`), because each of its properties speaks of runs without one; after a
cancel they need not hold. Deadlock is not checked: the client may
stop calling at any time, and the bounds end a run.

Fairness. `ComputeEnds`: `compute` is a synchronous function, so once called it is
scheduled on (`WF(ComputeStep)`); calls themselves are not fair. `forced_stop`: weak fairness of
the client's steps and of each worker's steps but one, the natural end of a
calculation, which may never come; a calculation that was aborted is assumed to poll
`aborted()`, as all of the evaluation does. A calculation that the forced stop gave up
on and that never sees the abort is thus among the behaviours: its `i_aborted`
was reset. `StartedStarts` fails for a worker that shares its pipe with a cancelled one
and is stated for undisturbed runs. `CallEnds`: the clock (`WF(TimeOut)`) and polling
(`WF(Poll)`), which the evaluation and the printing do in every loop; that a stage
ends by itself is not assumed.

## Where the code departs from what is said of it

Two runs each check one statement of a comment or of the documentation and end in a
counterexample; `findings` in `PROJECT.json` quotes them.

- `bridge_answer`: `resultIndex` is not reset by a successful request; its answer
  lacks the letters the last one read.
- `abort_is_seen`: an abort before the worker's `startControl` is lost.

The rest are conditions of properties, or cases they leave out; each is a
counterexample once the condition is taken away.

Calculation thread:

- After a forced stop `abort()` returns false, the register is unreferenced, and the
  calculation runs on: `cancel` sends signal 0 (`util.cc:59`).
- A thread that cannot be started, or a write that fails, leaves `b_busy` set for ever
  (`Calculator.cc:3226`), where `Calculator.h:465` says what `busy()` means.
- `convertTimeOut` without a limit posts twice without waiting in between (`:3876`), so
  that `b_busy` is cleared by the first while the second is at work.
- A worker slower than ten milliseconds survives `terminateThreads`, which cancels it; the
  destructor then closes the pipes under it (`Calculator.cc:2287`). `NoReaderOfClosedPipe` is
  about a worker that ends in time.
- A failed write of the pointer leaves a lone bool in the pipe and cancels the thread; the next
  pair is misread from then on. `OneWorker`, which says there is no misreading, is about runs
  without a cancelled thread, and `TypeOK` says what the pipe holds.

RPN registers: the three calls under RPNStack above. Ids: `clearBuffers`
(`Calculator.cc:2243`), said to clear all stored values, keeps persistent ones and
erases the element its iterator stands on, but nothing calls it.

Control:

- "to bases" prints four times with `print(mstruct, 0, printops)` (`:3186`): each
  starts control anew without a limit, so the request's own limit is gone and an
  abort is forgotten, against `Calculator.h:412`. `OwnControl`, `AbortSticks` and
  `CallEnds` exempt it.
- An exception leaves `use_binary_prefixes`, the custom base, `i_stop_interval` and
  control as the call had set them; the app catches everything and goes on
  (`native_add_test.cpp:111`). `SettingsRestored` is stated for `throws = 0`.
- `stopControl` ends control whoever began it: a `print` inside the client's own
  control ends that too.
- Each series of a plot has the full limit for itself, and an abort in one does not reach the
  next: `AbortSticks` exempts plots.

Names:

- A name taken by force destroys the local item that had it, which restores the global
  item that had been replaced by that one, beside the new one: two active items of one
  name (`Calculator.cc:8518`). Renaming does so too, as `addName` (`ExpressionItem.cc:291`)
  may find the item itself and leave the other; and activation deactivates one
  rival only. `NameIsUnique` is stated for the histories without these.
- An item that has a new name already when `getName` destroys the local item it belonged to is
  still in `ufvl` under the indices of before. What is restored in that moment is put in its
  place by the lengths of other names (`Calculator.cc:5086`), and the list of long names is out
  of order from then on: the parser may take a shorter name first. `TablesInStep` claims the
  order while that has not happened (`tidy`). It takes four items and five calls, one more of
  each than the run has; the proof that the order is kept failed there, and TLC then found the
  history.
- `ExpressionItem::set` copies the first name in place of every name; `setLocal` uses it.
- Removing the last name of an item leaves its entries in the tables: `nameChanged`
  returns first.

Dates:

- `prevLeapSecond` of a date after 2016 reads `has_leap_second[90]` of 90 elements
  (`QalculateDateTime.cc:185`, `:194`). If that byte is not 0, seconds added backwards from
  there may end on 2017-06-30 23:59:60, which never was. `TimesAreExact` allows this outcome
  and no other.
- `addSeconds(1)` from a leap second stays on it; a negative amount that lands on midnight
  UTC exactly applies the zone twice (`QalculateDateTime.cc:1033`).
- `secondsTo` from within a leap second is one second short.
- `weekday` of a date with a time of day before 2017-07-31 is the next day's.
- With Sundays first, week 53 becomes week 1 (`:1100`), which is right only if
  the year's last week runs on into the next.
- Adding years to 23:59:60 gives one that never was.

## What is proved

For all values of the constants, by TLAPS:

- **RequestProofs**, on Bridge: `BridgeTyping` (`BridgeTypeOK`) and `Suffix`
  (`AnswerIsSuffix`). `BridgeTypeOK` holds `resultLength = Len(result)` and is inductive with
  the length of the error text (`ErrorTextType`). `Suffix` adds that while letters are read the answer is the
  piece of `result` that ends at `resultIndex`, or is still empty (`ReadToEnd`: at the end or at
  a NUL that is all up to it). `Served`
  (`RequestIsServed`) follows from three parts: while letters are sent `toC` holds what was
  sent so far and between requests nothing (`Collected`), what is calculated is that text on
  loaded definitions (`Calculated`), an error is read from its first letter (`ErrorRead`).
- **RPNProofs**, on CalculateThread: `Typing` for every behaviour, forced stops included. Under
  `TimedConversions` (no `convertTimeOut` without a limit; with one they fail): `SingleWorker`, `Quiet`, `OwnParameters`,
  `SafeClose`. None of the four is inductive. The invariant is `Handshake`: as long as
  no thread was cancelled, `Steady` holds, a conjunction of `Roster` (workers are created
  one after the other, all but the last are dead, `running` tells of the last), `Phase`
  (at each position of the client, whether nothing is posted, the bool without its
  pointer, one calculation, or the end), `Parameters` (the `tmp_*` members are those of
  the posted call) and `Control` (control belongs to the worker at work). The key is
  that at most one thing is posted and `b_busy` says whether: the client posts only when
  it is false, and the worker clears it only when the pipe is empty. The proof goes by
  actions of the client (`ClientSteady`, `CallSteady`, `PostSteady`) and of the worker
  (`WorkerSteady`). On top of it `LiveRegisters` (`RegistersLive`) and `TrueDone`
  (`TrueMeansDone`), with the invariant `StructureInv`: what the worker has in hand is in no
  register and not freed, calls number their structures once, a value is set before its
  command and nobody aborts while the client waits.
- **RPNProofs**, on RPNRegisters: lemmas on the register operations: types, elements, no structure
  twice, and that `Perform` puts nothing on the stack but its result. On RPNStack: `StackTyping`
  (`StackTypeOK`) and `Ownership` (`OwnedOnce`). Every calculation is
  `Computed`: the first k registers go, the result comes; every way to move a register is
  `Moved`, also where the code goes by the end of the vector or inserts before it removes.
  The invariant `Owned` says that no structure is in two registers and that the counts are
  1 in registers, 0 elsewhere; `OwnedOnce` counts the same. `Implements` (`ImplementsSpec`):
  `Reverse` of `Computed` and `Moved` is what RPNSpec says of register numbers, one lemma
  per call; that a new structure is the same on both sides needs `Owned` and that some
  number up to one more than the registers is in none (pigeonhole).
- **MessagesProofs**: `Typing` (`TypeOK`) and `Implements` (`ImplementsLog`): every step of the
  code, whatever its stops, is a step of the log of MessageLog or leaves it as it is. The
  queues, laid end to end (`Gathered`), are the log, so a report changes one queue and the
  log at its end (`TextGathered`, `GatheredAfter`); a release that shows the messages joins
  two neighbours and keeps the log (`PutAllAppends`); one that drops them, and `clearMessages`
  with their cleaning, keep a part in order (`CleanedIsPart`). The invariant `Inv` adds to
  `TypeOK` what the code relies on and nowhere tests: no two messages in the log have one
  text, which is why putting a stop's messages back never merges any, and the counts of a
  stop say what the worst message reported in it was, which is what the end of the stop
  consults. The functions over queues are recursive; what they compute is proved by an
  induction over the numbers (`Induction`, `Recursion`), itself proved from `LeastNumber`.
- **IdStoreProofs**: `Typing`, `Partition` and `HolderFinds`. The invariant joins the
  partition of the ids handed out (stored, reserved by a parser, free) with what each parser
  in progress has reserved, no two of them the same, and with what holders expect; the last
  is kept because an id that is free or reserved is held by none.
- **RequestProofs**, on Control: `Typing`, `Restored` (`SettingsRestored`), `OwnLimits`
  (`OwnControl`) and `Sticks` (`AbortSticks`). Between calls nothing needs restoring, so what has to be kept
  is what a call in progress has put aside: `Saved` says where the client's base and
  prefixes are at each stage of each command, `Counted` that interval arithmetic is stopped
  by the call at work and those that threw, `Owned` whose the limit and the abort are.
  A lemma per way to begin, go on, start again and return; one case per stage.
- **NamesProofs**: `NamesType` (`TypeOK`), `NamesTables` (`TablesInStep`), `NamesListed`
  (`StillHasWhatIsListed`), `NamesShadowed` (`InactiveIsShadowed`) and `NamesUnique`
  (`NameIsUnique`), all five invariants of the run, for any number of addresses, definitions and calls. They
  follow from `NamesInv` (`NamesInvHolds`): the registry is typed (`Registries`), the vectors hold
  living items once and in the vector of their kind (`Sound`), each table holds the entries that
  belong to it and no other (`Held`), `ufvl` is `Sorted` while `tidy`, and functions stay `Apart`,
  inactive items `Shadowed` and names `Unique` while their conditions hold. That is so between two calls
  only: within one an item has its new names and the entries of its old ones, and its
  rival's destruction runs handlers over the same tables. So each handler has a lemma on tables that
  are exact but for a set of items (`Held(r, X, P)`, where `P` are the entries that those still have) and on
  an order that leaves items out (`Sorted(r, Y)`): `NameChangedOf` and its like set an item
  aside, let the handlers run and take it in again. What comes back when an item goes is described by a
  relation (`Follows`: more global items are active, each without a rival when its turn came), what a
  destruction leaves by another (`Destroyed`), so that calls are composed from these without
  opening them again. An inactive item stays shadowed because an item that goes wakes
  whoever shares a name with it, unless a third one does (`Tried`). Loops run and keep what each round
  keeps (`LoopRuns`, `LoopKeeps`); that `getName` finds a free number is a
  pigeonhole on the names there are.
- **CalendarsProofs**: `EveryDateReturns`: for every integer day and every calendar
  modelled, the date leads back to the day and is one the calendar has; `DatesAlwaysReturn`,
  `HebrewDatesReturn` and `FormulasAlwaysAgree` follow along the walk. Each calendar is a lemma
  on its cycles (400, 900 or 30 years, 4 years, one year) and its months, by division with
  remainder. The Hebrew calendar has no formula: that its searches end where they should
  rests on its new years lying near their mean (`NearMean`), on the months filling the year,
  and on a search finding the least number (`LeastNumber`). `NextDay` (`NextDayIsNextDate`)
  says more, that the calendars go on from day to day: every day is in one month, and each
  month ends where the next begins (`GoesOn`: `MonthsHold`, `MonthsApart`, `MonthsFollow`).
- **DatesProofs**: `DatesTyping` (`TypeOK`), `DatesExact` (`DatesAreExact`), `TimesExact`
  (`TimesAreExact`), `SecondsElapsed` (`SecondsToIsElapsed`) and `WeeksAlwaysFollow`
  (`WeeksFollow`), all five invariants of the run, for every fixed offset from UTC, every
  amount, and both values of what is read past the table. `DatesInv` is inductive: the object
  and the one before are dates, and the one comes from the other by the last call (`CallDone`);
  the rest is about single calls. What they compute is given by loops: carry by carry in
  `addDays`, leap second by leap second in `addSeconds`. A loop whose measure goes down ends
  (`Loop`, `LoopRuns`), and what each of its rounds keeps holds of its result (`LoopKeeps`); a
  carry keeps the day that is meant (`CarryBackKeeps`, `CarryOnKeeps`), a round over a leap
  second keeps what is left of the seconds (`ForwardIsExact`, `BackwardIsExact`). Of the leap
  second behind the table `StrayLoopEnds` shows that the code's loop, written out round by
  round, ends where `Backward` says. Times are measured by a clock of the proof, `Clocked`: the
  seconds as if each day had 86400, and the leap seconds before the half-year; that this clock
  is what the property counts (`ElapsedIs`) and what `secondsTo` computes (`SecondsBetweenAre`)
  needs that a time which there was is 23:59:60 only when that half-year ends with a leap second
  (`Real`). The weeks are remainders of days by seven (`WeekdayIs`), numbered by the Thursdays
  of a year (`WeekIs`).

The assumptions are the named `ASSUME`s on the constants and no others.

Every invariant and every safety property of a run has its theorem, both refinements
included. Only model-checked is liveness under fairness (`ComputeEnds`, `CallReturns`,
`StartedStarts`, `CallEnds`), which is out of the prover's reach. `Reach`, the years in which seconds are counted, bounds what TLC computes
in 32 bits; the theorems hold for any set of years.

## Not modelled

- Algebra, numbers, functions, units, the text of expressions and results: unbounded
  data and string rewriting; what of them touches shared state (ids, message stops,
  `aborted()`, names) is in the modules above.
- Prefixes: searches through sorted tables whose criterion weighs digits and powers in
  `Number` arithmetic; without it a model would only restate the loops.
- The Persian and the Chinese calendar: positions of the sun and the moon as `Number`s.
  The branches of `cjdn_to_date` for the Egyptian and the Islamic calendar, which nothing
  reaches. Day count bases other than the actual one, fractions of a unit, and parsing.
- The view and command threads of `qalc.cc`: not compiled into the app; the protocol of
  `Thread` is in CalculateThread.
- Of Names: builtin items (which `setLocal` refuses), composite units, data sets, prefixes in
  the tables, `clearNames` and case.
- Exchange rates, Gnuplot, definition files, CSV: input and output with no protocol.
- The Dart widget keeps no state but the last answer. GMP, MPFR and libxml2 are third
  party, and by far most of the lines of this repository.

A forced stop that leaves the old worker with a structure the library has
unreferenced (`Calculator.cc:2271`) is in the model, but no property speaks of what
becomes of it. A second thread's `abort()` is modelled in Control but not in
CalculateThread. Memory order is that of the steps above: the flags are volatile, not
atomic, and a weaker order than the modelled one is possible on the target.

## What is left

1. **ViewThread**: the two threads of `qalc.cc` with `handle_exit`, their own `b_busy` cleared
   before `stopControl`; bounds as in CalculateThread.
2. **CalcService**: an abstract calculator (a call is accepted, then done or aborted
   once), implemented by CalculateThread while undisturbed and conversions are timed.
3. Bridge composed with Control: the settings an exception leaves behind, in the next request.
4. Composite units and prefixes in the tables of Names.
