------------------------------- MODULE Bridge -------------------------------
(***************************************************************************)
(* The foreign-function bridge between the Flutter app and the calculator. *)
(* The Dart side (compute in app/lib/main.dart) pushes a request one code  *)
(* unit at a time through putChar, ends it with putChar(0), which runs the *)
(* calculation, and pulls the printed result one byte at a time through    *)
(* getChar until it returns 0.  All native state is global and outlives a  *)
(* request, so what one request leaves behind is the next one's start.     *)
(*                                                                         *)
(* A byte is a number.  What calculateAndPrint prints is any member of      *)
(* Results, or an exception.  A unit cut to 0 makes a NUL of the text; the  *)
(* parser takes one for the name of an unknown, so a result may hold it.    *)
(***************************************************************************)
EXTENDS Integers, Sequences

CONSTANTS Requests,        \* the texts a user may submit (UTF-16 code units)
          Results,         \* what calculateAndPrint may print (bytes)
          SignedChar,      \* is the platform's char signed?
          MaxRequests,     \* bound: requests of one run
          MaxInitFailures  \* bound: failed initialisations of one run

Bytes == 0..255
CodeUnits == {x \in Nat : 0 < x /\ x < 256 * 256}

ASSUME BridgeAssumption ==
    /\ Requests \subseteq Seq(CodeUnits) \ {<<>>}
    /\ Results \subseteq Seq(Bytes)
    /\ SignedChar \in BOOLEAN
    /\ MaxRequests \in Nat
    /\ MaxInitFailures \in Nat

VARIABLES
    toC,           \* bytes collected for the next query
    result,        \* the printed result, or the error text
    resultIndex,   \* letters of result already handed out
    resultLength,  \* letters of result to hand out
    isInited,      \* init() ran to its end
    created,       \* Calculator objects constructed so far
    loaded,        \* definition stages loaded into the current CALCULATOR
    pc,            \* where compute() is
    request,       \* compute's argument
    sent,          \* code units of it already pushed
    answer,        \* compute's answer so far
    query,         \* the text the last calculation was asked for
    failed,        \* did the last putChar(0) take the catch branch?
    requests       \* requests made so far

native == <<toC, result, resultIndex, resultLength>>
library == <<isInited, created, loaded>>
dart == <<pc, request, sent, answer>>
history == <<query, failed, requests>>
bridge == <<native, library, dart, history>>
-----------------------------------------------------------------------------
LoadStages == <<"exchangeRates", "globalDefinitions", "localDefinitions">>
FirstStages(n) == {LoadStages[i] : i \in 1..n}
AllStages == FirstStages(3)

\* Operators named Mut... are plausible bugs, each written before the definition
\* whose body it stands in for when the properties are tested.

ErrorText == <<69, 114, 114, 111, 114, 32, 58, 40>>   \* "Error :("

MutErrorLength == 9
ErrorLength == 8              \* resultLength of the catch branch

\* (char) x keeps the low byte of a code unit.
LowByte(x) == x % 256

\* The int32_t that getChar makes of a char.
AsInt(c) == IF SignedChar /\ c >= 128 THEN c - 256 ELSE c

BridgeInit ==
    /\ toC = <<>>
    /\ result = <<>>
    /\ resultIndex = 0
    /\ resultLength = 0
    /\ isInited = FALSE
    /\ created = 0
    /\ loaded = {}
    /\ pc = "idle"
    /\ request = <<>>
    /\ sent = 0
    /\ answer = <<>>
    /\ query = <<>>
    /\ failed = FALSE
    /\ requests = 0

AtRest == pc \in {"idle", "done"}

NeedsInit == ~isInited

\* toC.str("") at the end of putChar(0), whichever branch was taken.
ClearRequest == toC' = <<>>

\* resultIndex = 0: only the catch branch rewinds.
MutRewind == UNCHANGED resultIndex
Rewind == resultIndex' = 0

MutLettersLeft == resultIndex + 1 < resultLength
LettersLeft == resultIndex < resultLength

\* compute(request) with a non-empty text.
Compute(text) ==
    /\ AtRest
    /\ requests < MaxRequests
    /\ requests' = requests + 1
    /\ request' = text
    /\ sent' = 0
    /\ answer' = <<>>
    /\ pc' = "send"
    /\ UNCHANGED <<native, library, query, failed>>

\* putChar(x), x # 0.
PutLetter ==
    /\ pc = "send"
    /\ sent < Len(request)
    /\ toC' = Append(toC, LowByte(request[sent + 1]))
    /\ sent' = sent + 1
    /\ UNCHANGED <<result, resultIndex, resultLength, library, pc, request,
                   answer, history>>

\* init(), unless it ran before: a new Calculator becomes CALCULATOR.
InitSucceeds ==
    IF NeedsInit
    THEN /\ created' = created + 1
         /\ loaded' = AllStages
         /\ isInited' = TRUE
    ELSE UNCHANGED library

\* init() throws after the first n stages, or in the constructor itself.
InitThrows ==
    /\ NeedsInit
    /\ UNCHANGED isInited
    /\ created < MaxInitFailures
    /\ \/ UNCHANGED <<created, loaded>>
       \/ \E n \in 0..2 :
            /\ created' = created + 1
            /\ loaded' = FirstStages(n)

\* putChar(0): the calculation prints r.
PutZeroPrints(r) ==
    /\ pc = "send"
    /\ sent = Len(request)
    /\ InitSucceeds
    /\ query' = toC
    /\ result' = r
    /\ resultLength' = Len(r)
    /\ UNCHANGED resultIndex
    /\ ClearRequest
    /\ failed' = FALSE
    /\ pc' = "read"
    /\ UNCHANGED <<request, sent, answer, requests>>

\* putChar(0): initialisation or calculation throws.
PutZeroThrows ==
    /\ pc = "send"
    /\ sent = Len(request)
    /\ \/ InitThrows /\ UNCHANGED query
       \/ InitSucceeds /\ query' = toC
    /\ result' = ErrorText
    /\ Rewind
    /\ resultLength' = ErrorLength
    /\ ClearRequest
    /\ failed' = TRUE
    /\ pc' = "read"
    /\ UNCHANGED <<request, sent, answer, requests>>

\* getChar() returns a letter; String.fromCharCode rejects a negative one and
\* the RangeError leaves compute.
GetLetter ==
    /\ pc = "read"
    /\ LettersLeft
    /\ result[resultIndex + 1] # 0
    /\ resultIndex' = resultIndex + 1
    /\ LET c == AsInt(result[resultIndex + 1])
       IN  IF c >= 0
           THEN answer' = Append(answer, c) /\ UNCHANGED pc
           ELSE pc' = "idle" /\ UNCHANGED answer
    /\ UNCHANGED <<toC, result, resultLength, library, request, sent, history>>

\* getChar() returns a NUL of the result: compute takes it for the end.
GetNul ==
    /\ pc = "read"
    /\ LettersLeft
    /\ result[resultIndex + 1] = 0
    /\ resultIndex' = resultIndex + 1
    /\ pc' = "done"
    /\ UNCHANGED <<toC, result, resultLength, library, request, sent, answer, history>>

\* The end recognised only at equality.
MutGetEnd ==
    /\ pc = "read"
    /\ resultIndex = resultLength
    /\ pc' = "done"
    /\ UNCHANGED <<native, library, request, sent, answer, history>>

\* getChar() returns 0: compute returns answer.
GetEnd ==
    /\ pc = "read"
    /\ ~LettersLeft
    /\ pc' = "done"
    /\ UNCHANGED <<native, library, request, sent, answer, history>>

\* native_add(): initialises too, but nothing catches what init() throws.
NativeAdd ==
    /\ AtRest
    /\ \/ InitSucceeds /\ UNCHANGED pc
       \/ InitThrows /\ pc' = "crashed"
    /\ UNCHANGED <<native, request, sent, answer, history>>

ComputeStep ==
    \/ PutLetter
    \/ \E r \in Results : PutZeroPrints(r)
    \/ PutZeroThrows
    \/ GetLetter
    \/ GetNul
    \/ GetEnd

BridgeNext ==
    \/ \E text \in Requests : Compute(text)
    \/ ComputeStep
    \/ NativeAdd

BridgeSpec == BridgeInit /\ [][BridgeNext]_bridge

\* compute is a synchronous function: once called, it runs on.
FairBridge == BridgeSpec /\ WF_bridge(ComputeStep)
-----------------------------------------------------------------------------
NativeType ==
    /\ toC \in Seq(Bytes)
    /\ result \in Seq(Bytes)
    /\ resultIndex \in Nat
    /\ resultLength = Len(result)

LibraryType ==
    /\ isInited \in BOOLEAN
    /\ created \in Nat
    /\ loaded \subseteq AllStages

DartType ==
    /\ pc \in {"idle", "send", "read", "done", "crashed"}
    /\ request \in Seq(CodeUnits)
    /\ sent \in 0..Len(request)
    /\ answer \in Seq(Bytes)

\* The native globals hold values of their C++ types, and resultLength is the
\* length of result, so that getChar's result[resultIndex++] stays inside it
\* (the catch branch sets the length by hand).
BridgeTypeOK ==
    /\ NativeType
    /\ LibraryType
    /\ DartType
    /\ query \in Seq(Bytes)
    /\ failed \in BOOLEAN
    /\ requests \in 0..MaxRequests

\* What compute returns is the end of this request's own result, or of the part
\* of it before a NUL: letters of an earlier, possibly abandoned, result never
\* reach a later answer.
AnswerIsSuffix ==
    pc = "done" =>
        \E first \in 0..Len(result) - Len(answer) :
           /\ \A i \in 1..Len(answer) : answer[i] = result[first + i]
           /\ \/ first + Len(answer) = Len(result)
              \/ result[first + Len(answer) + 1] = 0

\* The calculation is asked for exactly this request's text (each unit cut to
\* a byte): nothing an earlier request collected, failed or not, is left in
\* toC when the next one starts.  It is done by a calculator that has all its
\* definitions: if init() threw in the middle, the next request starts over with
\* a new one.  A request that failed is answered with the whole error text,
\* wherever the earlier ones left the read position.
RequestIsServed ==
    /\ AtRest => toC = <<>>
    /\ (pc \in {"read", "done"} /\ ~failed) =>
           /\ loaded = AllStages
           /\ Len(query) = Len(request)
           /\ \A i \in 1..Len(query) : query[i] = LowByte(request[i])
    /\ (pc = "done" /\ failed) => answer = ErrorText

\* Every compute call returns or throws: the while(true) around getChar ends
\* whatever index an earlier request left behind.
ComputeEnds == (pc = "send") ~> (pc \in {"idle", "done"})

=============================================================================
