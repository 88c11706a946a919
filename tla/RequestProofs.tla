---------------------------- MODULE RequestProofs ----------------------------
(***************************************************************************)
(* The app's requests: the safety properties of Bridge, which hands them   *)
(* over, and of Control, under which they are calculated.                  *)
(*                                                                         *)
(* Of Bridge: for every set of requests and results, any bounds and either *)
(* signedness of char.  Of Control: what is between calls depends on what  *)
(* the calls in progress keep for their end.  Saved says where a call has  *)
(* the settings it will restore, Owned whose the limit and the abort are.  *)
(***************************************************************************)
EXTENDS Bridge, Control, SequenceTheorems, TLAPS

\* The error text is a string of bytes of the length the catch branch sets.
LEMMA ErrorTextType == ErrorText \in Seq(Bytes) /\ ErrorLength = Len(ErrorText)
  BY DEF ErrorText, ErrorLength, Bytes

\* (char) x is a byte, and so is what getChar hands out if it is not negative.
LEMMA ByteTypes ==
  /\ \A x \in Int : LowByte(x) \in Bytes
  /\ \A c \in Bytes : AsInt(c) >= 0 => AsInt(c) \in Bytes
  BY DEF LowByte, AsInt, Bytes

\* The texts of an instance are sequences of code units, its results of bytes.
LEMMA Inputs ==
  /\ \A text \in Requests : text \in Seq(CodeUnits)
  /\ \A r \in Results : r \in Seq(Bytes)
  BY BridgeAssumption

\* The first stages are some of all stages.
LEMMA SomeStages == \A n \in 0..2 : FirstStages(n) \subseteq AllStages
  BY DEF FirstStages, AllStages

\* Initialisation, successful or not, keeps the types of the library's state.
LEMMA InitType ==
  ASSUME LibraryType, InitSucceeds \/ InitThrows
  PROVE  LibraryType'
  <1>1. CASE InitSucceeds /\ NeedsInit
    <2>1. /\ created' = created + 1
          /\ loaded' = AllStages
          /\ isInited' = TRUE
      BY <1>1 DEF InitSucceeds
    <2>2. QED
      BY <2>1 DEF LibraryType
  <1>2. CASE UNCHANGED library
    BY <1>2 DEF LibraryType, library
  <1>3. CASE InitThrows
    <2>1. isInited' = isInited
      BY <1>3 DEF InitThrows
    <2>2. created' \in Nat /\ loaded' \subseteq AllStages
      <3>1. CASE UNCHANGED <<created, loaded>>
        BY <3>1 DEF LibraryType
      <3>2. CASE /\ created' = created + 1
                 /\ \E n \in 0..2 : loaded' = FirstStages(n)
        BY <3>2, SomeStages DEF LibraryType
      <3>3. QED
        BY <1>3, <3>1, <3>2 DEF InitThrows
    <2>3. QED
      BY <2>1, <2>2 DEF LibraryType
  <1>4. QED
    BY <1>1, <1>2, <1>3 DEF InitSucceeds

\* The code unit putChar is called with, and the letter getChar returns.
LEMMA NextUnit ==
  ASSUME DartType, sent < Len(request)
  PROVE  LowByte(request[sent + 1]) \in Bytes
  <1>1. request \in Seq(CodeUnits) /\ sent \in 0..Len(request)
    BY DEF DartType
  <1>2. Len(request) \in Nat
    BY <1>1, LenProperties
  <1>3. sent + 1 \in 1..Len(request)
    BY <1>1, <1>2
  <1>4. request[sent + 1] \in CodeUnits
    BY <1>1, <1>3, ElementOfSeq
  <1>5. request[sent + 1] \in Int
    BY <1>4 DEF CodeUnits
  <1>6. QED
    BY <1>5, ByteTypes

LEMMA NextLetter ==
  ASSUME NativeType, LettersLeft
  PROVE  result[resultIndex + 1] \in Bytes
  <1>1. result \in Seq(Bytes) /\ resultIndex \in Nat /\ resultLength = Len(result)
    BY DEF NativeType
  <1>2. Len(result) \in Nat
    BY <1>1, LenProperties
  <1>3. resultIndex + 1 \in 1..Len(result)
    BY <1>1, <1>2 DEF LettersLeft
  <1>4. QED
    BY <1>1, <1>3, ElementOfSeq

\* Every step preserves the types of the native globals; in particular
\* resultLength stays the length of result.
LEMMA NativeStep ==
  ASSUME NativeType, DartType, [BridgeNext]_bridge
  PROVE  NativeType'
  <1>1. CASE PutLetter
    <2>1. /\ toC' = Append(toC, LowByte(request[sent + 1]))
          /\ sent < Len(request)
          /\ UNCHANGED <<result, resultIndex, resultLength>>
      BY <1>1 DEF PutLetter
    <2>2. LowByte(request[sent + 1]) \in Bytes
      BY <2>1, NextUnit
    <2>3. toC' \in Seq(Bytes)
      BY <2>1, <2>2, AppendProperties DEF NativeType
    <2>4. QED
      BY <2>1, <2>3 DEF NativeType
  <1>2. ASSUME NEW r \in Results, PutZeroPrints(r)
        PROVE  NativeType'
    <2>1. /\ toC' = <<>>
          /\ result' = r
          /\ resultLength' = Len(r)
          /\ resultIndex' = resultIndex
      BY <1>2 DEF PutZeroPrints, ClearRequest
    <2>2. r \in Seq(Bytes)
      BY Inputs
    <2>3. QED
      BY <2>1, <2>2 DEF NativeType
  <1>3. CASE PutZeroThrows
    <2>1. /\ toC' = <<>>
          /\ result' = ErrorText
          /\ resultLength' = ErrorLength
          /\ resultIndex' = 0
      BY <1>3 DEF PutZeroThrows, ClearRequest, Rewind
    <2>2. QED
      BY <2>1, ErrorTextType DEF NativeType
  <1>4. CASE GetLetter \/ GetNul
    <2>1. /\ resultIndex' = resultIndex + 1
          /\ UNCHANGED <<toC, result, resultLength>>
      BY <1>4 DEF GetLetter, GetNul
    <2>2. QED
      BY <2>1 DEF NativeType
  <1>5. CASE UNCHANGED native
    BY <1>5 DEF native, NativeType
  <1>6. QED
    BY <1>1, <1>2, <1>3, <1>4, <1>5
       DEF BridgeNext, ComputeStep, Compute, GetEnd, NativeAdd, bridge

\* Every step preserves the types of the library's state.
LEMMA LibraryStep ==
  ASSUME LibraryType, [BridgeNext]_bridge
  PROVE  LibraryType'
  <1>1. CASE InitSucceeds \/ InitThrows
    BY <1>1, InitType
  <1>2. CASE UNCHANGED library
    BY <1>2 DEF library, LibraryType
  <1>3. QED
    BY <1>1, <1>2
       DEF BridgeNext, ComputeStep, Compute, PutLetter, PutZeroPrints, PutZeroThrows,
           GetLetter, GetNul, GetEnd, NativeAdd, bridge

\* Every step preserves the types of compute's local state: a letter that
\* reaches the answer is a byte.
LEMMA DartStep ==
  ASSUME NativeType, DartType, [BridgeNext]_bridge
  PROVE  DartType'
  <1>1. ASSUME NEW text \in Requests, Compute(text)
        PROVE  DartType'
    <2>1. /\ request' = text
          /\ sent' = 0
          /\ answer' = <<>>
          /\ pc' = "send"
      BY <1>1 DEF Compute
    <2>2. text \in Seq(CodeUnits)
      BY Inputs
    <2>3. Len(text) \in Nat
      BY <2>2, LenProperties
    <2>4. 0 \in 0..Len(text)
      BY <2>3
    <2>5. QED
      BY <2>1, <2>2, <2>4 DEF DartType
  <1>2. CASE PutLetter
    <2>1. /\ sent < Len(request)
          /\ sent' = sent + 1
          /\ UNCHANGED <<pc, request, answer>>
      BY <1>2 DEF PutLetter
    <2>2. sent + 1 \in 0..Len(request)
      <3>1. Len(request) \in Nat
        BY LenProperties DEF DartType
      <3>2. sent \in 0..Len(request)
        BY DEF DartType
      <3>3. QED
        BY <2>1, <3>1, <3>2
    <2>3. QED
      BY <2>1, <2>2 DEF DartType
  <1>3. CASE UNCHANGED <<request, sent, answer>> /\ pc' \in {"read", "done", "idle", "crashed", pc}
    BY <1>3 DEF DartType
  <1>4. CASE GetLetter
    <2> DEFINE c == AsInt(result[resultIndex + 1])
    <2>1. UNCHANGED <<request, sent>>
      BY <1>4 DEF GetLetter
    <2>2. CASE c >= 0
      <3>1. c \in Bytes
        <4>1. result[resultIndex + 1] \in Bytes
          BY <1>4, NextLetter DEF GetLetter
        <4>2. QED
          BY <2>2, <4>1, ByteTypes
      <3>2. answer' = Append(answer, c) /\ pc' = pc
        BY <1>4, <2>2 DEF GetLetter
      <3>3. answer' \in Seq(Bytes)
        BY <3>1, <3>2, AppendProperties DEF DartType
      <3>4. QED
        BY <2>1, <3>2, <3>3 DEF DartType
    <2>3. CASE ~(c >= 0)
      <3>1. answer' = answer /\ pc' = "idle"
        BY <1>4, <2>3 DEF GetLetter
      <3>2. QED
        BY <2>1, <3>1 DEF DartType
    <2>4. QED
      BY <2>2, <2>3
  <1>5. QED
    BY <1>1, <1>2, <1>3, <1>4
       DEF BridgeNext, ComputeStep, PutZeroPrints, PutZeroThrows, GetNul, GetEnd, NativeAdd, bridge, dart

\* The globals keep their types and getChar stays inside the result string.
THEOREM BridgeTyping == BridgeSpec => []BridgeTypeOK
  <1>1. BridgeInit => BridgeTypeOK
    <2> SUFFICES ASSUME BridgeInit
                 PROVE  BridgeTypeOK
      OBVIOUS
    <2>1. NativeType
      BY DEF BridgeInit, NativeType
    <2>2. LibraryType
      BY DEF BridgeInit, LibraryType
    <2>3. DartType
      BY DEF BridgeInit, DartType
    <2>4. query \in Seq(Bytes)
      BY EmptySeq DEF BridgeInit
    <2>5. failed \in BOOLEAN
      BY DEF BridgeInit
    <2>6. requests \in 0..MaxRequests
      BY BridgeAssumption DEF BridgeInit
    <2>7. QED
      BY <2>1, <2>2, <2>3, <2>4, <2>5, <2>6 DEF BridgeTypeOK
  <1>2. BridgeTypeOK /\ [BridgeNext]_bridge => BridgeTypeOK'
    <2> SUFFICES ASSUME BridgeTypeOK, [BridgeNext]_bridge
                 PROVE  BridgeTypeOK'
      OBVIOUS
    <2>1. NativeType' /\ LibraryType' /\ DartType'
      BY NativeStep, LibraryStep, DartStep DEF BridgeTypeOK
    <2>2. query' \in {query, toC} /\ failed' \in {failed, TRUE, FALSE}
      BY DEF BridgeNext, ComputeStep, Compute, PutLetter, PutZeroPrints, PutZeroThrows,
             GetLetter, GetNul, GetEnd, NativeAdd, bridge, history
    <2>3. query' \in Seq(Bytes) /\ failed' \in BOOLEAN
      BY <2>2 DEF BridgeTypeOK, NativeType
    <2>4. requests' = requests \/ (requests < MaxRequests /\ requests' = requests + 1)
      <3>1. ASSUME NEW text \in Requests, Compute(text)
            PROVE  requests < MaxRequests /\ requests' = requests + 1
        BY <3>1 DEF Compute
      <3>2. ASSUME ComputeStep
            PROVE  requests' = requests
        BY <3>2 DEF ComputeStep, PutLetter, PutZeroPrints, PutZeroThrows, GetLetter,
                    GetNul, GetEnd, history
      <3>3. ASSUME NativeAdd \/ UNCHANGED bridge
            PROVE  requests' = requests
        BY <3>3 DEF NativeAdd, bridge, history
      <3>4. QED
        BY <3>1, <3>2, <3>3 DEF BridgeNext
    <2>5. requests' \in 0..MaxRequests
      BY <2>4, BridgeAssumption DEF BridgeTypeOK
    <2>6. QED
      BY <2>1, <2>3, <2>5 DEF BridgeTypeOK
  <1>3. QED
    BY <1>1, <1>2, PTL DEF BridgeSpec
-----------------------------------------------------------------------------
(* The answer is an end of the result.  What makes it inductive is what    *)
(* compute has read so far: the letters just before resultIndex, or nothing *)
(* if an earlier request left resultIndex at or past the end.              *)

Read ==
    \/ answer = <<>>
    \/ /\ Len(answer) <= resultIndex
       /\ resultIndex <= Len(result)
       /\ \A i \in 1..Len(answer) : answer[i] = result[resultIndex - Len(answer) + i]

SuffixInv ==
    /\ pc = "send" => answer = <<>>
    /\ pc = "read" => Read
    /\ AnswerIsSuffix

\* A letter getChar returns unharmed is the byte of the result.
LEMMA LetterValue == \A c \in Bytes : AsInt(c) >= 0 => AsInt(c) = c
  BY DEF AsInt, Bytes

\* Reading one more letter keeps what has been read adjacent to resultIndex.
LEMMA ReadLetter ==
  ASSUME BridgeTypeOK, Read, GetLetter, AsInt(result[resultIndex + 1]) >= 0
  PROVE  Read'
  <1> DEFINE c == AsInt(result[resultIndex + 1])
  <1>1. /\ answer' = Append(answer, c)
        /\ resultIndex' = resultIndex + 1
        /\ result' = result
        /\ LettersLeft
    BY DEF GetLetter
  <1>2. c \in Bytes /\ c = result[resultIndex + 1]
    <2>1. result[resultIndex + 1] \in Bytes
      BY <1>1, NextLetter DEF BridgeTypeOK
    <2>2. QED
      BY <2>1, ByteTypes, LetterValue
  <1>3. /\ answer \in Seq(Bytes)
        /\ resultIndex \in Nat
        /\ Len(answer) \in Nat
        /\ Len(result) \in Nat
        /\ resultIndex < Len(result)
    BY <1>1, LenProperties DEF BridgeTypeOK, DartType, NativeType, LettersLeft
  <1>4. /\ Len(answer') = Len(answer) + 1
        /\ \A i \in 1..Len(answer) : answer'[i] = answer[i]
        /\ answer'[Len(answer) + 1] = c
    BY <1>1, <1>2, <1>3, AppendProperties
  <1>5. Len(answer) <= resultIndex
    <2>1. CASE answer = <<>>
      BY <1>3, <2>1, EmptySeq
    <2>2. CASE answer # <<>>
      BY <2>2 DEF Read
    <2>3. QED
      BY <2>1, <2>2
  <1>6. ASSUME NEW i \in 1..Len(answer)
        PROVE  answer'[i] = result[resultIndex - Len(answer) + i]
    <2>1. answer # <<>>
      BY <1>3, EmptySeq
    <2>2. answer[i] = result[resultIndex - Len(answer) + i]
      BY <2>1 DEF Read
    <2>3. QED
      BY <1>4, <2>2
  <1>7. ASSUME NEW i \in 1..Len(answer')
        PROVE  answer'[i] = result'[resultIndex' - Len(answer') + i]
    <2>1. resultIndex' - Len(answer') + i = resultIndex - Len(answer) + i
      BY <1>1, <1>3, <1>4
    <2>2. CASE i \in 1..Len(answer)
      BY <1>1, <1>6, <2>1, <2>2
    <2>3. CASE i = Len(answer) + 1
      <3>1. resultIndex - Len(answer) + i = resultIndex + 1
        BY <1>3, <2>3
      <3>2. QED
        BY <1>1, <1>2, <1>4, <2>1, <2>3, <3>1
    <2>4. QED
      BY <1>3, <1>4, <2>2, <2>3
  <1>8. Len(answer') <= resultIndex' /\ resultIndex' <= Len(result')
    BY <1>1, <1>3, <1>4, <1>5
  <1>9. QED
    BY <1>7, <1>8 DEF Read

\* At the end of the result, or at a NUL, what has been read is all up to it.
LEMMA ReadToEnd ==
  ASSUME BridgeTypeOK, Read,
         ~LettersLeft \/ (LettersLeft /\ result[resultIndex + 1] = 0)
  PROVE  \E first \in 0..Len(result) - Len(answer) :
            /\ \A i \in 1..Len(answer) : answer[i] = result[first + i]
            /\ \/ first + Len(answer) = Len(result)
               \/ result[first + Len(answer) + 1] = 0
  <1>1. /\ Len(answer) \in Nat /\ Len(result) \in Nat /\ resultIndex \in Nat
        /\ LettersLeft <=> resultIndex < Len(result)
        /\ answer = <<>> => Len(answer) = 0
    BY LenProperties, EmptySeq DEF BridgeTypeOK, DartType, NativeType, LettersLeft
  <1>0. answer # <<>> => Len(answer) <= resultIndex
    BY DEF Read
  <1>2. PICK first \in Nat : first = IF answer # <<>> THEN resultIndex - Len(answer)
                                    ELSE IF LettersLeft THEN resultIndex ELSE Len(result)
    <2>1. CASE answer # <<>>
      <3>1. resultIndex - Len(answer) \in Nat
        BY <1>0, <1>1, <2>1
      <3>2. QED
        BY <2>1, <3>1
    <2>2. CASE answer = <<>>
      BY <1>1, <2>2
    <2>3. QED
      BY <2>1, <2>2
  <1>3. CASE answer = <<>>
    <2>1. first + Len(answer) = IF LettersLeft THEN resultIndex ELSE Len(result)
      BY <1>1, <1>2, <1>3
    <2>2. first \in 0..Len(result) - Len(answer)
      BY <1>1, <1>3, <2>1
    <2>3. \A i \in 1..Len(answer) : answer[i] = result[first + i]
      BY <1>1, <1>3
    <2>4. first + Len(answer) = Len(result) \/ result[first + Len(answer) + 1] = 0
      BY <2>1
    <2>5. QED
      BY <2>2, <2>3, <2>4
  <1>4. CASE answer # <<>>
    <2>1. /\ Len(answer) <= resultIndex /\ resultIndex <= Len(result)
          /\ \A i \in 1..Len(answer) : answer[i] = result[resultIndex - Len(answer) + i]
      BY <1>4 DEF Read
    <2>2. first = resultIndex - Len(answer) /\ first + Len(answer) = resultIndex
      BY <1>1, <1>2, <1>4
    <2>3. first \in 0..Len(result) - Len(answer)
      BY <1>1, <2>1, <2>2
    <2>4. \A i \in 1..Len(answer) : answer[i] = result[first + i]
      BY <2>1, <2>2
    <2>5. first + Len(answer) = Len(result) \/ result[first + Len(answer) + 1] = 0
      BY <1>1, <2>1, <2>2
    <2>6. QED
      BY <2>3, <2>4, <2>5
  <1>5. QED
    BY <1>3, <1>4

\* Every step preserves the inductive invariant.
LEMMA SuffixStep ==
  ASSUME BridgeTypeOK, SuffixInv, [BridgeNext]_bridge
  PROVE  SuffixInv'
  <1>1. CASE \E text \in Requests : Compute(text)
    BY <1>1 DEF Compute, SuffixInv, AnswerIsSuffix
  <1>2. CASE PutLetter
    BY <1>2 DEF PutLetter, SuffixInv, AnswerIsSuffix
  <1>3. CASE PutZeroThrows \/ \E r \in Results : PutZeroPrints(r)
    <2>1. pc' = "read" /\ answer' = answer /\ pc = "send"
      BY <1>3 DEF PutZeroThrows, PutZeroPrints
    <2>2. QED
      BY <2>1 DEF SuffixInv, AnswerIsSuffix, Read
  <1>4. CASE GetLetter
    <2>1. pc = "read" /\ Read
      BY <1>4 DEF GetLetter, SuffixInv
    <2>2. CASE AsInt(result[resultIndex + 1]) >= 0
      <3>1. pc' = "read"
        BY <1>4, <2>1, <2>2 DEF GetLetter
      <3>2. Read'
        BY <1>4, <2>1, <2>2, ReadLetter
      <3>3. QED
        BY <3>1, <3>2 DEF SuffixInv, AnswerIsSuffix
    <2>3. CASE ~(AsInt(result[resultIndex + 1]) >= 0)
      <3>1. pc' = "idle"
        BY <1>4, <2>3 DEF GetLetter
      <3>2. QED
        BY <3>1 DEF SuffixInv, AnswerIsSuffix
    <2>4. QED
      BY <2>2, <2>3
  <1>5. CASE GetEnd \/ GetNul
    <2>1. /\ pc = "read" /\ pc' = "done"
          /\ ~LettersLeft \/ (LettersLeft /\ result[resultIndex + 1] = 0)
          /\ answer' = answer /\ result' = result
      BY <1>5 DEF GetEnd, GetNul, native
    <2>2. Read
      BY <2>1 DEF SuffixInv
    <2>3. \E first \in 0..Len(result) - Len(answer) :
             /\ \A i \in 1..Len(answer) : answer[i] = result[first + i]
             /\ \/ first + Len(answer) = Len(result)
                \/ result[first + Len(answer) + 1] = 0
      BY <2>1, <2>2, ReadToEnd
    <2>4. QED
      BY <2>1, <2>3 DEF SuffixInv, AnswerIsSuffix
  <1>6. CASE NativeAdd
    <2>1. /\ pc \in {"idle", "done"}
          /\ pc' \in {pc, "crashed"}
          /\ answer' = answer /\ result' = result
      BY <1>6 DEF NativeAdd, AtRest, native
    <2>2. QED
      BY <2>1 DEF SuffixInv, AnswerIsSuffix
  <1>7. CASE UNCHANGED bridge
    BY <1>7 DEF bridge, native, dart, SuffixInv, AnswerIsSuffix, Read
  <1>8. QED
    BY <1>1, <1>2, <1>3, <1>4, <1>5, <1>6, <1>7 DEF BridgeNext, ComputeStep

\* Whatever earlier requests left behind, compute's answer is an end of the
\* result printed for this request, or of its part before a NUL, and holds
\* nothing else.
THEOREM Suffix == BridgeSpec => []AnswerIsSuffix
  <1>1. BridgeInit => SuffixInv
    BY DEF BridgeInit, SuffixInv, AnswerIsSuffix
  <1>2. SuffixInv => AnswerIsSuffix
    BY DEF SuffixInv
  <1>3. BridgeTypeOK /\ SuffixInv /\ [BridgeNext]_bridge => SuffixInv'
    BY SuffixStep
  <1>4. QED
    BY <1>1, <1>2, <1>3, BridgeTyping, PTL DEF BridgeSpec
-----------------------------------------------------------------------------
(* The request is served.  While it is sent, toC holds what was sent of it; *)
(* between requests, nothing.  While an error is read, its first letters    *)
(* have been.                                                               *)

Collected ==
    /\ pc # "send" => toC = <<>>
    /\ pc = "send" => /\ Len(toC) = sent
                      /\ \A i \in 1..sent : toC[i] = LowByte(request[i])

Calculated ==
    /\ isInited => loaded = AllStages
    /\ (pc \in {"read", "done"} /\ ~failed) =>
           /\ loaded = AllStages
           /\ Len(query) = Len(request)
           /\ \A i \in 1..Len(query) : query[i] = LowByte(request[i])

ErrorRead ==
    /\ (pc = "read" /\ failed) =>
           /\ result = ErrorText
           /\ Len(answer) = resultIndex /\ resultIndex <= Len(ErrorText)
           /\ \A i \in 1..resultIndex : answer[i] = ErrorText[i]
    /\ (pc = "done" /\ failed) => answer = ErrorText

ServedInv == Collected /\ Calculated /\ ErrorRead

\* One more letter is collected.
LEMMA CollectLetter ==
  ASSUME BridgeTypeOK, Collected, PutLetter
  PROVE  Collected'
  <1>1. /\ pc = "send" /\ pc' = "send" /\ sent < Len(request) /\ sent' = sent + 1
        /\ request' = request /\ toC' = Append(toC, LowByte(request[sent + 1]))
    BY DEF PutLetter
  <1>2. LowByte(request[sent + 1]) \in Bytes /\ toC \in Seq(Bytes) /\ sent \in Nat
    <2>1. request \in Seq(CodeUnits) /\ sent \in 0..Len(request)
      BY DEF BridgeTypeOK, DartType
    <2>2. Len(request) \in Nat
      BY <2>1, LenProperties
    <2>3. sent \in Nat
      BY <2>1, <2>2
    <2>4. QED
      BY <1>1, <2>3, NextUnit DEF BridgeTypeOK, NativeType
  <1>3. /\ Len(toC) = sent
        /\ \A i \in 1..sent : toC[i] = LowByte(request[i])
    BY <1>1 DEF Collected
  <1>4. /\ Len(toC') = sent + 1
        /\ \A i \in 1..sent : toC'[i] = toC[i]
        /\ toC'[sent + 1] = LowByte(request[sent + 1])
    BY <1>1, <1>2, <1>3, AppendProperties
  <1>5. \A i \in 1..sent' : toC'[i] = LowByte(request'[i])
    BY <1>1, <1>2, <1>3, <1>4
  <1>6. QED
    BY <1>1, <1>4, <1>5 DEF Collected

\* init() leaves all definitions loaded, or is still to be called.
LEMMA InitLoads ==
  ASSUME Calculated, InitSucceeds
  PROVE  (isInited' => loaded' = AllStages) /\ loaded' = AllStages
  <1>1. CASE NeedsInit
    BY <1>1 DEF InitSucceeds
  <1>2. CASE ~NeedsInit
    BY <1>2 DEF InitSucceeds, NeedsInit, Calculated, library
  <1>3. QED
    BY <1>1, <1>2

\* The query is what was collected, and that the whole request.
LEMMA QueryStep ==
  ASSUME BridgeTypeOK, ServedInv, pc = "send", sent = Len(request), InitSucceeds,
         query' = toC, ClearRequest, UNCHANGED request, pc' = "read"
  PROVE  Collected' /\ Calculated'
  <1>1. /\ Len(toC) = sent
        /\ \A i \in 1..sent : toC[i] = LowByte(request[i])
    BY DEF ServedInv, Collected
  <1>2. (isInited' => loaded' = AllStages) /\ loaded' = AllStages
    BY InitLoads DEF ServedInv
  <1>3. Collected'
    BY DEF Collected, ClearRequest
  <1>4. Calculated'
    BY <1>1, <1>2 DEF Calculated
  <1>5. QED
    BY <1>3, <1>4

\* One more letter of the error text is read, none of which is negative.
LEMMA ReadError ==
  ASSUME BridgeTypeOK, ErrorRead, GetLetter, failed
  PROVE  pc' = "read" /\ ErrorRead'
  <1>1. /\ pc = "read" /\ result = ErrorText /\ Len(answer) = resultIndex
        /\ \A i \in 1..resultIndex : answer[i] = ErrorText[i]
    BY DEF GetLetter, ErrorRead
  <1>2. /\ resultIndex \in Nat /\ resultIndex < Len(ErrorText) /\ Len(ErrorText) = 8
        /\ answer \in Seq(Bytes)
    BY <1>1 DEF GetLetter, LettersLeft, BridgeTypeOK, NativeType, DartType, ErrorText
  <1>3. PICK c \in 0..127 : c = ErrorText[resultIndex + 1]
    <2>1. \A i \in 1..8 : ErrorText[i] \in 0..127
      BY DEF ErrorText
    <2>2. resultIndex + 1 \in 1..8
      BY <1>2
    <2>3. QED
      BY <2>1, <2>2
  <1>4. AsInt(c) = c /\ c >= 0 /\ result[resultIndex + 1] = c
    <2>1. AsInt(c) = c /\ c >= 0
      BY DEF AsInt
    <2>2. result[resultIndex + 1] = c
      BY <1>1, <1>3
    <2>3. QED
      BY <2>1, <2>2
  <1>5. /\ answer' = Append(answer, ErrorText[resultIndex + 1]) /\ pc' = pc
        /\ resultIndex' = resultIndex + 1 /\ result' = result
    <2>1. AsInt(result[resultIndex + 1]) >= 0 /\ AsInt(result[resultIndex + 1]) = c
      BY <1>4
    <2>2. /\ answer' = Append(answer, AsInt(result[resultIndex + 1])) /\ pc' = pc
          /\ resultIndex' = resultIndex + 1 /\ result' = result
      BY <2>1 DEF GetLetter
    <2>3. QED
      BY <1>3, <2>1, <2>2
  <1>6. ErrorText[resultIndex + 1] \in Bytes
    BY <1>3 DEF Bytes
  <1>7. /\ Len(answer') = resultIndex + 1
        /\ \A i \in 1..resultIndex : answer'[i] = answer[i]
        /\ answer'[resultIndex + 1] = ErrorText[resultIndex + 1]
    BY <1>1, <1>2, <1>5, <1>6, AppendProperties
  <1>8. \A i \in 1..resultIndex' : answer'[i] = ErrorText[i]
    BY <1>1, <1>2, <1>5, <1>7
  <1>9. pc' = "read" /\ resultIndex' <= Len(ErrorText)
    BY <1>1, <1>2, <1>5
  <1>10. QED
    BY <1>1, <1>5, <1>7, <1>8, <1>9 DEF ErrorRead

\* And when the letters are at an end, it was read whole.
LEMMA ErrorAtEnd ==
  ASSUME BridgeTypeOK, ErrorRead, GetEnd, failed
  PROVE  answer = ErrorText
  <1>1. /\ result = ErrorText /\ Len(answer) = resultIndex /\ resultIndex <= Len(ErrorText)
        /\ \A i \in 1..resultIndex : answer[i] = ErrorText[i]
    BY DEF GetEnd, ErrorRead
  <1>2. /\ ~(resultIndex < resultLength) /\ resultLength = Len(result) /\ resultIndex \in Nat
        /\ answer \in Seq(Bytes) /\ ErrorText \in Seq(Bytes) /\ Len(ErrorText) = 8
    BY ErrorTextType DEF GetEnd, LettersLeft, BridgeTypeOK, NativeType, DartType, ErrorText
  <1>3. Len(answer) = Len(ErrorText) /\ \A i \in 1..Len(answer) : answer[i] = ErrorText[i]
    BY <1>1, <1>2
  <1>4. QED
    BY <1>2, <1>3, SeqEqual

\* It holds no NUL to end it early.
LEMMA NoNulInError ==
  ASSUME BridgeTypeOK, ErrorRead, GetNul
  PROVE  ~failed
  <1>1. SUFFICES ASSUME failed
                 PROVE  FALSE
    OBVIOUS
  <1>2. /\ result = ErrorText /\ resultIndex < resultLength /\ result[resultIndex + 1] = 0
        /\ resultLength = Len(result) /\ resultIndex \in Nat /\ Len(ErrorText) = 8
    BY <1>1 DEF GetNul, ErrorRead, LettersLeft, BridgeTypeOK, NativeType, ErrorText
  <1>3. resultIndex + 1 \in 1..8
    BY <1>2
  <1>4. \A i \in 1..8 : ErrorText[i] # 0
    BY DEF ErrorText
  <1>5. QED
    BY <1>2, <1>3, <1>4

\* Every step preserves the inductive invariant.
LEMMA ServedStep ==
  ASSUME BridgeTypeOK, SuffixInv, ServedInv, [BridgeNext]_bridge
  PROVE  ServedInv'
  <1>1. CASE \E text \in Requests : Compute(text)
    <2>1. /\ AtRest /\ pc' = "send" /\ sent' = 0 /\ toC' = toC /\ UNCHANGED library
      BY <1>1 DEF Compute, native
    <2>2. toC = <<>> /\ (isInited' => loaded' = AllStages)
      BY <2>1 DEF ServedInv, Collected, Calculated, AtRest, library
    <2>3. Collected'
      BY <2>1, <2>2 DEF Collected
    <2>4. Calculated' /\ ErrorRead'
      BY <2>1, <2>2 DEF Calculated, ErrorRead
    <2>5. QED
      BY <2>3, <2>4 DEF ServedInv
  <1>2. CASE PutLetter
    <2>1. Collected'
      BY <1>2, CollectLetter DEF ServedInv
    <2>2. Calculated' /\ ErrorRead'
      BY <1>2 DEF PutLetter, ServedInv, Calculated, ErrorRead, library
    <2>3. QED
      BY <2>1, <2>2 DEF ServedInv
  <1>3. CASE \E r \in Results : PutZeroPrints(r)
    <2>1. /\ pc = "send" /\ sent = Len(request) /\ InitSucceeds /\ query' = toC /\ ClearRequest
          /\ UNCHANGED request /\ pc' = "read" /\ failed' = FALSE
      BY <1>3 DEF PutZeroPrints
    <2>2. Collected' /\ Calculated'
      BY <2>1, QueryStep
    <2>3. ErrorRead'
      BY <2>1 DEF ErrorRead
    <2>4. QED
      BY <2>2, <2>3 DEF ServedInv
  <1>4. CASE PutZeroThrows
    <2>1. /\ pc = "send" /\ sent = Len(request) /\ UNCHANGED request /\ pc' = "read"
          /\ failed' = TRUE /\ toC' = <<>> /\ result' = ErrorText /\ resultIndex' = 0
          /\ answer' = answer
      BY <1>4 DEF PutZeroThrows, ClearRequest, Rewind
    <2>2. isInited' => loaded' = AllStages
      <3>1. CASE InitSucceeds
        BY <3>1, InitLoads DEF ServedInv
      <3>2. CASE InitThrows
        BY <3>2 DEF InitThrows, NeedsInit
      <3>3. QED
        BY <1>4, <3>1, <3>2 DEF PutZeroThrows
    <2>3. Collected' /\ Calculated'
      BY <2>1, <2>2 DEF Collected, Calculated
    <2>4. Len(answer) = 0 /\ Len(ErrorText) = 8
      BY <2>1 DEF SuffixInv, ErrorText
    <2>5. ErrorRead'
      BY <2>1, <2>4 DEF ErrorRead
    <2>6. QED
      BY <2>3, <2>5 DEF ServedInv
  <1>5. CASE GetLetter
    <2>1. /\ pc = "read" /\ pc' \in {"read", "idle"} /\ UNCHANGED <<toC, library, request, history>>
      BY <1>5 DEF GetLetter
    <2>2. Collected' /\ Calculated'
      BY <2>1 DEF ServedInv, Collected, Calculated, library, history
    <2>3. CASE failed
      BY <1>5, <2>2, <2>3, ReadError DEF ServedInv
    <2>4. CASE ~failed
      BY <2>1, <2>2, <2>4 DEF ServedInv, ErrorRead, history
    <2>5. QED
      BY <2>3, <2>4
  <1>6. CASE GetEnd \/ GetNul
    <2>1. /\ pc = "read" /\ pc' = "done"
          /\ UNCHANGED <<toC, library, request, sent, answer, history>>
      BY <1>6 DEF GetEnd, GetNul, native
    <2>2. Collected' /\ Calculated'
      BY <2>1 DEF ServedInv, Collected, Calculated, library, history
    <2>3. failed => answer = ErrorText
      BY <1>6, ErrorAtEnd, NoNulInError DEF ServedInv
    <2>4. ErrorRead'
      BY <2>1, <2>3 DEF ErrorRead, history
    <2>5. QED
      BY <2>2, <2>4 DEF ServedInv
  <1>7. CASE NativeAdd
    <2>1. /\ AtRest /\ UNCHANGED <<native, request, sent, answer, history>>
          /\ \/ InitSucceeds /\ pc' = pc
             \/ InitThrows /\ pc' = "crashed"
      BY <1>7 DEF NativeAdd
    <2>2. /\ isInited' => loaded' = AllStages
          /\ pc' # "crashed" => loaded' = AllStages
      <3>1. CASE InitSucceeds
        BY <3>1, InitLoads DEF ServedInv
      <3>2. CASE InitThrows /\ pc' = "crashed"
        BY <3>2 DEF InitThrows, NeedsInit
      <3>3. QED
        BY <2>1, <3>1, <3>2
    <2>3. Collected'
      BY <2>1 DEF ServedInv, Collected, AtRest, native
    <2>4. Calculated'
      BY <2>1, <2>2 DEF ServedInv, Calculated, history
    <2>5. ErrorRead'
      BY <2>1 DEF ServedInv, ErrorRead, AtRest, history
    <2>6. QED
      BY <2>3, <2>4, <2>5 DEF ServedInv
  <1>8. CASE UNCHANGED bridge
    BY <1>8 DEF bridge, native, library, dart, history, ServedInv, Collected, Calculated, ErrorRead
  <1>9. QED
    BY <1>1, <1>2, <1>3, <1>4, <1>5, <1>6, <1>7, <1>8 DEF BridgeNext, ComputeStep

\* For every sequence of requests, printed, failed or abandoned: the calculator
\* is asked for this request's text and nothing else, on loaded definitions,
\* and a failure is answered with the whole error text.
THEOREM Served == BridgeSpec => []RequestIsServed
  <1>1. BridgeInit => ServedInv
    <2> SUFFICES ASSUME BridgeInit
                 PROVE  ServedInv
      OBVIOUS
    <2>1. pc = "idle" /\ toC = <<>> /\ ~isInited
      BY DEF BridgeInit
    <2>2. QED
      BY <2>1 DEF ServedInv, Collected, Calculated, ErrorRead
  <1>2. ServedInv => RequestIsServed
    BY DEF ServedInv, Collected, Calculated, ErrorRead, RequestIsServed, AtRest
  <1>3. BridgeTypeOK /\ SuffixInv /\ ServedInv /\ [BridgeNext]_bridge => ServedInv'
    BY ServedStep
  <1>4. BridgeInit => SuffixInv
    BY DEF BridgeInit, SuffixInv, AnswerIsSuffix
  <1>5. BridgeTypeOK /\ SuffixInv /\ [BridgeNext]_bridge => SuffixInv'
    BY SuffixStep
  <1>6. QED
    BY <1>1, <1>2, <1>3, <1>4, <1>5, BridgeTyping, PTL DEF BridgeSpec

------------------------------------------------------------------------------
\* Which stages the commands have.
Staged ==
  /\ call.stage = "base" => call.command = "base"
  /\ call.stage \in {"evaluate", "print"} => call.command \in Commands
  /\ call.stage \in {"vector", "series"} => call.command = "plot"
  /\ call.stage = "print only" => call.command = "print"

\* Interval arithmetic is stopped by the call at work, and by those that threw.
Counted ==
  /\ i_stop_interval \in 0..throws + 1
  /\ call.stage # "vector" => i_stop_interval <= throws
  /\ call.stage = "vector" => i_stop_interval > 0

\* A call changes a setting only if it restores it, and then has it saved.
Saved ==
  throws = 0 =>
    /\ call.stage \in {"evaluate", "print"} =>
         /\ IF call.custom THEN call.base_save = wanted.base
            ELSE custom_output_base = wanted.base
         /\ call.save_bin = wanted.bin
    /\ ~(call.stage \in {"evaluate", "print"} /\ call.command = "base") =>
         custom_output_base = wanted.base
    /\ ~(call.stage \in {"evaluate", "print"}
           /\ call.command \in {"decimal prefixes", "binary prefixes"}) =>
         use_binary_prefixes = wanted.bin
    /\ call.stage = "base" => call.save_bin = wanted.bin

\* Whose the limit and the abort are.
Owned ==
  LET all_bases == call.stage = "print" /\ call.command = "bases"
  IN  /\ held => control.controlled
      /\ ~Idle /\ call.msecs > 0 /\ ~all_bases =>
           control.controlled /\ control.timeout = call.msecs
      /\ throws = 0 /\ ~held /\ (Idle \/ call.msecs = 0 \/ all_bases) => control.timeout = 0
      /\ control.controlled /\ control.aborted > 0 => asked
      /\ control.timeout > 0 /\ control.late => asked

IInv == TypeOK /\ Staged /\ Counted /\ Saved /\ Owned

------------------------------------------------------------------------------
(* The records *)

LEMMA LimitsType == Limits \subseteq Int /\ 0 \in Limits /\ Series \in Int /\ Series > 0 /\ MaxThrows \in Nat
                    /\ \A n \in Limits : n >= 0
  BY ControlAssumption

\* What the operators on control do to its members.
LEMMA ControlMembers ==
  ASSUME NEW c \in ControlType, NEW msecs \in Limits
  PROVE  /\ startControl(c, msecs) \in ControlType
         /\ startControl(c, msecs).controlled /\ startControl(c, msecs).aborted = 0
         /\ startControl(c, msecs).timeout = msecs /\ ~startControl(c, msecs).late
         /\ stopControl(c) \in ControlType
         /\ ~stopControl(c).controlled /\ stopControl(c).aborted = 0
         /\ stopControl(c).timeout = 0
         /\ Asked(c) \in ControlType
         /\ Asked(c).controlled = c.controlled /\ Asked(c).timeout = c.timeout
         /\ Asked(c).late = c.late
         /\ Asked(c).aborted = IF aborted(c) /\ c.aborted = 0 THEN 2 ELSE c.aborted
         /\ aborted(Asked(c)) = aborted(c)
<1>1. startControl(c, msecs) = [controlled |-> TRUE, aborted |-> 0, timeout |-> msecs, late |-> FALSE]
  BY DEF startControl
<1>2. stopControl(c) = [controlled |-> FALSE, aborted |-> 0, timeout |-> 0, late |-> c.late]
  BY DEF stopControl, ControlType
<1>3. /\ startControl(c, msecs) \in ControlType
      /\ startControl(c, msecs).controlled /\ startControl(c, msecs).aborted = 0
      /\ startControl(c, msecs).timeout = msecs /\ ~startControl(c, msecs).late
  BY <1>1 DEF ControlType
<1>4. stopControl(c) \in ControlType /\ ~stopControl(c).controlled
  BY <1>2, LimitsType DEF ControlType
<1>5. stopControl(c).aborted = 0 /\ stopControl(c).timeout = 0
  BY <1>2
<1>6. /\ Asked(c) \in ControlType
      /\ Asked(c).controlled = c.controlled /\ Asked(c).timeout = c.timeout
      /\ Asked(c).late = c.late
      /\ Asked(c).aborted = IF aborted(c) /\ c.aborted = 0 THEN 2 ELSE c.aborted
  BY DEF Asked, ControlType
<1>7. aborted(Asked(c)) = aborted(c)
  BY <1>6 DEF aborted, ControlType
<1> QED BY <1>3, <1>4, <1>5, <1>6, <1>7

\* The members of a call.
Members(c, stage, command, msecs, custom, base_save, save_bin, left) ==
  /\ c \in CallType
  /\ c.stage = stage /\ c.command = command /\ c.msecs = msecs
  /\ c.custom = custom /\ c.base_save = base_save /\ c.save_bin = save_bin
  /\ c.left = left

\* No call.
LEMMA Nobody == Members(NoCall, "none", "none", 0, FALSE, 0, 0, 0)
  BY LimitsType DEF Members, CallType, NoCall, Stages, Commands

\* A call that begins with no more than its stage, command and limit.
LEMMA NewCall ==
  ASSUME NEW msecs \in Limits
  PROVE  /\ Members([NoCall EXCEPT !.stage = "print only", !.command = "print", !.msecs = msecs],
                    "print only", "print", msecs, FALSE, 0, 0, 0)
         /\ Members([NoCall EXCEPT !.stage = "vector", !.command = "plot", !.msecs = msecs],
                    "vector", "plot", msecs, FALSE, 0, 0, 0)
<1>1. NoCall \in CallType
  BY Nobody DEF Members
<1>2. Members([NoCall EXCEPT !.stage = "print only", !.command = "print", !.msecs = msecs],
              "print only", "print", msecs, FALSE, 0, 0, 0)
  BY Nobody, <1>1 DEF Members, CallType, Stages
<1>3. Members([NoCall EXCEPT !.stage = "vector", !.command = "plot", !.msecs = msecs],
              "vector", "plot", msecs, FALSE, 0, 0, 0)
  BY Nobody, <1>1 DEF Members, CallType, Stages
<1> QED BY <1>2, <1>3

\* Or the number of its series.
LEMMA NewSeries ==
  ASSUME NEW msecs \in Limits, NEW n \in 1..Series
  PROVE  Members([NoCall EXCEPT !.stage = "series", !.command = "plot", !.msecs = msecs,
                                !.left = n - 1],
                 "series", "plot", msecs, FALSE, 0, 0, n - 1)
<1>1. NoCall \in CallType /\ n - 1 \in 0..Series + 3
  BY Nobody, LimitsType DEF Members
<1> QED BY Nobody, <1>1 DEF Members, CallType, Stages

------------------------------------------------------------------------------
(* The steps *)

\* The client starts and ends control and sets what it likes, between calls.
LEMMA ClientStep ==
  ASSUME IInv, StartControl \/ StopControl \/ setCustomOutputBase \/ useBinaryPrefixes
  PROVE  IInv'
<1> USE DEF IInv
<1>1. CASE StartControl
  <2>1. PICK msecs \in Limits : control' = startControl(control, msecs)
    BY <1>1 DEF StartControl
  <2>2. /\ control' \in ControlType /\ control'.controlled /\ control'.aborted = 0
        /\ control'.timeout = msecs /\ ~control'.late
    BY <2>1, ControlMembers DEF TypeOK
  <2>3. /\ Idle /\ held' /\ ~asked' /\ held' \in BOOLEAN /\ asked' \in BOOLEAN
        /\ UNCHANGED <<settings, call, wanted, throws>>
    BY <1>1 DEF StartControl
  <2>4. TypeOK'
    BY <2>2, <2>3 DEF TypeOK, settings, ControlType
  <2>5. Staged' /\ Counted' /\ Saved'
    BY <2>3 DEF Staged, Counted, Saved, settings
  <2>6. Owned'
    BY <2>2, <2>3 DEF Owned, Idle
  <2> QED BY <2>4, <2>5, <2>6
<1>2. CASE StopControl
  <2>1. /\ control' \in ControlType /\ ~control'.controlled /\ control'.timeout = 0
    BY <1>2, ControlMembers, LimitsType DEF TypeOK, StopControl
  <2>2. /\ Idle /\ ~held' /\ held' \in BOOLEAN /\ UNCHANGED <<settings, call, wanted, throws, asked>>
    BY <1>2 DEF StopControl
  <2>3. TypeOK'
    BY <2>1, <2>2 DEF TypeOK, settings, ControlType
  <2>4. Staged' /\ Counted' /\ Saved'
    BY <2>2 DEF Staged, Counted, Saved, settings
  <2>5. Owned'
    BY <2>1, <2>2 DEF Owned, Idle
  <2> QED BY <2>3, <2>4, <2>5
<1>3. CASE setCustomOutputBase
  <2>1. PICK b \in Bases : /\ custom_output_base' = b /\ wanted' = [wanted EXCEPT !.base = b]
                           /\ Idle /\ UNCHANGED <<control, use_binary_prefixes, i_stop_interval,
                                                  call, held, throws, asked>>
    BY <1>3 DEF setCustomOutputBase
  <2>2. wanted' \in [base : Bases \cup {0}, bin : 0..2] /\ wanted'.base = b /\ wanted'.bin = wanted.bin
    BY <2>1 DEF TypeOK
  <2>3. TypeOK'
    BY <2>1, <2>2 DEF TypeOK
  <2>4. Staged' /\ Counted' /\ Owned'
    BY <2>1 DEF Staged, Counted, Owned, Idle
  <2>5. Saved'
    BY <2>1, <2>2 DEF Saved, Idle
  <2> QED BY <2>3, <2>4, <2>5
<1>4. CASE useBinaryPrefixes
  <2>1. PICK n \in 0..2 : /\ use_binary_prefixes' = n /\ wanted' = [wanted EXCEPT !.bin = n]
                          /\ Idle /\ UNCHANGED <<control, custom_output_base, i_stop_interval,
                                                 call, held, throws, asked>>
    BY <1>4 DEF useBinaryPrefixes
  <2>2. wanted' \in [base : Bases \cup {0}, bin : 0..2] /\ wanted'.bin = n /\ wanted'.base = wanted.base
    BY <2>1 DEF TypeOK
  <2>3. TypeOK'
    BY <2>1, <2>2 DEF TypeOK
  <2>4. Staged' /\ Counted' /\ Owned'
    BY <2>1 DEF Staged, Counted, Owned, Idle
  <2>5. Saved'
    BY <2>1, <2>2 DEF Saved, Idle
  <2> QED BY <2>3, <2>4, <2>5
<1> QED BY <1>1, <1>2, <1>3, <1>4

\* An abort and the end of time are noted, and an exception ends the call.
LEMMA OutsideStep ==
  ASSUME IInv, Abort \/ TimeOut \/ Throw
  PROVE  IInv'
<1> USE DEF IInv
<1>1. CASE Abort \/ TimeOut
  <2>1. /\ control' \in ControlType /\ control'.controlled = control.controlled
        /\ control'.timeout = control.timeout
    <3>1. CASE Abort
      BY <3>1 DEF Abort, TypeOK, ControlType
    <3>2. CASE TimeOut
      <4>1. control' = [control EXCEPT !.late = TRUE]
        BY <3>2 DEF TimeOut
      <4>2. control' \in ControlType
        BY <4>1 DEF TypeOK, ControlType
      <4>3. control'.controlled = control.controlled /\ control'.timeout = control.timeout
        BY <4>1 DEF TypeOK, ControlType
      <4> QED BY <4>2, <4>3
    <3> QED BY <1>1, <3>1, <3>2
  <2>2. asked' /\ asked' \in BOOLEAN /\ UNCHANGED <<settings, call, wanted, held, throws>>
    BY <1>1 DEF Abort, TimeOut
  <2>3. TypeOK'
    BY <2>1, <2>2 DEF TypeOK, settings, ControlType
  <2>4. Staged' /\ Counted' /\ Saved'
    BY <2>2 DEF Staged, Counted, Saved, settings
  <2>5. Owned'
    BY <2>1, <2>2 DEF Owned, Idle
  <2> QED BY <2>3, <2>4, <2>5
<1>2. CASE Throw
  <2>1. /\ call' = NoCall /\ throws' = throws + 1 /\ throws < MaxThrows
        /\ UNCHANGED <<control, settings, wanted, held, asked>>
    BY <1>2 DEF Throw
  <2>2. call'.stage = "none" /\ call' \in CallType
    BY <2>1, Nobody DEF Members
  <2>3. TypeOK'
    BY <2>1, <2>2, LimitsType DEF TypeOK, settings, Counted
  <2>4. throws \in Nat /\ throws' # 0
    BY <2>1, LimitsType DEF TypeOK
  <2>5. Staged'
    BY <2>2 DEF Staged
  <2>6. Counted'
    BY <2>1, <2>2, <2>4 DEF Counted, settings
  <2>7. Saved' /\ Owned'
    BY <2>1, <2>2, <2>4 DEF Saved, Owned, Idle
  <2> QED BY <2>3, <2>5, <2>6, <2>7
<1> QED BY <1>1, <1>2

\* What a call that begins changes of control: all, if it starts it, or nothing.
LEMMA BeginStep ==
  ASSUME IInv, NEW started \in BOOLEAN, NEW next \in CallType, Begin(started, next),
         next.stage # "none", next.msecs > 0 => started,
         ~(next.stage = "print" /\ next.command = "bases")
  PROVE  /\ Owned' /\ Idle /\ call' = next /\ UNCHANGED <<wanted, throws>>
         /\ control' \in ControlType /\ held' \in BOOLEAN /\ asked' \in BOOLEAN
<1>1. /\ Idle /\ call' = next /\ UNCHANGED <<wanted, throws>>
      /\ asked' = (asked /\ ~started) /\ held' = (held /\ ~started)
      /\ control' = IF started THEN startControl(control, next.msecs) ELSE control
  BY DEF Begin
<1>2. control \in ControlType /\ Owned /\ next.msecs \in Limits
  BY DEF IInv, TypeOK, CallType
<1>3. held' \in BOOLEAN /\ asked' \in BOOLEAN
  BY <1>1
<1>4. CASE started
  <2>1. /\ control' \in ControlType /\ control'.controlled /\ control'.aborted = 0
        /\ control'.timeout = next.msecs /\ ~control'.late
    BY <1>1, <1>2, <1>4, ControlMembers
  <2>2. ~held' /\ ~asked'
    BY <1>1, <1>4
  <2>3. next.msecs \in Int /\ next.msecs >= 0
    BY <1>2, LimitsType
  <2>4. Owned'
    BY <1>1, <2>1, <2>2, <2>3 DEF Owned, Idle
  <2> QED BY <1>1, <1>3, <2>1, <2>4
<1>5. CASE ~started
  <2>1. control' = control /\ held' = held /\ asked' = asked /\ ~(next.msecs > 0)
    BY <1>1, <1>5 DEF IInv, TypeOK
  <2>2. Owned'
    BY <1>1, <1>2, <2>1 DEF Owned, Idle
  <2> QED BY <1>1, <1>2, <1>3, <2>1, <2>2
<1> QED BY <1>4, <1>5

\* Every call begins with the client's settings.
LEMMA CallBegins ==
  ASSUME IInv, CalculateAndPrint \/ print \/ ExpressionToPlotVector \/ PlotVectors
  PROVE  IInv'
<1> USE DEF IInv
<1>1. CASE CalculateAndPrint
  <2>1. PICK command \in Commands, msecs \in Limits, custom \in BOOLEAN :
          /\ Begin(msecs > 0,
               [stage |-> IF command = "base" THEN "base" ELSE "evaluate",
                command |-> command, msecs |-> msecs, custom |-> custom,
                base_save |-> IF custom THEN custom_output_base ELSE 0,
                save_bin |-> use_binary_prefixes, left |-> 0])
          /\ use_binary_prefixes' = IF command = "decimal prefixes" THEN 0 ELSE use_binary_prefixes
          /\ UNCHANGED <<custom_output_base, i_stop_interval>>
    BY <1>1 DEF CalculateAndPrint
  <2>2. PICK stage : stage = IF command = "base" THEN "base" ELSE "evaluate"
    OBVIOUS
  <2>3. PICK base : base = IF custom THEN custom_output_base ELSE 0
    OBVIOUS
  <2>4. PICK next : next = [stage |-> stage, command |-> command, msecs |-> msecs,
                            custom |-> custom, base_save |-> base,
                            save_bin |-> use_binary_prefixes, left |-> 0]
    OBVIOUS
  <2>5. Members(next, stage, command, msecs, custom, base, use_binary_prefixes, 0)
    <3>1. /\ stage \in Stages /\ base \in Bases \cup {0} /\ 0 \in 0..Series + 3
          /\ use_binary_prefixes \in 0..2 /\ command \in Commands \cup {"print", "plot"}
      BY <2>2, <2>3, LimitsType DEF TypeOK, Stages
    <3>2. next \in CallType
      BY <2>4, <3>1 DEF CallType
    <3> QED BY <2>4, <3>2 DEF Members
  <2>6. Begin(msecs > 0, next)
    BY <2>1, <2>2, <2>3, <2>4
  <2>7. /\ Owned' /\ Idle /\ call' = next /\ UNCHANGED <<wanted, throws>>
        /\ control' \in ControlType /\ held' \in BOOLEAN /\ asked' \in BOOLEAN
    <3>1. next \in CallType /\ next.stage # "none" /\ (next.msecs > 0 => (msecs > 0))
          /\ ~(next.stage = "print" /\ next.command = "bases") /\ (msecs > 0) \in BOOLEAN
      BY <2>2, <2>5, <2>6 DEF Members
    <3>2. Begin((msecs > 0), next)
      BY <2>2, <2>5, <2>6
    <3> QED BY <3>1, <3>2, BeginStep
  <2>8. TypeOK'
    <3>1. use_binary_prefixes' \in 0..2
      <4>1. use_binary_prefixes \in 0..2
        BY DEF TypeOK
      <4>2. use_binary_prefixes' = 0 \/ use_binary_prefixes' = use_binary_prefixes
        BY <2>1
      <4> QED BY <4>1, <4>2
    <3>2. call' \in CallType
      BY <2>5, <2>7 DEF Members
    <3> QED BY <2>1, <2>7, <3>1, <3>2 DEF TypeOK
  <2>9. Staged' /\ Counted'
    BY <2>1, <2>2, <2>5, <2>7 DEF Staged, Counted, Members, Idle
  <2>10. Saved'
    BY <2>1, <2>2, <2>3, <2>5, <2>7 DEF Saved, Members, Idle, TypeOK
  <2> QED BY <2>7, <2>8, <2>9, <2>10
<1>2. CASE print
  <2>1. PICK msecs \in Limits :
          /\ Begin(TRUE, [NoCall EXCEPT !.stage = "print only", !.command = "print", !.msecs = msecs])
          /\ UNCHANGED settings
    BY <1>2 DEF print
  <2>2. PICK next : /\ next = [NoCall EXCEPT !.stage = "print only", !.command = "print",
                                            !.msecs = msecs]
                    /\ Members(next, "print only", "print", msecs, FALSE, 0, 0, 0)
    BY NewCall
  <2>3. /\ Owned' /\ Idle /\ call' = next /\ UNCHANGED <<wanted, throws>>
        /\ control' \in ControlType /\ held' \in BOOLEAN /\ asked' \in BOOLEAN
    BY <2>1, <2>2, BeginStep DEF Members
  <2>4. TypeOK'
    BY <2>1, <2>2, <2>3 DEF TypeOK, Members, settings
  <2>5. Staged' /\ Counted'
    BY <2>1, <2>2, <2>3 DEF Staged, Counted, Members, Idle, settings
  <2>6. Saved'
    BY <2>1, <2>2, <2>3 DEF Saved, Members, Idle, settings
  <2> QED BY <2>3, <2>4, <2>5, <2>6
<1>3. CASE ExpressionToPlotVector
  <2>1. PICK msecs \in Limits :
          /\ Begin(msecs > 0, [NoCall EXCEPT !.stage = "vector", !.command = "plot", !.msecs = msecs])
          /\ i_stop_interval' = i_stop_interval + 1
          /\ UNCHANGED <<custom_output_base, use_binary_prefixes>>
    BY <1>3 DEF ExpressionToPlotVector
  <2>2. PICK next : /\ next = [NoCall EXCEPT !.stage = "vector", !.command = "plot", !.msecs = msecs]
                    /\ Members(next, "vector", "plot", msecs, FALSE, 0, 0, 0)
    BY NewCall
  <2>3. /\ Owned' /\ Idle /\ call' = next /\ UNCHANGED <<wanted, throws>>
        /\ control' \in ControlType /\ held' \in BOOLEAN /\ asked' \in BOOLEAN
    <3>1. next \in CallType /\ next.stage # "none" /\ (next.msecs > 0 => (msecs > 0))
          /\ ~(next.stage = "print" /\ next.command = "bases") /\ (msecs > 0) \in BOOLEAN
      BY <2>1, <2>2 DEF Members
    <3>2. Begin((msecs > 0), next)
      BY <2>1, <2>2
    <3> QED BY <3>1, <3>2, BeginStep
  <2>4. /\ i_stop_interval \in 0..throws /\ throws \in 0..MaxThrows
    BY <2>3, LimitsType DEF Counted, Idle, TypeOK
  <2>5. TypeOK'
    BY <2>1, <2>2, <2>3, <2>4, LimitsType DEF TypeOK, Members
  <2>6. Staged' /\ Counted'
    <3>1. Staged'
      BY <2>2, <2>3 DEF Staged, Members
    <3>2. call'.stage = "vector" /\ throws \in Nat /\ throws' = throws
      BY <2>2, <2>3, <2>4, LimitsType DEF Members
    <3>3. i_stop_interval' \in 0..throws' + 1 /\ i_stop_interval' > 0
      BY <2>1, <2>4, <3>2
    <3> QED BY <3>1, <3>2, <3>3 DEF Counted
  <2>7. Saved'
    BY <2>1, <2>2, <2>3 DEF Saved, Members, Idle
  <2> QED BY <2>3, <2>5, <2>6, <2>7
<1>4. CASE PlotVectors
  <2>1. PICK msecs \in Limits, n \in 1..Series :
          /\ Begin(msecs > 0, [NoCall EXCEPT !.stage = "series", !.command = "plot",
                                             !.msecs = msecs, !.left = n - 1])
          /\ UNCHANGED settings
    BY <1>4 DEF PlotVectors
  <2>2. PICK next : /\ next = [NoCall EXCEPT !.stage = "series", !.command = "plot",
                                            !.msecs = msecs, !.left = n - 1]
                    /\ Members(next, "series", "plot", msecs, FALSE, 0, 0, n - 1)
    BY NewSeries
  <2>3. /\ Owned' /\ Idle /\ call' = next /\ UNCHANGED <<wanted, throws>>
        /\ control' \in ControlType /\ held' \in BOOLEAN /\ asked' \in BOOLEAN
    <3>1. next \in CallType /\ next.stage # "none" /\ (next.msecs > 0 => (msecs > 0))
          /\ ~(next.stage = "print" /\ next.command = "bases") /\ (msecs > 0) \in BOOLEAN
      BY <2>1, <2>2 DEF Members
    <3>2. Begin((msecs > 0), next)
      BY <2>1, <2>2
    <3> QED BY <3>1, <3>2, BeginStep
  <2>4. TypeOK'
    BY <2>1, <2>2, <2>3 DEF TypeOK, Members, settings
  <2>5. Staged' /\ Counted'
    BY <2>1, <2>2, <2>3 DEF Staged, Counted, Members, Idle, settings
  <2>6. Saved'
    BY <2>1, <2>2, <2>3 DEF Saved, Members, Idle, settings
  <2> QED BY <2>3, <2>4, <2>5, <2>6
<1> QED BY <1>1, <1>2, <1>3, <1>4

\* The control that the end of a stage works with: as it is, or just asked.
Seen(c) ==
  /\ c \in ControlType
  /\ c.controlled = control.controlled /\ c.timeout = control.timeout /\ c.late = control.late
  /\ c.controlled /\ c.aborted > 0 => asked

\* Asking aborted() sets nothing that was not asked for.
LEMMA AskedSeen ==
  ASSUME IInv
  PROVE  Seen(control) /\ (aborted(control) => Seen(Asked(control)))
<1>1. control \in ControlType /\ Owned /\ 0 \in Limits
  BY LimitsType DEF IInv, TypeOK
<1>2. Seen(control)
  BY <1>1 DEF Seen, Owned
<1>3. ASSUME aborted(control) PROVE Seen(Asked(control))
  <2>1. /\ Asked(control) \in ControlType
        /\ Asked(control).controlled = control.controlled
        /\ Asked(control).timeout = control.timeout /\ Asked(control).late = control.late
    BY <1>1, ControlMembers
  <2>2. asked
    BY <1>1, <1>3 DEF aborted, Owned
  <2> QED BY <2>1, <2>2 DEF Seen
<1> QED BY <1>2, <1>3

\* A call that goes on under the same control keeps its own.
LEMMA ContinueStep ==
  ASSUME IInv, ~Idle, NEW c, Seen(c), NEW next, Continue(c, next), next.stage # "none",
         next.msecs = call.msecs,
         ~(call.stage = "print" /\ call.command = "bases"),
         ~(next.stage = "print" /\ next.command = "bases")
  PROVE  /\ Owned' /\ control' \in ControlType /\ call' = next
         /\ UNCHANGED <<wanted, held, throws, asked>>
<1>1. /\ control' = c /\ call' = next /\ UNCHANGED <<wanted, held, throws, asked>>
  BY DEF Continue
<1>2. Owned
  BY DEF IInv
<1>3. Owned'
  BY <1>1, <1>2 DEF Owned, Seen, Idle
<1> QED BY <1>1, <1>3 DEF Seen

\* A call that starts control again has nobody's limit but its own.
LEMMA AgainStep ==
  ASSUME IInv, NEW next \in CallType, NEW msecs \in Limits, Again(next, msecs), next.stage # "none",
         (next.stage = "print" /\ next.command = "bases") \/ msecs = next.msecs,
         (next.stage = "print" /\ next.command = "bases") => msecs = 0
  PROVE  /\ Owned' /\ control' \in ControlType /\ call' = next
         /\ held' \in BOOLEAN /\ asked' \in BOOLEAN /\ UNCHANGED <<wanted, throws>>
<1>1. /\ control' = startControl(control, msecs) /\ call' = next /\ ~held' /\ ~asked'
      /\ held' \in BOOLEAN /\ asked' \in BOOLEAN /\ UNCHANGED <<wanted, throws>>
  BY DEF Again
<1>2. control \in ControlType /\ next.msecs \in Int /\ next.msecs >= 0
  BY LimitsType DEF IInv, TypeOK, CallType
<1>3. /\ control' \in ControlType /\ control'.controlled /\ control'.aborted = 0
      /\ control'.timeout = msecs /\ ~control'.late
  BY <1>1, <1>2, ControlMembers
<1>4. Owned'
  BY <1>1, <1>2, <1>3 DEF Owned, Idle
<1> QED BY <1>1, <1>3, <1>4

\* A call that returns leaves no limit but the client's.
LEMMA ReturnStep ==
  ASSUME IInv, ~Idle, NEW c, Seen(c), NEW d, Return(d),
         d = stopControl(c) \/ (d = c /\ ~(call.msecs > 0))
  PROVE  /\ Owned' /\ control' \in ControlType /\ Members(call', "none", "none", 0, FALSE, 0, 0, 0)
         /\ held' \in BOOLEAN /\ UNCHANGED <<wanted, throws, asked>>
<1>1. /\ control' = d /\ call' = NoCall /\ held' = (held /\ d.controlled)
      /\ UNCHANGED <<wanted, throws, asked>>
  BY DEF Return
<1>2. Members(call', "none", "none", 0, FALSE, 0, 0, 0)
  BY <1>1, Nobody
<1>3. call.msecs \in Int /\ call.msecs >= 0 /\ held \in BOOLEAN /\ Owned
  BY LimitsType DEF IInv, TypeOK, CallType
<1>4. held' \in BOOLEAN
  BY <1>1
<1>5. CASE d = stopControl(c)
  <2>1. /\ control' \in ControlType /\ ~control'.controlled /\ control'.timeout = 0
    BY <1>1, <1>5, ControlMembers, LimitsType DEF Seen
  <2>2. ~held'
    BY <1>1, <2>1
  <2>3. Owned'
    BY <1>1, <1>2, <2>1, <2>2 DEF Owned, Idle, Members
  <2> QED BY <1>1, <1>2, <1>4, <2>1, <2>3
<1>6. CASE d = c /\ ~(call.msecs > 0)
  <2>1. control' \in ControlType /\ control' = c
    BY <1>1, <1>6 DEF Seen
  <2>2. call.msecs = 0
    BY <1>3, <1>6
  <2>3. held' => held /\ control'.controlled
    BY <1>1, <1>6
  <2>4. ~held' => ~held
    BY <1>1, <1>3, <1>6 DEF Owned, Seen
  <2>5. Owned'
    BY <1>1, <1>2, <1>3, <2>1, <2>2, <2>3, <2>4 DEF Owned, Idle, Members, Seen
  <2> QED BY <1>1, <1>2, <1>4, <2>1, <2>5
<1> QED BY <1>5, <1>6

\* A call that returns has restored what it changed, or changed nothing.
LEMMA Returned ==
  ASSUME IInv, Members(call', "none", "none", 0, FALSE, 0, 0, 0), UNCHANGED <<wanted, throws>>,
         custom_output_base' \in Bases \cup {0}, use_binary_prefixes' \in 0..2,
         throws = 0 => custom_output_base' = wanted.base /\ use_binary_prefixes' = wanted.bin,
         i_stop_interval' \in 0..throws,
         Owned', control' \in ControlType, held' \in BOOLEAN, UNCHANGED asked
  PROVE  IInv'
<1>1. call'.stage = "none" /\ call' \in CallType
  BY DEF Members
<1>2. throws \in 0..MaxThrows /\ throws \in Nat /\ asked \in BOOLEAN
      /\ wanted \in [base : Bases \cup {0}, bin : 0..2]
  BY LimitsType DEF IInv, TypeOK
<1>3. i_stop_interval' \in 0..MaxThrows + 1 /\ i_stop_interval' \in 0..throws' + 1
      /\ i_stop_interval' <= throws'
  BY <1>2, LimitsType
<1>4. TypeOK'
  BY <1>1, <1>2, <1>3 DEF TypeOK
<1>5. Staged' /\ Counted'
  BY <1>1, <1>3 DEF Staged, Counted
<1>6. Saved'
  BY <1>1 DEF Saved
<1> QED BY <1>4, <1>5, <1>6 DEF IInv

\* A stage ends: the call goes on to the next or returns.
LEMMA EndStep ==
  ASSUME IInv, NEW c, Seen(c), Ends(c)
  PROVE  IInv'
<1> DEFINE returns == /\ Owned' /\ control' \in ControlType
                      /\ Members(call', "none", "none", 0, FALSE, 0, 0, 0)
                      /\ held' \in BOOLEAN /\ UNCHANGED <<wanted, throws, asked>>
<1>1. /\ call \in CallType /\ Staged /\ Counted /\ Saved
      /\ custom_output_base \in Bases \cup {0} /\ use_binary_prefixes \in 0..2
      /\ call.base_save \in Bases \cup {0} /\ call.save_bin \in 0..2
      /\ throws \in Nat /\ held \in BOOLEAN /\ asked \in BOOLEAN
  BY LimitsType DEF IInv, TypeOK, CallType
<1>2. CASE BaseEnds(c)
  <2>1. call.stage = "base" /\ ~Idle
    BY <1>2 DEF BaseEnds, Idle
  <2>2. CASE /\ Continue(c, [call EXCEPT !.stage = "evaluate", !.custom = FALSE])
             /\ UNCHANGED settings
    <3>1. PICK next : /\ next = [call EXCEPT !.stage = "evaluate", !.custom = FALSE]
                      /\ Members(next, "evaluate", call.command, call.msecs, FALSE,
                                 call.base_save, call.save_bin, call.left)
      <4>1. Members([call EXCEPT !.stage = "evaluate", !.custom = FALSE],
                    "evaluate", call.command, call.msecs, FALSE,
                    call.base_save, call.save_bin, call.left)
        BY <1>1 DEF Members, CallType, Stages
      <4> QED BY <4>1
    <3>2. /\ Owned' /\ control' \in ControlType /\ call' = next
          /\ UNCHANGED <<wanted, held, throws, asked>>
      BY <2>1, <2>2, <3>1, ContinueStep DEF Members
    <3>3. TypeOK'
      BY <2>2, <3>1, <3>2 DEF IInv, TypeOK, settings, Members
    <3>4. Staged' /\ Counted'
      BY <1>1, <2>1, <2>2, <3>1, <3>2 DEF Staged, Counted, settings, Members, Commands
    <3>5. Saved'
      BY <1>1, <2>1, <2>2, <3>1, <3>2 DEF Saved, Staged, settings, Members
    <3> QED BY <3>2, <3>3, <3>4, <3>5 DEF IInv
  <2>3. CASE \E b \in Bases :
               /\ Continue(c, [call EXCEPT !.stage = "evaluate", !.custom = TRUE,
                                           !.base_save = BaseSaved(b)])
               /\ custom_output_base' = b
               /\ UNCHANGED <<use_binary_prefixes, i_stop_interval>>
    <3>1. PICK b \in Bases :
               /\ Continue(c, [call EXCEPT !.stage = "evaluate", !.custom = TRUE,
                                           !.base_save = custom_output_base])
               /\ custom_output_base' = b
               /\ UNCHANGED <<use_binary_prefixes, i_stop_interval>>
      BY <2>3 DEF BaseSaved
    <3>2. PICK next : /\ next = [call EXCEPT !.stage = "evaluate", !.custom = TRUE,
                                            !.base_save = custom_output_base]
                      /\ Members(next, "evaluate", call.command, call.msecs, TRUE,
                                 custom_output_base, call.save_bin, call.left)
      <4>1. Members([call EXCEPT !.stage = "evaluate", !.custom = TRUE,
                                 !.base_save = custom_output_base],
                    "evaluate", call.command, call.msecs, TRUE,
                    custom_output_base, call.save_bin, call.left)
        BY <1>1 DEF Members, CallType, Stages
      <4> QED BY <4>1
    <3>3. /\ Owned' /\ control' \in ControlType /\ call' = next
          /\ UNCHANGED <<wanted, held, throws, asked>>
      BY <2>1, <3>1, <3>2, ContinueStep DEF Members
    <3>4. TypeOK'
      BY <3>1, <3>2, <3>3 DEF IInv, TypeOK, Members
    <3>5. Staged' /\ Counted'
      BY <1>1, <2>1, <3>1, <3>2, <3>3 DEF Staged, Counted, Members, Commands
    <3>6. Saved'
      BY <1>1, <2>1, <3>1, <3>2, <3>3 DEF Saved, Staged, Members
    <3> QED BY <3>3, <3>4, <3>5, <3>6 DEF IInv
  <2> QED BY <1>2, <2>2, <2>3 DEF BaseEnds
<1>3. CASE CalendarsPrinted(c)
  <2>1. /\ call.stage = "evaluate" /\ call.command = "calendars" /\ ~Idle
        /\ Return(stopControl(c)) /\ UNCHANGED settings
    BY <1>3 DEF CalendarsPrinted, Idle
  <2>2. returns
    BY <2>1, ReturnStep
  <2>3. throws = 0 => custom_output_base' = wanted.base /\ use_binary_prefixes' = wanted.bin
    BY <1>1, <2>1 DEF Saved, settings
  <2>4. i_stop_interval' \in 0..throws
    BY <1>1, <2>1 DEF Counted, settings
  <2> QED BY <1>1, <2>1, <2>2, <2>3, <2>4, Returned DEF settings
<1>4. CASE EvaluateEnds(c)
  <2>1. call.stage = "evaluate" /\ ~Idle /\ call.command \in Commands
    BY <1>1, <1>4 DEF EvaluateEnds, Idle, Staged
  <2>2. CASE call.command = "bases"
    <3>1. Again([call EXCEPT !.stage = "print", !.left = 3], 0) /\ UNCHANGED settings
      BY <1>4, <2>2 DEF EvaluateEnds
    <3>2. PICK next : /\ next = [call EXCEPT !.stage = "print", !.left = 3]
                      /\ Members(next, "print", call.command, call.msecs, call.custom,
                                 call.base_save, call.save_bin, 3)
      <4>1. 3 \in 0..Series + 3
        BY LimitsType
      <4>2. Members([call EXCEPT !.stage = "print", !.left = 3],
                    "print", call.command, call.msecs, call.custom,
                    call.base_save, call.save_bin, 3)
        BY <1>1, <4>1 DEF Members, CallType, Stages
      <4> QED BY <4>2
    <3>3. /\ Owned' /\ control' \in ControlType /\ call' = next
          /\ held' \in BOOLEAN /\ asked' \in BOOLEAN /\ UNCHANGED <<wanted, throws>>
      BY <2>2, <3>1, <3>2, AgainStep, LimitsType DEF Members
    <3>4. TypeOK'
      BY <3>1, <3>2, <3>3 DEF IInv, TypeOK, settings, Members
    <3>5. Staged' /\ Counted'
      BY <1>1, <2>1, <3>1, <3>2, <3>3 DEF Staged, Counted, settings, Members
    <3>6. Saved'
      BY <1>1, <2>1, <3>1, <3>2, <3>3 DEF Saved, settings, Members
    <3> QED BY <3>3, <3>4, <3>5, <3>6 DEF IInv
  <2>3. CASE call.command # "bases"
    <3>1. /\ Continue(c, [call EXCEPT !.stage = "print"])
          /\ UNCHANGED <<custom_output_base, i_stop_interval>>
          /\ IF call.command = "binary prefixes" THEN use_binary_prefixes' \in {1, 2}
             ELSE UNCHANGED use_binary_prefixes
      BY <1>4, <2>3 DEF EvaluateEnds, ToPrint, settings
    <3>2. PICK next : /\ next = [call EXCEPT !.stage = "print"]
                      /\ Members(next, "print", call.command, call.msecs, call.custom,
                                 call.base_save, call.save_bin, call.left)
      <4>1. Members([call EXCEPT !.stage = "print"],
                    "print", call.command, call.msecs, call.custom,
                    call.base_save, call.save_bin, call.left)
        BY <1>1 DEF Members, CallType, Stages
      <4> QED BY <4>1
    <3>3. /\ Owned' /\ control' \in ControlType /\ call' = next
          /\ UNCHANGED <<wanted, held, throws, asked>>
      BY <2>1, <2>3, <3>1, <3>2, ContinueStep DEF Members
    <3>4. use_binary_prefixes' \in 0..2
      <4>1. use_binary_prefixes' \in {1, 2} \/ use_binary_prefixes' = use_binary_prefixes
        BY <3>1
      <4> QED BY <1>1, <4>1
    <3>5. TypeOK'
      BY <3>1, <3>2, <3>3, <3>4 DEF IInv, TypeOK, Members
    <3>6. Staged' /\ Counted'
      BY <1>1, <2>1, <3>1, <3>2, <3>3 DEF Staged, Counted, Members
    <3>7. Saved'
      BY <1>1, <2>1, <3>1, <3>2, <3>3 DEF Saved, Members
    <3> QED BY <3>3, <3>5, <3>6, <3>7 DEF IInv
  <2> QED BY <2>2, <2>3
<1>5. CASE PrintBaseEnds(c)
  <2>1. /\ call.stage = "print" /\ call.command = "bases" /\ UNCHANGED settings /\ ~Idle
    BY <1>5 DEF PrintBaseEnds, Idle
  <2>2. CASE call.left > 0
    <3>1. Again([call EXCEPT !.left = call.left - 1], 0)
      BY <1>5, <2>2 DEF PrintBaseEnds
    <3>2. PICK next : /\ next = [call EXCEPT !.left = call.left - 1]
                      /\ Members(next, "print", "bases", call.msecs, call.custom,
                                 call.base_save, call.save_bin, call.left - 1)
      <4>1. call.left - 1 \in 0..Series + 3
        BY <1>1, <2>2, LimitsType DEF CallType
      <4>2. Members([call EXCEPT !.left = call.left - 1],
                    call.stage, call.command, call.msecs, call.custom,
                    call.base_save, call.save_bin, call.left - 1)
        BY <1>1, <4>1 DEF Members, CallType
      <4> QED BY <2>1, <4>2
    <3>3. /\ Owned' /\ control' \in ControlType /\ call' = next
          /\ held' \in BOOLEAN /\ asked' \in BOOLEAN /\ UNCHANGED <<wanted, throws>>
      BY <3>1, <3>2, AgainStep, LimitsType DEF Members
    <3>4. TypeOK'
      BY <2>1, <3>2, <3>3 DEF IInv, TypeOK, settings, Members
    <3>5. Staged' /\ Counted'
      BY <1>1, <2>1, <3>2, <3>3 DEF Staged, Counted, settings, Members, Commands
    <3>6. Saved'
      BY <1>1, <2>1, <3>2, <3>3 DEF Saved, settings, Members
    <3> QED BY <3>3, <3>4, <3>5, <3>6 DEF IInv
  <2>3. CASE ~(call.left > 0)
    <3>1. returns
      BY <1>5, <2>1, <2>3, ReturnStep DEF PrintBaseEnds
    <3>2. throws = 0 => custom_output_base' = wanted.base /\ use_binary_prefixes' = wanted.bin
      BY <1>1, <2>1 DEF Saved, settings
    <3>3. i_stop_interval' \in 0..throws
      BY <1>1, <2>1 DEF Counted, settings
    <3> QED BY <1>1, <2>1, <3>1, <3>2, <3>3, Returned DEF settings
  <2> QED BY <2>2, <2>3
<1>6. CASE PrintEnds(c)
  <2>1. /\ call.stage = "print" /\ call.command # "bases" /\ ~Idle /\ Return(stopControl(c))
        /\ custom_output_base' = IF call.custom THEN call.base_save ELSE custom_output_base
        /\ use_binary_prefixes' = call.save_bin /\ UNCHANGED i_stop_interval
    BY <1>6 DEF PrintEnds, Idle
  <2>2. returns
    BY <2>1, ReturnStep
  <2>3. throws = 0 => custom_output_base' = wanted.base /\ use_binary_prefixes' = wanted.bin
    BY <1>1, <2>1 DEF Saved
  <2>4. i_stop_interval' \in 0..throws
    BY <1>1, <2>1 DEF Counted
  <2>5. custom_output_base' \in Bases \cup {0} /\ use_binary_prefixes' \in 0..2
    BY <1>1, <2>1
  <2> QED BY <2>2, <2>3, <2>4, <2>5, Returned
<1>7. CASE PrintOnlyEnds(c)
  <2>1. /\ call.stage = "print only" /\ ~Idle /\ Return(stopControl(c)) /\ UNCHANGED settings
    BY <1>7 DEF PrintOnlyEnds, Idle
  <2>2. returns
    BY <2>1, ReturnStep
  <2>3. throws = 0 => custom_output_base' = wanted.base /\ use_binary_prefixes' = wanted.bin
    BY <1>1, <2>1 DEF Saved, settings
  <2>4. i_stop_interval' \in 0..throws
    <3>1. i_stop_interval \in 0..throws + 1 /\ i_stop_interval <= throws
      BY <1>1, <2>1 DEF Counted
    <3>2. i_stop_interval' = i_stop_interval
      BY <2>1 DEF settings
    <3> QED BY <1>1, <3>1, <3>2
  <2> QED BY <1>1, <2>1, <2>2, <2>3, <2>4, Returned DEF settings
<1>8. CASE VectorEnds(c)
  <2>1. /\ call.stage = "vector" /\ ~Idle /\ Return(StopIfLimited(c))
        /\ i_stop_interval' = i_stop_interval - 1
        /\ UNCHANGED <<custom_output_base, use_binary_prefixes>>
    BY <1>8 DEF VectorEnds, Idle
  <2>2. StopIfLimited(c) = stopControl(c) \/ (StopIfLimited(c) = c /\ ~(call.msecs > 0))
    BY DEF StopIfLimited
  <2>3. returns
    BY <2>1, <2>2, ReturnStep
  <2>4. throws = 0 => custom_output_base' = wanted.base /\ use_binary_prefixes' = wanted.bin
    BY <1>1, <2>1 DEF Saved
  <2>5. i_stop_interval' \in 0..throws
    BY <1>1, <2>1 DEF Counted
  <2> QED BY <1>1, <2>1, <2>3, <2>4, <2>5, Returned
<1>9. CASE SeriesEnds(c)
  <2>1. /\ call.stage = "series" /\ ~Idle /\ Return(StopIfLimited(c)) /\ UNCHANGED settings
    BY <1>9 DEF SeriesEnds, Idle
  <2>2. StopIfLimited(c) = stopControl(c) \/ (StopIfLimited(c) = c /\ ~(call.msecs > 0))
    BY DEF StopIfLimited
  <2>3. returns
    BY <2>1, <2>2, ReturnStep
  <2>4. throws = 0 => custom_output_base' = wanted.base /\ use_binary_prefixes' = wanted.bin
    BY <1>1, <2>1 DEF Saved, settings
  <2>5. i_stop_interval' \in 0..throws
    BY <1>1, <2>1 DEF Counted, settings
  <2> QED BY <1>1, <2>1, <2>3, <2>4, <2>5, Returned DEF settings
<1> QED BY <1>2, <1>3, <1>4, <1>5, <1>6, <1>7, <1>8, <1>9 DEF Ends

\* The next series of a plot is like the first.
LEMMA SeriesStep ==
  ASSUME IInv, NextSeries
  PROVE  IInv'
<1>1. /\ call \in CallType /\ Staged /\ Counted /\ Saved /\ call.msecs \in Limits
      /\ held \in BOOLEAN /\ asked \in BOOLEAN
  BY DEF IInv, TypeOK, CallType
<1>2. call.stage = "series" /\ call.left > 0 /\ call.command = "plot" /\ ~Idle /\ UNCHANGED settings
  BY <1>1 DEF NextSeries, MoreSeries, Staged, Idle
<1>3. PICK next : /\ next = [call EXCEPT !.left = call.left - 1]
                  /\ Members(next, "series", "plot", call.msecs, call.custom,
                             call.base_save, call.save_bin, call.left - 1)
  <2>1. call.left - 1 \in 0..Series + 3
    BY <1>1, <1>2, LimitsType DEF CallType
  <2>2. Members([call EXCEPT !.left = call.left - 1],
                call.stage, call.command, call.msecs, call.custom,
                call.base_save, call.save_bin, call.left - 1)
    BY <1>1, <2>1 DEF Members, CallType
  <2> QED BY <1>2, <2>2
<1>4. /\ Owned' /\ control' \in ControlType /\ call' = next
      /\ held' \in BOOLEAN /\ asked' \in BOOLEAN /\ UNCHANGED <<wanted, throws>>
  <2>1. CASE call.msecs > 0
    <3>1. Again(next, call.msecs)
      BY <1>3, <2>1 DEF NextSeries
    <3> QED BY <1>1, <1>3, <3>1, AgainStep DEF Members
  <2>2. CASE ~(call.msecs > 0)
    <3>1. Continue(control, next)
      BY <1>3, <2>2 DEF NextSeries
    <3>2. Seen(control)
      BY AskedSeen
    <3>3. /\ Owned' /\ control' \in ControlType /\ call' = next
          /\ UNCHANGED <<wanted, held, throws, asked>>
      BY <1>2, <1>3, <3>1, <3>2, ContinueStep DEF Members
    <3> QED BY <1>1, <3>3
  <2> QED BY <2>1, <2>2
<1>5. TypeOK'
  BY <1>2, <1>3, <1>4 DEF IInv, TypeOK, settings, Members
<1>6. Staged' /\ Counted'
  BY <1>1, <1>2, <1>3, <1>4 DEF Staged, Counted, settings, Members
<1>7. Saved'
  BY <1>1, <1>2, <1>3, <1>4 DEF Saved, settings, Members
<1> QED BY <1>4, <1>5, <1>6, <1>7 DEF IInv

------------------------------------------------------------------------------
(* The theorems *)

LEMMA Starts == Init => IInv
<1> SUFFICES ASSUME Init PROVE IInv
  OBVIOUS
<1>1. /\ control \in ControlType /\ ~control.controlled /\ control.timeout = 0
      /\ control.aborted = 0
  BY LimitsType DEF Init, ControlType
<1>2. call.stage = "none" /\ call \in CallType
  BY Nobody DEF Init, Members
<1>3. wanted \in [base : Bases \cup {0}, bin : 0..2] /\ wanted.base = 0 /\ wanted.bin = 0
  BY DEF Init
<1>4. /\ custom_output_base = 0 /\ use_binary_prefixes = 0 /\ i_stop_interval = 0
      /\ ~held /\ held \in BOOLEAN /\ throws = 0 /\ asked \in BOOLEAN
  BY DEF Init
<1>5. TypeOK
  BY <1>1, <1>2, <1>3, <1>4, LimitsType DEF TypeOK
<1>6. Staged /\ Counted /\ Saved
  BY <1>2, <1>3, <1>4 DEF Staged, Counted, Saved
<1>7. Owned
  BY <1>1, <1>2, <1>4 DEF Owned, Idle
<1> QED BY <1>5, <1>6, <1>7 DEF IInv

LEMMA Step == IInv /\ [Next]_vars => IInv'
<1> SUFFICES ASSUME IInv, [Next]_vars PROVE IInv'
  OBVIOUS
<1>1. CASE StartControl \/ StopControl \/ setCustomOutputBase \/ useBinaryPrefixes
  BY <1>1, ClientStep
<1>2. CASE Abort \/ TimeOut \/ Throw
  BY <1>2, OutsideStep
<1>3. CASE CalculateAndPrint \/ print \/ ExpressionToPlotVector \/ PlotVectors
  BY <1>3, CallBegins
<1>4. CASE Finish
  BY <1>4, AskedSeen, EndStep DEF Finish
<1>5. CASE Poll
  BY <1>5, AskedSeen, EndStep DEF Poll
<1>6. CASE NextSeries
  BY <1>6, SeriesStep
<1>7. CASE UNCHANGED vars
  <2>1. /\ control' = control /\ call' = call /\ wanted' = wanted /\ held' = held
        /\ throws' = throws /\ asked' = asked /\ custom_output_base' = custom_output_base
        /\ use_binary_prefixes' = use_binary_prefixes /\ i_stop_interval' = i_stop_interval
    BY <1>7 DEF vars, settings
  <2>2. TypeOK'
    BY <2>1 DEF IInv, TypeOK
  <2>3. Staged' /\ Counted' /\ Saved'
    BY <2>1 DEF IInv, Staged, Counted, Saved
  <2>4. Owned'
    BY <2>1 DEF IInv, Owned, Idle
  <2> QED BY <2>2, <2>3, <2>4 DEF IInv
<1> QED BY <1>1, <1>2, <1>3, <1>4, <1>5, <1>6, <1>7 DEF Next

LEMMA Inductive == Spec => []IInv
  BY Starts, Step, PTL DEF Spec

\* Whatever the client calls and whoever aborts, the settings, the counters and
\* control stay in range.
THEOREM Typing == Spec => []TypeOK
<1>1. IInv => TypeOK
  BY DEF IInv
<1> QED BY Inductive, <1>1, PTL

\* calculateAndPrint and expressionToPlotVector give back the settings they
\* changed on every way out, for any number of calls, unless one threw.
THEOREM Restored == Spec => []SettingsRestored
<1>1. IInv => SettingsRestored
  <2> SUFFICES ASSUME IInv, Idle, throws = 0
               PROVE  /\ custom_output_base = wanted.base /\ use_binary_prefixes = wanted.bin
                      /\ i_stop_interval = 0
    BY DEF SettingsRestored
  <2>1. custom_output_base = wanted.base /\ use_binary_prefixes = wanted.bin
    BY DEF IInv, Saved, Idle
  <2>2. i_stop_interval \in 0..1 /\ i_stop_interval <= 0
    BY DEF IInv, Counted, Idle
  <2> QED BY <2>1, <2>2
<1> QED BY Inductive, <1>1, PTL

\* A call has its own limit or none but the client's, and no abort but one that
\* came since control began.
THEOREM OwnLimits == Spec => []OwnControl
<1>1. IInv => OwnControl
  BY DEF IInv, Owned, OwnControl
<1> QED BY Inductive, <1>1, PTL

\* A stage that ends after aborted() has said yes keeps that, or returns.
LEMMA EndSticks ==
  ASSUME IInv, ~Idle, call.command \notin {"bases", "plot"}, NEW c, aborted(c), Ends(c)
  PROVE  aborted(control') \/ call' = NoCall
<1>1. ASSUME NEW next, Continue(c, next) PROVE aborted(control')
  <2>1. control' = c
    BY <1>1 DEF Continue
  <2> QED BY <2>1 DEF aborted
<1>2. ASSUME NEW d, Return(d) PROVE call' = NoCall
  BY <1>2 DEF Return
<1>3. CASE BaseEnds(c)
  BY <1>1, <1>3 DEF BaseEnds
<1>4. CASE EvaluateEnds(c)
  BY <1>1, <1>4 DEF EvaluateEnds, ToPrint
<1>5. CASE PrintBaseEnds(c)
  BY <1>5 DEF PrintBaseEnds
<1>6. CASE CalendarsPrinted(c) \/ PrintEnds(c) \/ PrintOnlyEnds(c)
  BY <1>2, <1>6 DEF CalendarsPrinted, PrintEnds, PrintOnlyEnds
<1>7. CASE VectorEnds(c) \/ SeriesEnds(c)
  BY <1>2, <1>7 DEF VectorEnds, SeriesEnds
<1> QED BY <1>3, <1>4, <1>5, <1>6, <1>7 DEF Ends

\* From base to evaluation to printing no call forgets that it was aborted: once
\* aborted() says yes it does so until the call has returned.
THEOREM Sticks == Spec => AbortSticks
<1>1. ASSUME IInv, Next, ~Idle, aborted(control), call.command \notin {"bases", "plot"}
      PROVE  aborted(control') \/ call' = NoCall
  <2>1. control \in ControlType /\ 0 \in Limits
    BY <1>1, LimitsType DEF IInv, TypeOK
  <2>2. CASE Abort
    <3>1. control'.controlled = control.controlled /\ control'.aborted = 1
      BY <2>1, <2>2 DEF Abort, ControlType
    <3> QED BY <1>1, <3>1 DEF aborted
  <2>3. CASE TimeOut
    <3>1. /\ control'.controlled = control.controlled /\ control'.aborted = control.aborted
          /\ control'.timeout = control.timeout /\ control'.late /\ control.timeout > 0
      BY <2>1, <2>3 DEF TimeOut, ControlType
    <3> QED BY <1>1, <3>1 DEF aborted
  <2>4. CASE Finish
    BY <1>1, <2>4, EndSticks DEF Finish
  <2>5. CASE Poll
    <3>1. aborted(Asked(control))
      BY <1>1, <2>1, ControlMembers
    <3> QED BY <1>1, <2>5, <3>1, EndSticks DEF Poll
  <2>6. CASE NextSeries
    BY <1>1, <2>6 DEF NextSeries, IInv, Staged
  <2>7. CASE Throw
    BY <2>7 DEF Throw
  <2>8. CASE StartControl \/ StopControl \/ setCustomOutputBase \/ useBinaryPrefixes
    BY <1>1, <2>8 DEF StartControl, StopControl, setCustomOutputBase, useBinaryPrefixes
  <2>9. CASE CalculateAndPrint \/ print \/ ExpressionToPlotVector \/ PlotVectors
    BY <1>1, <2>9 DEF CalculateAndPrint, print, ExpressionToPlotVector, PlotVectors, Begin
  <2> QED BY <1>1, <2>2, <2>3, <2>4, <2>5, <2>6, <2>7, <2>8, <2>9 DEF Next
<1>2. IInv /\ [Next]_vars
        => [(~Idle /\ aborted(control) /\ call.command \notin {"bases", "plot"})
              => (aborted(control') \/ call' = NoCall)]_vars
  BY <1>1
<1> QED BY Inductive, <1>2, PTL DEF Spec, AbortSticks

==============================================================================
