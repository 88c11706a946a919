------------------------------ MODULE RPNProofs ------------------------------
(***************************************************************************)
(* Proofs about the RPN stack and the thread that works on it: first the   *)
(* register operations, which RPNStack and CalculateThread share, then the *)
(* two of them, for every value of their constants.                        *)
(***************************************************************************)
EXTENDS CalculateThread, RPNStack, FiniteSetTheorems, SequenceTheorems, TLAPS

------------------------------------------------------------------------------
(* The register operations *)

\* A register index names a position of the vector.
LEMMA PositionType ==
  ASSUME NEW S, NEW stack \in Seq(S), NEW i, HasRegister(stack, i)
  PROVE  Position(stack, i) \in 1..Len(stack)
  BY DEF HasRegister, Position

\* Cutting the stack after position n.
LEMMA FrontType ==
  ASSUME NEW S, NEW stack \in Seq(S), NEW n \in 0..Len(stack)
  PROVE  SubSeq(stack, 1, n) \in Seq(S) /\ Len(SubSeq(stack, 1, n)) = n
  BY SubSeqProperties

\* setRPNRegister keeps the size and the kind of the contents.
LEMMA SetType ==
  ASSUME NEW S, NEW stack \in Seq(S), NEW x \in S, NEW i
  PROVE  /\ setRPNRegister(stack, i, x) \in Seq(S)
         /\ Len(setRPNRegister(stack, i, x)) = Len(stack)
  <1>1. CASE HasRegister(stack, i)
    <2>1. Position(stack, i) \in 1..Len(stack)
      BY <1>1, PositionType
    <2>2. [stack EXCEPT ![Position(stack, i)] = x] \in Seq(S)
      BY <2>1, ExceptSeq
    <2>3. Len([stack EXCEPT ![Position(stack, i)] = x]) = Len(stack)
      BY <2>1, ExceptSeq
    <2>4. QED
      BY <1>1, <2>2, <2>3 DEF setRPNRegister, ReplaceAt
  <1>2. CASE ~HasRegister(stack, i)
    BY <1>2 DEF setRPNRegister
  <1>3. QED
    BY <1>1, <1>2

\* deleteRPNRegister takes away one register, or none if there is none.
LEMMA DeleteType ==
  ASSUME NEW S, NEW stack \in Seq(S), NEW i
  PROVE  /\ deleteRPNRegister(stack, i) \in Seq(S)
         /\ HasRegister(stack, i) => Len(deleteRPNRegister(stack, i)) = Len(stack) - 1
  <1>1. CASE HasRegister(stack, i)
    <2> DEFINE p == Position(stack, i)
    <2>1. p \in 1..Len(stack) /\ Len(stack) \in Nat
      BY <1>1, PositionType, LenProperties
    <2>2. SubSeq(stack, 1, p - 1) \in Seq(S) /\ Len(SubSeq(stack, 1, p - 1)) = p - 1
      BY <2>1, FrontType
    <2>3. /\ SubSeq(stack, p + 1, Len(stack)) \in Seq(S)
          /\ Len(SubSeq(stack, p + 1, Len(stack))) = Len(stack) - p
      BY <2>1, SubSeqProperties
    <2>4. /\ RemoveAt(stack, p) \in Seq(S)
          /\ Len(RemoveAt(stack, p)) = (p - 1) + (Len(stack) - p)
      BY <2>2, <2>3, ConcatProperties DEF RemoveAt
    <2>5. QED
      BY <1>1, <2>1, <2>4 DEF deleteRPNRegister
  <1>2. CASE ~HasRegister(stack, i)
    BY <1>2 DEF deleteRPNRegister
  <1>3. QED
    BY <1>1, <1>2

\* A result ends up in register 1 of a stack.
LEMMA ReplaceFirstType ==
  ASSUME NEW S, NEW stack \in Seq(S), NEW x \in S
  PROVE  ReplaceFirst(stack, x) \in Seq(S)
  <1>1. Append(stack, x) \in Seq(S)
    BY AppendProperties
  <1>2. setRPNRegister(stack, 1, x) \in Seq(S)
    BY SetType
  <1>3. QED
    BY <1>1, <1>2 DEF ReplaceFirst, RPNStackEnter

\* A function never consumes more registers than there are but one.
LEMMA ConsumedRange ==
  ASSUME NEW S, NEW stack \in Seq(S), NEW n \in Int
  PROVE  Len(stack) - Consumed(stack, n) \in 0..Len(stack)
  <1>1. Len(stack) \in Nat
    BY LenProperties
  <1>2. QED
    BY <1>1 DEF Consumed

\* The thread's command turns a stack into a stack.
LEMMA PerformType ==
  ASSUME NEW S, NEW stack \in Seq(S), NEW x \in S, NEW command \in Commands,
         NEW arg \in Int
  PROVE  Perform(stack, command, arg, x) \in Seq(S)
  <1>1. CASE command = "none"
    BY <1>1 DEF Perform
  <1>2. CASE command = "add"
    BY <1>2, AppendProperties DEF Perform, RPNStackEnter
  <1>3. CASE command = "set"
    BY <1>3, SetType DEF Perform
  <1>4. CASE command = "op1"
    BY <1>4, ReplaceFirstType DEF Perform
  <1>5. CASE command = "op2"
    <2>1. deleteRPNRegister(stack, 1) \in Seq(S)
      BY DeleteType
    <2>2. OperationTwo(stack, x) \in Seq(S)
      BY <2>1, ReplaceFirstType DEF OperationTwo
    <2>3. QED
      BY <1>5, <2>2 DEF Perform
  <1>6. CASE command = "opF"
    <2> DEFINE rest == DropRegisters(stack, Consumed(stack, arg))
    <2>1. rest \in Seq(S)
      BY ConsumedRange, FrontType DEF DropRegisters
    <2>2. RPNStackEnter(rest, x) \in Seq(S)
      BY <2>1, AppendProperties DEF RPNStackEnter
    <2>3. ReplaceFirst(rest, x) \in Seq(S)
      BY <2>1, ReplaceFirstType
    <2>4. OperationFunction(stack, arg, x) \in Seq(S)
      BY <2>2, <2>3 DEF OperationFunction
    <2>5. QED
      BY <1>6, <2>4 DEF Perform
  <1>7. QED
    BY <1>1, <1>2, <1>3, <1>4, <1>5, <1>6 DEF Commands
-----------------------------------------------------------------------------
(* The same operations element by element.                                 *)

\* The elements of a stack by their positions.
LEMMA Elements ==
  ASSUME NEW S, NEW stack \in Seq(S)
  PROVE  /\ Len(stack) \in Nat
         /\ ToSet(stack) = {stack[i] : i \in 1..Len(stack)}
         /\ ToSet(stack) \subseteq S
  <1>1. Len(stack) \in Nat /\ ToSet(stack) = {stack[i] : i \in 1..Len(stack)}
    BY LenProperties DEF ToSet
  <1>2. \A i \in 1..Len(stack) : stack[i] \in S
    BY ElementOfSeq
  <1>3. QED
    BY <1>1, <1>2

LEMMA FrontElements ==
  ASSUME NEW S, NEW stack \in Seq(S), NEW n \in 0..Len(stack)
  PROVE  /\ SubSeq(stack, 1, n) \in Seq(S) /\ Len(SubSeq(stack, 1, n)) = n
         /\ \A j \in 1..n : SubSeq(stack, 1, n)[j] = stack[j]
  <1>1. Len(stack) \in Nat /\ n \in Nat
    BY LenProperties
  <1>2. \A j \in 1..n : stack[j] \in S
    BY <1>1, ElementOfSeq
  <1>3. QED
    BY <1>1, <1>2, SubSeqProperties

LEMMA BackElements ==
  ASSUME NEW S, NEW stack \in Seq(S), NEW p \in 1..(Len(stack) + 1)
  PROVE  /\ SubSeq(stack, p, Len(stack)) \in Seq(S)
         /\ Len(SubSeq(stack, p, Len(stack))) = Len(stack) - p + 1
         /\ \A j \in 1..(Len(stack) - p + 1) :
               SubSeq(stack, p, Len(stack))[j] = stack[p + j - 1]
  <1>1. Len(stack) \in Nat
    BY LenProperties
  <1>2. \A j \in p..Len(stack) : stack[j] \in S
    BY <1>1, ElementOfSeq
  <1>3. QED
    BY <1>1, <1>2, SubSeqProperties

LEMMA RemoveElements ==
  ASSUME NEW S, NEW stack \in Seq(S), NEW p \in 1..Len(stack)
  PROVE  /\ RemoveAt(stack, p) \in Seq(S) /\ Len(RemoveAt(stack, p)) = Len(stack) - 1
         /\ \A j \in 1..(Len(stack) - 1) :
               RemoveAt(stack, p)[j] = IF j < p THEN stack[j] ELSE stack[j + 1]
  <1> DEFINE a == SubSeq(stack, 1, p - 1)
             b == SubSeq(stack, p + 1, Len(stack))
             t == a \o b
  <1>1. Len(stack) \in Nat /\ p - 1 \in 0..Len(stack) /\ p + 1 \in 1..(Len(stack) + 1)
    BY LenProperties
  <1>2. a \in Seq(S) /\ Len(a) = p - 1 /\ \A j \in 1..(p - 1) : a[j] = stack[j]
    BY <1>1, FrontElements
  <1>3. /\ b \in Seq(S) /\ Len(b) = Len(stack) - p
        /\ \A j \in 1..(Len(stack) - p) : b[j] = stack[j + p]
    <2>1. /\ b \in Seq(S) /\ Len(b) = Len(stack) - (p + 1) + 1
          /\ \A j \in 1..(Len(stack) - (p + 1) + 1) : b[j] = stack[(p + 1) + j - 1]
      BY <1>1, BackElements
    <2> HIDE DEF b
    <2>2. Len(stack) - (p + 1) + 1 = Len(stack) - p
      BY <1>1
    <2>3. \A j \in 1..(Len(stack) - p) : (p + 1) + j - 1 = j + p
      BY <1>1
    <2>4. QED
      BY <2>1, <2>2, <2>3
  <1> HIDE DEF a, b
  <1>4. /\ t \in Seq(S) /\ Len(t) = Len(a) + Len(b)
        /\ \A j \in 1..(Len(a) + Len(b)) : t[j] = IF j <= Len(a) THEN a[j] ELSE b[j - Len(a)]
    BY <1>2, <1>3, ConcatProperties
  <1> HIDE DEF t
  <1>5. Len(a) + Len(b) = Len(stack) - 1
    BY <1>1, <1>2, <1>3
  <1>6. ASSUME NEW j \in 1..(Len(stack) - 1)
        PROVE  t[j] = IF j < p THEN stack[j] ELSE stack[j + 1]
    <2>1. CASE j < p
      BY <1>1, <1>2, <1>4, <1>5, <2>1
    <2>2. CASE j >= p
      <3>1. t[j] = b[j - (p - 1)] /\ j - (p - 1) \in 1..(Len(stack) - p)
        <4>1. j \in 1..(Len(a) + Len(b)) /\ ~(j <= Len(a)) /\ Len(a) = p - 1
          BY <1>1, <1>2, <1>5, <2>2
        <4>2. t[j] = b[j - Len(a)]
          BY <1>4, <4>1
        <4>3. QED
          BY <1>1, <2>2, <4>1, <4>2
      <3>2. b[j - (p - 1)] = stack[j - (p - 1) + p]
        BY <1>3, <3>1
      <3>3. j - (p - 1) + p = j + 1
        BY <1>1
      <3>4. QED
        BY <1>1, <2>2, <3>1, <3>2, <3>3
    <2>3. QED
      BY <1>1, <2>1, <2>2
  <1>7. QED
    BY <1>4, <1>5, <1>6 DEF RemoveAt, t, a, b

LEMMA InsertElements ==
  ASSUME NEW S, NEW stack \in Seq(S), NEW x \in S, NEW p \in 1..(Len(stack) + 1)
  PROVE  /\ InsertAt(stack, p, x) \in Seq(S) /\ Len(InsertAt(stack, p, x)) = Len(stack) + 1
         /\ \A j \in 1..(Len(stack) + 1) :
               InsertAt(stack, p, x)[j] =
                  IF j < p THEN stack[j] ELSE IF j = p THEN x ELSE stack[j - 1]
  <1> DEFINE a == SubSeq(stack, 1, p - 1)
             b == SubSeq(stack, p, Len(stack))
             c == a \o <<x>>
             t == c \o b
  <1>1. Len(stack) \in Nat /\ p - 1 \in 0..Len(stack) /\ p \in Nat
    BY LenProperties
  <1>2. a \in Seq(S) /\ Len(a) = p - 1 /\ \A j \in 1..(p - 1) : a[j] = stack[j]
    BY <1>1, FrontElements
  <1>3. /\ b \in Seq(S) /\ Len(b) = Len(stack) - p + 1
        /\ \A j \in 1..(Len(stack) - p + 1) : b[j] = stack[p + j - 1]
    BY <1>1, BackElements
  <1> HIDE DEF a, b
  <1>4. <<x>> \in Seq(S) /\ Len(<<x>>) = 1 /\ <<x>>[1] = x
    OBVIOUS
  <1>5. /\ c \in Seq(S) /\ Len(c) = Len(a) + 1
        /\ \A j \in 1..(Len(a) + 1) : c[j] = IF j <= Len(a) THEN a[j] ELSE <<x>>[j - Len(a)]
    BY <1>2, <1>4, ConcatProperties
  <1> HIDE DEF c
  <1>6. /\ t \in Seq(S) /\ Len(t) = Len(c) + Len(b)
        /\ \A j \in 1..(Len(c) + Len(b)) : t[j] = IF j <= Len(c) THEN c[j] ELSE b[j - Len(c)]
    BY <1>3, <1>5, ConcatProperties
  <1> HIDE DEF t
  <1>7. Len(c) = p /\ Len(c) + Len(b) = Len(stack) + 1
    BY <1>1, <1>2, <1>3, <1>5
  <1>8. ASSUME NEW j \in 1..(Len(stack) + 1)
        PROVE  t[j] = IF j < p THEN stack[j] ELSE IF j = p THEN x ELSE stack[j - 1]
    <2>1. CASE j < p
      BY <1>1, <1>2, <1>5, <1>6, <1>7, <2>1
    <2>2. CASE j = p
      <3>1. t[j] = c[j] /\ c[j] = <<x>>[j - Len(a)] /\ j - Len(a) = 1
        BY <1>1, <1>2, <1>5, <1>6, <1>7, <2>2
      <3>2. QED
        BY <1>4, <2>2, <3>1
    <2>3. CASE j > p
      <3>1. t[j] = b[j - p] /\ j - p \in 1..(Len(stack) - p + 1)
        BY <1>1, <1>6, <1>7, <2>3
      <3>2. b[j - p] = stack[p + (j - p) - 1] /\ p + (j - p) - 1 = j - 1
        BY <1>1, <1>3, <3>1
      <3>3. QED
        BY <1>1, <2>3, <3>1, <3>2
    <2>4. QED
      BY <1>1, <2>1, <2>2, <2>3
  <1>9. QED
    BY <1>6, <1>7, <1>8 DEF InsertAt, t, c, a, b
-----------------------------------------------------------------------------
(* What a stack holds afterwards; nothing is there twice.                  *)

\* No structure is in two registers.
Distinct(stack) == \A i, k \in 1..Len(stack) : stack[i] = stack[k] => i = k

\* stack has the structures of T and each of them once.
Holds(stack, T) == Distinct(stack) /\ ToSet(stack) = T

LEMMA EnterHolds ==
  ASSUME NEW S, NEW stack \in Seq(S), NEW x \in S, Distinct(stack), x \notin ToSet(stack)
  PROVE  Holds(RPNStackEnter(stack, x), ToSet(stack) \cup {x})
  <1> DEFINE t == Append(stack, x)
  <1>1. /\ t \in Seq(S) /\ Len(t) = Len(stack) + 1
        /\ \A i \in 1..Len(stack) : t[i] = stack[i]
        /\ t[Len(stack) + 1] = x
    BY AppendProperties
  <1>2. /\ ToSet(stack) = {stack[i] : i \in 1..Len(stack)}
        /\ ToSet(t) = {t[i] : i \in 1..Len(t)} /\ Len(stack) \in Nat
    BY <1>1, Elements
  <1>3. \A i \in 1..Len(t) : i \in 1..Len(stack) \/ i = Len(stack) + 1
    BY <1>1, <1>2
  <1>4. 1..Len(stack) \subseteq 1..Len(t) /\ Len(stack) + 1 \in 1..Len(t)
    BY <1>1, <1>2
  <1> HIDE DEF t
  <1>5. ToSet(t) \subseteq ToSet(stack) \cup {x}
    BY <1>1, <1>2, <1>3
  <1>6. ToSet(stack) \subseteq ToSet(t) /\ x \in ToSet(t)
    BY <1>1, <1>2, <1>4
  <1>7. Distinct(t)
    BY <1>1, <1>2, <1>3 DEF Distinct
  <1>8. QED
    BY <1>5, <1>6, <1>7 DEF Holds, RPNStackEnter, t

LEMMA ReplaceHolds ==
  ASSUME NEW S, NEW stack \in Seq(S), NEW x \in S, NEW p \in 1..Len(stack), Distinct(stack),
         x \notin ToSet(stack)
  PROVE  Holds(ReplaceAt(stack, p, x), (ToSet(stack) \ {stack[p]}) \cup {x})
  <1> DEFINE t == [stack EXCEPT ![p] = x]
  <1>1. /\ t \in Seq(S) /\ Len(t) = Len(stack)
        /\ \A j \in 1..Len(stack) : t[j] = IF j = p THEN x ELSE stack[j]
    BY ExceptSeq
  <1>2. /\ ToSet(stack) = {stack[j] : j \in 1..Len(stack)}
        /\ ToSet(t) = {t[j] : j \in 1..Len(t)}
    BY <1>1, Elements
  <1> HIDE DEF t
  <1>3. ToSet(t) \subseteq (ToSet(stack) \ {stack[p]}) \cup {x}
    BY <1>1, <1>2 DEF Distinct
  <1>4. (ToSet(stack) \ {stack[p]}) \cup {x} \subseteq ToSet(t)
    BY <1>1, <1>2
  <1>5. Distinct(t)
    BY <1>1, <1>2 DEF Distinct
  <1>6. QED
    BY <1>3, <1>4, <1>5 DEF Holds, ReplaceAt, t

LEMMA RemoveHolds ==
  ASSUME NEW S, NEW stack \in Seq(S), NEW p \in 1..Len(stack), Distinct(stack)
  PROVE  Holds(RemoveAt(stack, p), ToSet(stack) \ {stack[p]})
  <1> DEFINE t == RemoveAt(stack, p)
  <1>1. /\ t \in Seq(S) /\ Len(t) = Len(stack) - 1
        /\ \A j \in 1..(Len(stack) - 1) : t[j] = IF j < p THEN stack[j] ELSE stack[j + 1]
    BY RemoveElements
  <1> HIDE DEF t
  <1>2. /\ ToSet(stack) = {stack[j] : j \in 1..Len(stack)} /\ Len(stack) \in Nat
        /\ ToSet(t) = {t[j] : j \in 1..Len(t)}
    BY <1>1, Elements
  <1>3. ASSUME NEW j \in 1..Len(t)
        PROVE  t[j] \in ToSet(stack) \ {stack[p]}
    BY <1>1, <1>2 DEF Distinct
  <1>4. ASSUME NEW j \in 1..Len(stack), j # p
        PROVE  stack[j] \in ToSet(t)
    <2>1. CASE j < p
      <3>1. j \in 1..Len(t) /\ t[j] = stack[j]
        BY <1>1, <1>2, <2>1
      <3>2. QED
        BY <1>2, <3>1
    <2>2. CASE j > p
      <3>1. j - 1 \in 1..Len(t) /\ t[j - 1] = stack[(j - 1) + 1] /\ (j - 1) + 1 = j
        BY <1>1, <1>2, <2>2
      <3>2. QED
        BY <1>2, <3>1
    <2>3. QED
      BY <1>2, <1>4, <2>1, <2>2
  <1>5. Distinct(t)
    BY <1>1, <1>2 DEF Distinct
  <1>6. QED
    BY <1>2, <1>3, <1>4, <1>5 DEF Holds, t

LEMMA InsertHolds ==
  ASSUME NEW S, NEW stack \in Seq(S), NEW x \in S, NEW p \in 1..(Len(stack) + 1),
         Distinct(stack), x \notin ToSet(stack)
  PROVE  Holds(InsertAt(stack, p, x), ToSet(stack) \cup {x})
  <1> DEFINE t == InsertAt(stack, p, x)
  <1>1. /\ t \in Seq(S) /\ Len(t) = Len(stack) + 1
        /\ \A j \in 1..(Len(stack) + 1) :
              t[j] = IF j < p THEN stack[j] ELSE IF j = p THEN x ELSE stack[j - 1]
    BY InsertElements
  <1> HIDE DEF t
  <1>2. /\ ToSet(stack) = {stack[j] : j \in 1..Len(stack)} /\ Len(stack) \in Nat
        /\ ToSet(t) = {t[j] : j \in 1..Len(t)}
    BY <1>1, Elements
  <1>3. \A j \in 1..Len(stack) : stack[j] # x
    BY <1>2
  <1>4. ASSUME NEW j \in 1..Len(t)
        PROVE  t[j] \in ToSet(stack) \cup {x}
    BY <1>1, <1>2
  <1>5. ASSUME NEW j \in 1..Len(stack)
        PROVE  stack[j] \in ToSet(t)
    <2>1. CASE j < p
      <3>1. j \in 1..Len(t) /\ t[j] = stack[j]
        BY <1>1, <1>2, <2>1
      <3>2. QED
        BY <1>2, <3>1
    <2>2. CASE j >= p
      <3>1. j + 1 \in 1..Len(t) /\ t[j + 1] = stack[(j + 1) - 1] /\ (j + 1) - 1 = j
        BY <1>1, <1>2, <2>2
      <3>2. QED
        BY <1>2, <3>1
    <2>3. QED
      BY <1>2, <2>1, <2>2
  <1>6. x \in ToSet(t)
    <2>1. p \in 1..Len(t) /\ t[p] = x
      BY <1>1, <1>2
    <2>2. QED
      BY <1>2, <2>1
  <1>7. Distinct(t)
    <2> SUFFICES ASSUME NEW i \in 1..Len(t), NEW k \in 1..Len(t), t[i] = t[k]
                 PROVE  i = k
      BY DEF Distinct
    <2> DEFINE Old(j) == IF j < p THEN j ELSE j - 1
    <2>1. ASSUME NEW j \in 1..Len(t), j # p
          PROVE  Old(j) \in 1..Len(stack) /\ t[j] = stack[Old(j)] /\ t[j] # x
      <3>1. Old(j) \in 1..Len(stack)
        BY <1>1, <1>2, <2>1
      <3>2. t[j] = stack[Old(j)]
        BY <1>1, <1>2, <2>1
      <3>3. QED
        BY <1>3, <3>1, <3>2
    <2>2. t[p] = x /\ p \in 1..Len(t)
      BY <1>1, <1>2
    <2>3. CASE i = p \/ k = p
      BY <2>1, <2>2, <2>3
    <2>4. CASE i # p /\ k # p
      <3>1. Old(i) = Old(k)
        BY <2>1, <2>4 DEF Distinct
      <3>2. QED
        BY <1>1, <1>2, <2>4, <3>1
    <2>5. QED
      BY <2>3, <2>4
  <1>8. QED
    BY <1>2, <1>4, <1>5, <1>6, <1>7 DEF Holds, t

LEMMA FrontHolds ==
  ASSUME NEW S, NEW stack \in Seq(S), NEW n \in 0..Len(stack), Distinct(stack)
  PROVE  Holds(SubSeq(stack, 1, n), {stack[j] : j \in 1..n})
  <1> DEFINE t == SubSeq(stack, 1, n)
  <1>1. t \in Seq(S) /\ Len(t) = n /\ \A j \in 1..n : t[j] = stack[j]
    BY FrontElements
  <1> HIDE DEF t
  <1>2. ToSet(t) = {t[j] : j \in 1..Len(t)} /\ Len(stack) \in Nat
    BY <1>1, Elements
  <1>3. ToSet(t) = {stack[j] : j \in 1..n}
    BY <1>1, <1>2
  <1>4. Distinct(t)
    BY <1>1, <1>2 DEF Distinct
  <1>5. QED
    BY <1>3, <1>4 DEF Holds, t
-----------------------------------------------------------------------------
(* What an operation leaves on the stack was there before or is the new    *)
(* structure.                                                              *)

\* stack is without duplicates, and made of old's registers and x.
MadeOf(stack, old, x) == Distinct(stack) /\ ToSet(stack) \subseteq ToSet(old) \cup {x}

\* The result in register 1.
LEMMA ReplaceFirstMadeOf ==
  ASSUME NEW S, NEW stack \in Seq(S), NEW x \in S, Distinct(stack), x \notin ToSet(stack)
  PROVE  MadeOf(ReplaceFirst(stack, x), stack, x)
  <1>1. MadeOf(RPNStackEnter(stack, x), stack, x)
    BY EnterHolds DEF Holds, MadeOf
  <1>2. MadeOf(setRPNRegister(stack, 1, x), stack, x)
    BY ReplaceHolds, PositionType DEF setRPNRegister, Holds, MadeOf
  <1>3. QED
    BY <1>1, <1>2 DEF ReplaceFirst

\* The thread's command neither duplicates a register nor brings anything
\* onto the stack but its own structure.
LEMMA PerformMadeOf ==
  ASSUME NEW S, NEW stack \in Seq(S), NEW x \in S, NEW command \in Commands,
         NEW arg \in Int, Distinct(stack), x \notin ToSet(stack)
  PROVE  MadeOf(Perform(stack, command, arg, x), stack, x)
  <1>1. CASE command = "none"
    BY <1>1 DEF Perform, MadeOf
  <1>2. CASE command = "add"
    BY <1>2, EnterHolds DEF Perform, Holds, MadeOf
  <1>3. CASE command = "set"
    BY <1>3, ReplaceHolds, PositionType DEF Perform, setRPNRegister, Holds, MadeOf
  <1>4. CASE command = "op1"
    BY <1>4, ReplaceFirstMadeOf DEF Perform
  <1>5. CASE command = "op2"
    <2> DEFINE rest == IF Len(stack) > 1 THEN deleteRPNRegister(stack, 1) ELSE stack
    <2>1. rest \in Seq(S) /\ Distinct(rest) /\ ToSet(rest) \subseteq ToSet(stack)
      BY DeleteType, RemoveHolds, PositionType DEF deleteRPNRegister, Holds
    <2> HIDE DEF rest
    <2>2. MadeOf(ReplaceFirst(rest, x), rest, x)
      BY <2>1, ReplaceFirstMadeOf
    <2>3. QED
      BY <1>5, <2>1, <2>2 DEF Perform, OperationTwo, MadeOf, rest
  <1>6. CASE command = "opF"
    <2> DEFINE n == Len(stack) - Consumed(stack, arg)
               rest == SubSeq(stack, 1, n)
    <2>1. n \in 0..Len(stack)
      BY ConsumedRange
    <2> HIDE DEF n
    <2>2. rest \in Seq(S) /\ Distinct(rest) /\ ToSet(rest) = {stack[j] : j \in 1..n}
      BY <2>1, FrontElements, FrontHolds DEF Holds
    <2>3. ToSet(stack) = {stack[j] : j \in 1..Len(stack)} /\ Len(stack) \in Nat
      BY Elements
    <2> HIDE DEF rest
    <2>4. ToSet(rest) \subseteq ToSet(stack)
      BY <2>1, <2>2, <2>3
    <2>5. MadeOf(RPNStackEnter(rest, x), rest, x) /\ MadeOf(ReplaceFirst(rest, x), rest, x)
      BY <2>2, <2>4, EnterHolds, ReplaceFirstMadeOf DEF Holds, MadeOf
    <2>6. QED
      BY <1>6, <2>4, <2>5 DEF Perform, OperationFunction, DropRegisters, MadeOf, rest, n
  <1>7. QED
    BY <1>1, <1>2, <1>3, <1>4, <1>5, <1>6 DEF Commands

------------------------------------------------------------------------------
(* CalculateThread *)

(* What is posted, by whom it is held, and where the client stands.        *)

\* Workers are created one after the other; all but the last are dead, and
\* running says whether the last is alive.
Roster ==
    /\ \A w \in Workers : w > spawned => wpc[w] = "none"
    /\ \A w \in Workers : w < spawned => wpc[w] = "dead"
    /\ spawned > 0 => wpc[spawned] \in Alive \cup {"dead"}
    /\ running <=> (spawned > 0 /\ wpc[spawned] \in Alive)

\* Nothing is posted.
Empty == pipe = <<>> /\ (running => wpc[spawned] = "bool")

\* The bool of the current call is posted, its pointer is not.
Half ==
    /\ running
    /\ \/ wpc[spawned] = "bool" /\ pipe = <<Bool(call.kind = "parse")>>
       \/ /\ wpc[spawned] = "ptr" /\ pipe = <<>>
          /\ wparse[spawned] = (call.kind = "parse")

\* A calculation with the parameters in tmp is posted or at work.
Posted ==
    /\ running
    /\ tmp.opts # 0
    /\ \E b \in BOOLEAN :
         /\ b => tmp.expr = tmp.opts
         /\ \/ wpc[spawned] = "bool" /\ pipe = <<Bool(b), Ptr(tmp.opts)>>
            \/ wpc[spawned] = "ptr" /\ wparse[spawned] = b /\ pipe = <<Ptr(tmp.opts)>>
            \/ /\ wpc[spawned] \in AtWork /\ wparse[spawned] = b
               /\ wjob[spawned] = tmp.opts /\ pipe = <<>>

\* The end is posted.
Ending ==
    \/ running /\ wpc[spawned] = "bool" /\ pipe = <<Bool(FALSE), Ptr(0)>>
    \/ running /\ wpc[spawned] = "ptr" /\ pipe = <<Ptr(0)>>
    \/ running /\ wpc[spawned] = "exit" /\ pipe = <<>>
    \/ ~running /\ pipe = <<>>

Phase ==
    /\ cpc = "ensure" => busy /\ Empty
    /\ cpc \in {"params", "bool"} => busy /\ running /\ Empty
    /\ cpc = "ptr" => busy /\ Half
    /\ cpc \in {"idle", "wait", "abort", "test", "abortWait"} =>
         IF busy THEN Posted \/ (~running /\ pipe = <<>>) ELSE Empty
    /\ cpc \in {"wait", "between", "abortWait"} => running
    /\ cpc = "between" => ~busy /\ Empty
    /\ cpc = "terminate" => ~busy /\ Empty
    /\ cpc = "termWait" => ~busy /\ Ending
    /\ cpc = "gone" => ~busy /\ ~running /\ pipe = <<>>
    /\ cpc \notin {"reset", "restart"}

Parameters ==
    /\ cpc \in {"bool", "ptr", "wait", "between"} =>
         tmp.opts = job /\ (call.kind = "parse" => tmp.expr = job)
    /\ cpc \in {"ensure", "params", "bool", "ptr", "wait", "between"} =>
         call.kind \in Kinds
    /\ call.kind = "convert" => call.timed
    /\ ~pipesOpen => cpc = "gone"

Control == controlled => running /\ wpc[spawned] \in {"begin", "calc", "command", "stop"}

Steady == Roster /\ Phase /\ Parameters /\ Control

\* The inductive invariant behind the safety properties.
Handshake == Undisturbed => Steady

(* What a structure is held by, and what it has become.                    *)

\* A call's structure is on its way to the command that stores it.
Underway ==
    \/ cpc \in {"ensure", "params", "bool", "ptr", "between"}
    \/ cpc = "wait" /\ call.kind = "convert"
    \/ busy /\ running /\ wpc[spawned] \notin {"stop", "clear"}

\* The calls are numbered, and the structure of one that is under way is not
\* yet on the stack; what left the stack does not come back.
Live ==
    /\ job = jobs
    /\ ToSet(rpn) \cup freed \subseteq 0..jobs
    /\ ToSet(rpn) \cap freed = {}
    /\ Distinct(rpn)
    /\ Underway => job \notin freed \cup ToSet(rpn)
    /\ (busy /\ running /\ cpc \notin {"ensure", "params"}) => tmp.opts = job
    /\ call.kind = "convert" => call.cmd = "none"
    /\ cpc \in {"bool", "ptr", "wait", "between"} => tmp.cmd = call.cmd

\* While the client waits nobody aborts, and the structure of the call gets
\* its value before the command.
Done ==
    /\ call.kind \notin Kinds => ~call.timed
    /\ (cpc = "wait" /\ ~busy) => value[job] = "done"
    /\ (cpc = "wait" /\ busy) =>
         /\ wpc[spawned] \in {"begin", "calc"} => ~iAborted
         /\ wpc[spawned] \in {"command", "stop", "clear"} => value[job] = "done"
    /\ cpc = "between" => value[job] = "done"
    /\ (cpc = "idle" /\ call.timed /\ ret = "true") => ~busy /\ value[job] = "done"

-----------------------------------------------------------------------------
(* Types.                                                                  *)

\* Two messages make a sequence of messages.
LEMMA PairSeq == ASSUME NEW S, NEW x \in S, NEW y \in S PROVE <<x, y>> \in Seq(S)
  OBVIOUS

\* What each action does to the flags keeps them Boolean.
LEMMA FlagsStep ==
  ASSUME FlagsType, [Next]_vars
  PROVE  FlagsType'
  <1>1. busy' \in {busy, TRUE, FALSE} /\ running' \in {running, TRUE, FALSE}
    BY DEF Next, ClientStep, WorkerStep, vars, flags,
       Call, EnsureThread, Spawn, EnsureFails, SetParams, WriteBool, WritePtr,
       WriteFails, Cancel, WaitFinishes, WaitTimesOut, ConvertBetween, Other,
       AbortFlag, AbortReturns, AbortWaits, AbortTimesOut, AbortResets,
       AbortRestarts, SpawnFails, TerminateWrites, TerminateWriteFails,
       TerminateEnds, TerminateTimesOut, ReadBool, ReadPtr, Misread,
       StartControl, Begin, CalculationEnds, CalculationAborted,
       PerformCommand, StopControl, ClearBusy, Exit
  <1>2. controlled' \in {controlled, TRUE, FALSE} /\ iAborted' \in {iAborted, TRUE, FALSE}
    BY DEF Next, ClientStep, WorkerStep, vars, flags, startControl, stopControl,
       Call, EnsureThread, EnsureFails, SetParams, WriteBool, WritePtr,
       WriteFails, WaitFinishes, WaitTimesOut, ConvertBetween, Other,
       AbortFlag, AbortReturns, AbortWaits, AbortTimesOut, AbortResets,
       AbortRestarts, TerminateWrites, TerminateWriteFails,
       TerminateEnds, TerminateTimesOut, ReadBool, ReadPtr, Misread,
       StartControl, Begin, CalculationEnds, CalculationAborted,
       PerformCommand, StopControl, ClearBusy, Exit
  <1>3. QED
    BY <1>1, <1>2 DEF FlagsType

\* A step cancels at most once.
LEMMA CancelsStep ==
  ASSUME [Next]_vars
  PROVE  cancels' \in {cancels, cancels + 1}
  BY DEF Next, ClientStep, WorkerStep, vars, counts, Cancel,
     Call, EnsureThread, EnsureFails, SetParams, WriteBool, WritePtr,
     WriteFails, WaitFinishes, WaitTimesOut, ConvertBetween, Other,
     AbortFlag, AbortReturns, AbortWaits, AbortTimesOut, AbortResets,
     AbortRestarts, TerminateWrites, TerminateWriteFails,
     TerminateEnds, TerminateTimesOut, ReadBool, ReadPtr, Misread,
     StartControl, Begin, CalculationEnds, CalculationAborted,
     PerformCommand, StopControl, ClearBusy, Exit

\* Faults stay within their bound, cancels are counted.
LEMMA CountsStep ==
  ASSUME CountsType, [Next]_vars
  PROVE  CountsType'
  <1>1. cancels' \in {cancels, cancels + 1}
    BY CancelsStep
  <1>2. faults' = faults \/ (faults < MaxFaults /\ faults' = faults + 1)
    BY DEF Next, ClientStep, WorkerStep, vars, counts, SpawnFails,
       Call, EnsureThread, EnsureFails, SetParams, WriteBool, WritePtr,
       WriteFails, WaitFinishes, WaitTimesOut, ConvertBetween, Other,
       AbortFlag, AbortReturns, AbortWaits, AbortTimesOut, AbortResets,
       AbortRestarts, TerminateWrites, TerminateWriteFails,
       TerminateEnds, TerminateTimesOut, ReadBool, ReadPtr, Misread,
       StartControl, Begin, CalculationEnds, CalculationAborted,
       PerformCommand, StopControl, ClearBusy, Exit
  <1>3. QED
    BY <1>1, <1>2, ThreadAssumption DEF CountsType

\* What is written to the pipe is a message, what is read from a non-empty
\* pipe leaves messages.
LEMMA ChannelStep ==
  ASSUME ChannelType, ClientType, [Next]_vars
  PROVE  ChannelType'
  <1>1. \A b \in BOOLEAN : Bool(b) \in Messages
    BY DEF Messages
  <1>2. \A q \in 0..MaxJobs : Ptr(q) \in Messages
    BY DEF Messages
  <1>3. pipesOpen' \in BOOLEAN
    BY DEF ChannelType, Next, ClientStep, WorkerStep, vars, channel, Terminated,
       Call, EnsureThread, EnsureFails, SetParams, WriteBool, WritePtr,
       WriteFails, WaitFinishes, WaitTimesOut, ConvertBetween, Other,
       AbortFlag, AbortReturns, AbortWaits, AbortTimesOut, AbortResets,
       AbortRestarts, TerminateWrites, TerminateWriteFails,
       TerminateEnds, TerminateTimesOut, ReadBool, ReadPtr, Misread,
       StartControl, Begin, CalculationEnds, CalculationAborted,
       PerformCommand, StopControl, ClearBusy, Exit
  <1>4. pipe' \in Seq(Messages)
    <2>1. CASE UNCHANGED pipe
      BY <2>1 DEF ChannelType
    <2>2. CASE WriteBool
      <3>1. Bool(call.kind = "parse") \in Messages
        BY <1>1
      <3>2. QED
        BY <2>2, <3>1, AppendProperties DEF WriteBool, Post, ChannelType
    <2>3. CASE WritePtr
      BY <2>3, <1>2 DEF WritePtr, Post, ChannelType, ClientType
    <2>4. CASE TerminateWrites
      <3>1. <<Bool(FALSE), Ptr(0)>> \in Seq(Messages)
        <4>1. Bool(FALSE) \in Messages
          BY <1>1
        <4>2. Ptr(0) \in Messages
          BY <1>2, ThreadAssumption
        <4>3. QED
          BY <4>1, <4>2, PairSeq
      <3>2. QED
        BY <2>4, <3>1, ConcatProperties DEF TerminateWrites, ChannelType
    <2>5. CASE TerminateWriteFails
      <3>1. Append(pipe, Bool(FALSE)) \in Seq(Messages)
        <4>1. Bool(FALSE) \in Messages
          BY <1>1
        <4>2. QED
          BY <4>1, AppendProperties DEF ChannelType
      <3>2. pipe' = pipe \/ pipe' = Append(pipe, Bool(FALSE))
        BY <2>5 DEF TerminateWriteFails
      <3>3. QED
        BY <3>1, <3>2 DEF ChannelType
    <2>6. ASSUME NEW w \in Workers, ReadBool(w) \/ ReadPtr(w)
          PROVE  pipe' \in Seq(Messages)
      BY <2>6, HeadTailProperties DEF ReadBool, ReadPtr, Available, ChannelType
    <2>7. QED
      BY <2>1, <2>2, <2>3, <2>4, <2>5, <2>6
         DEF Next, ClientStep, WorkerStep, vars, channel,
         Call, EnsureThread, EnsureFails, SetParams,
         WriteFails, WaitFinishes, WaitTimesOut, ConvertBetween, Other,
         AbortFlag, AbortReturns, AbortWaits, AbortTimesOut, AbortResets,
         AbortRestarts, TerminateEnds, TerminateTimesOut, Misread,
         StartControl, Begin, CalculationEnds, CalculationAborted,
         PerformCommand, StopControl, ClearBusy, Exit
  <1>5. QED
    BY <1>3, <1>4 DEF ChannelType

\* A call in progress is a call, and works on a structure that exists.
LEMMA ClientTypeStep ==
  ASSUME ClientType, [Next]_vars
  PROVE  ClientType'
  <1>1. ASSUME NEW r \in Requests, Call(r)
        PROVE  ClientType'
    <2>1. r \in Calls
      BY ThreadAssumption DEF Request, Calls
    <2>2. /\ cpc' = "ensure" /\ call' = r /\ ret' = ret
          /\ job' = jobs + 1 /\ jobs' = jobs + 1 /\ jobs < MaxJobs
      BY <1>1 DEF Call
    <2>3. jobs + 1 \in 0..MaxJobs /\ jobs + 1 # 0
      BY <2>2, ThreadAssumption DEF ClientType
    <2>4. QED
      BY <2>1, <2>2, <2>3 DEF ClientType, Positions
  <1>2. ASSUME NEW kind \in {"abort", "terminate", "destroy"}, Other(kind)
        PROVE  ClientType'
    <2>1. /\ call' = Plain(kind)
          /\ cpc' \in {"terminate", "abort"}
          /\ UNCHANGED <<job, ret, jobs>>
      BY <1>2 DEF Other
    <2>2. call' \in Calls /\ call'.kind = kind
      BY <2>1 DEF Plain, Calls, Commands
    <2>3. kind \notin Kinds
      BY DEF Kinds
    <2>4. QED
      BY <2>1, <2>2, <2>3 DEF ClientType, Positions
  <1>3. CASE ConvertBetween
    <2>1. CASE call.arg = 0
      <3>1. /\ call' = [call EXCEPT !.arg = 1]
            /\ cpc' = "bool"
            /\ UNCHANGED <<job, ret, jobs>>
        BY <1>3, <2>1 DEF ConvertBetween
      <3>2. call' \in Calls /\ call'.kind = call.kind
        BY <3>1 DEF ClientType, Calls
      <3>3. QED
        BY <3>1, <3>2 DEF ClientType, Positions
    <2>2. CASE call.arg # 0
      BY <1>3, <2>2 DEF ConvertBetween, ClientType, Positions
    <2>3. QED
      BY <2>1, <2>2
  <1>4. CASE /\ UNCHANGED <<call, job, jobs>>
             /\ cpc' \in Positions
             /\ ret' \in {ret, "none", "true", "false"}
    BY <1>4 DEF ClientType
  <1>5. ASSUME ClientStep, ~ConvertBetween
        PROVE  /\ UNCHANGED <<call, job, jobs>>
               /\ cpc' \in Positions
               /\ ret' \in {ret, "none", "true", "false"}
    BY <1>5 DEF ClientStep, Goto, Return, Terminated, AfterAbort, Positions,
       EnsureThread, EnsureFails, SetParams, WriteBool, WritePtr,
       WriteFails, WaitFinishes, WaitTimesOut,
       AbortFlag, AbortReturns, AbortWaits, AbortTimesOut, AbortResets,
       AbortRestarts, TerminateWrites, TerminateWriteFails, TerminateEnds,
       TerminateTimesOut
  <1>6. ASSUME NEW w \in Workers, WorkerStep(w) \/ CalculationEnds(w)
        PROVE  UNCHANGED client
    BY <1>6 DEF WorkerStep, ReadBool, ReadPtr, Misread, StartControl, Begin,
       CalculationEnds, CalculationAborted, PerformCommand, StopControl,
       ClearBusy, Exit
  <1>7. CASE UNCHANGED client
    BY <1>7 DEF client, ClientType
  <1>8. QED
    BY <1>1, <1>2, <1>3, <1>4, <1>5, <1>6, <1>7 DEF Next, vars

\* A worker at work has a structure to work on; only a live worker moves.
LEMMA WorkersStep ==
  ASSUME WorkersType, ChannelType, [Next]_vars
  PROVE  WorkersType'
  <1>1. CASE UNCHANGED workers
    BY <1>1 DEF workers, WorkersType
  <1>2. CASE Spawn
    <2>1. /\ wpc' = [wpc EXCEPT ![spawned + 1] = "bool"]
          /\ spawned' = spawned + 1 /\ spawned < MaxWorkers
          /\ UNCHANGED <<wparse, wjob>>
      BY <1>2 DEF Spawn
    <2>2. wpc' \in [Workers -> WorkerPositions]
      BY <2>1 DEF WorkersType, WorkerPositions, Alive
    <2>3. \A v \in Workers : wpc'[v] \in AtWork => wjob'[v] # 0
      BY <2>1 DEF WorkersType, AtWork, BeforeEnd
    <2>4. spawned' \in 0..MaxWorkers
      BY <2>1, ThreadAssumption DEF WorkersType
    <2>5. QED
      BY <2>1, <2>2, <2>3, <2>4 DEF WorkersType
  <1>3. ASSUME NEW w \in Workers, ReadBool(w)
        PROVE  WorkersType'
    BY <1>3 DEF ReadBool, WorkerGoto, WorkersType, WorkerPositions, Alive,
       AtWork, BeforeEnd
  <1>4. ASSUME NEW w \in Workers, ReadPtr(w)
        PROVE  WorkersType'
    <2> DEFINE p == Head(pipe).val
    <2>1. /\ wjob' = [wjob EXCEPT ![w] = p]
          /\ wpc' = [wpc EXCEPT ![w] = IF p = 0 THEN "exit" ELSE "control"]
          /\ UNCHANGED <<wparse, spawned>>
      BY <1>4 DEF ReadPtr, WorkerGoto, AfterPointer
    <2>2. p \in 0..MaxJobs
      <3>1. Head(pipe) \in Messages /\ Head(pipe).type = "ptr"
        BY <1>4, HeadTailProperties DEF ReadPtr, Available, ChannelType
      <3>2. QED
        BY <3>1 DEF Messages, Bool, Ptr
    <2>3. wpc' \in [Workers -> WorkerPositions] /\ wjob' \in [Workers -> 0..MaxJobs]
      BY <2>1, <2>2 DEF WorkersType, WorkerPositions, Alive, AtWork, BeforeEnd
    <2>4. \A v \in Workers : wpc'[v] \in AtWork => wjob'[v] # 0
      BY <2>1 DEF WorkersType, AtWork, BeforeEnd
    <2>5. QED
      BY <2>1, <2>3, <2>4 DEF WorkersType
  <1>5. ASSUME NEW w \in Workers,
               Misread(w) \/ ClearBusy(w) \/ Exit(w)
        PROVE  WorkersType'
    BY <1>5 DEF Misread, ClearBusy, Exit, WorkerGoto, WorkersType,
       WorkerPositions, Alive, AtWork, BeforeEnd
  <1>6. ASSUME NEW w \in Workers,
               \/ StartControl(w) \/ Begin(w) \/ CalculationEnds(w)
               \/ CalculationAborted(w) \/ PerformCommand(w) \/ StopControl(w)
        PROVE  WorkersType'
    BY <1>6 DEF StartControl, Begin, CalculationEnds, CalculationAborted,
       PerformCommand, StopControl, WorkerGoto, WorkersType,
       WorkerPositions, Alive, AtWork, BeforeEnd
  <1>7. QED
    BY <1>1, <1>2, <1>3, <1>4, <1>5, <1>6
       DEF Next, ClientStep, WorkerStep, vars, workers, SpawnFails,
         Call, EnsureThread, EnsureFails, SetParams, WriteBool, WritePtr,
         WriteFails, WaitFinishes, WaitTimesOut, ConvertBetween, Other,
         AbortFlag, AbortReturns, AbortWaits, AbortTimesOut, AbortResets,
         AbortRestarts, TerminateWrites, TerminateWriteFails, TerminateEnds,
         TerminateTimesOut

\* The parameters, the structures and the RPN stack keep their types.
LEMMA StoreStep ==
  ASSUME StoreType, ClientType, WorkersType, [Next]_vars
  PROVE  StoreType'
  <1>1. CASE UNCHANGED store
    BY <1>1 DEF store, StoreType
  <1>2. CASE SetParams
    <2>1. NextExpr \in 0..MaxJobs /\ NextRpn \in 0..MaxJobs
      BY ThreadAssumption DEF NextExpr, NextRpn, ClientType, StoreType, TmpType
    <2>2. job \in 0..MaxJobs /\ call.cmd \in Commands /\ call.arg \in Int
      BY DEF ClientType, Calls
    <2>3. tmp' \in TmpType
      BY <1>2, <2>1, <2>2 DEF SetParams, TmpType
    <2>4. QED
      BY <1>2, <2>3 DEF SetParams, StoreType
  <1>3. CASE /\ UNCHANGED <<tmp, rpn, freed>>
             /\ \/ UNCHANGED value
                \/ MarkAborted
    BY <1>3 DEF MarkAborted, StoreType
  <1>4. CASE AbortResets
    <2>1. tmp.rpn \in 0..MaxJobs /\ 0 \in 0..MaxJobs
      BY ThreadAssumption DEF StoreType, TmpType
    <2>2. freed' \subseteq 0..MaxJobs
      BY <1>4, <2>1 DEF AbortResets, StoreType
    <2>3. tmp' \in TmpType
      BY <1>4, <2>1 DEF AbortResets, StoreType, TmpType
    <2>4. QED
      BY <1>4, <2>2, <2>3 DEF AbortResets, StoreType
  <1>5. ASSUME NEW w \in Workers, Begin(w) \/ CalculationEnds(w)
        PROVE  StoreType'
    BY <1>5 DEF Begin, CalculationEnds, StoreType
  <1>6. ASSUME NEW w \in Workers, PerformCommand(w)
        PROVE  StoreType'
    <2>1. /\ rpn' = Perform(rpn, tmp.cmd, tmp.arg, wjob[w])
          /\ freed' = freed \cup (ToSet(rpn) \ ToSet(rpn'))
          /\ UNCHANGED <<tmp, value>>
      BY <1>6 DEF PerformCommand
    <2>2. tmp.cmd \in Commands /\ tmp.arg \in Int /\ wjob[w] \in 0..MaxJobs
      BY DEF StoreType, TmpType, WorkersType
    <2>3. rpn' \in Seq(0..MaxJobs)
      BY <2>1, <2>2, PerformType DEF StoreType
    <2>4. ToSet(rpn) \subseteq 0..MaxJobs
      <3>1. rpn \in Seq(0..MaxJobs) /\ ToSet(rpn) = {rpn[i] : i \in DOMAIN rpn}
        BY DEF StoreType, ToSet
      <3>2. \A i \in DOMAIN rpn : rpn[i] \in 0..MaxJobs
        BY <3>1, LenProperties, ElementOfSeq
      <3>3. QED
        BY <3>1, <3>2
    <2>5. QED
      BY <2>1, <2>3, <2>4 DEF StoreType
  <1>7. QED
    BY <1>1, <1>2, <1>3, <1>4, <1>5, <1>6
       DEF Next, ClientStep, WorkerStep, vars, store, AfterAbort,
         Call, EnsureThread, EnsureFails, WriteBool, WritePtr,
         WriteFails, WaitFinishes, WaitTimesOut, ConvertBetween, Other,
         AbortFlag, AbortReturns, AbortWaits, AbortTimesOut,
         AbortRestarts, TerminateWrites, TerminateWriteFails, TerminateEnds,
         TerminateTimesOut, ReadBool, ReadPtr, Misread, StartControl,
         CalculationAborted, StopControl, ClearBusy, Exit

\* The types hold initially.
LEMMA TypeInit == Init => TypeOK
  <1> SUFFICES ASSUME Init
               PROVE  TypeOK
    OBVIOUS
  <1>1. FlagsType /\ ChannelType
    <2>1. FlagsType
      BY DEF Init, FlagsType
    <2>2. pipe = <<>> /\ pipesOpen = TRUE
      BY DEF Init
    <2>3. pipe \in Seq(Messages)
      BY <2>2, EmptySeq
    <2>4. QED
      BY <2>1, <2>2, <2>3 DEF ChannelType
  <1>2. StoreType
    BY ThreadAssumption DEF Init, StoreType, TmpType, Commands
  <1>3. ClientType
    BY ThreadAssumption DEF Init, ClientType, Plain, Calls, Commands, Positions, Kinds
  <1>4. WorkersType
    BY ThreadAssumption DEF Init, WorkersType, WorkerPositions, Alive, AtWork, BeforeEnd
  <1>5. CountsType
    BY ThreadAssumption DEF Init, CountsType
  <1>6. QED
    BY <1>1, <1>2, <1>3, <1>4, <1>5 DEF TypeOK

\* Whatever the interleaving, forced stops included, the members keep their
\* types and no worker works on the null pointer.
THEOREM Typing == Spec => []TypeOK
  <1>1. TypeOK /\ [Next]_vars => TypeOK'
    BY FlagsStep, StoreStep, ChannelStep, ClientTypeStep, WorkersStep, CountsStep
       DEF TypeOK
  <1>2. QED
    BY <1>1, TypeInit, PTL DEF Spec
-----------------------------------------------------------------------------
(* The handshake.                                                          *)

\* Taking short sequences apart and putting them together.
LEMMA Pieces ==
  ASSUME NEW x, NEW y
  PROVE  /\ Append(<<>>, x) = <<x>> /\ Append(<<x>>, y) = <<x, y>>
         /\ <<>> \o <<x, y>> = <<x, y>>
         /\ <<x>> # <<>> /\ Head(<<x>>) = x /\ Tail(<<x>>) = <<>>
         /\ <<x, y>> # <<>> /\ Head(<<x, y>>) = x /\ Tail(<<x, y>>) = <<y>>
  <1> DEFINE S == {x, y}
  <1>1. Append(<<>>, x) = <<x>> /\ Append(<<x>>, y) = <<x, y>>
    <2>1. Append(<<>>, x) = <<x>>
      OBVIOUS
    <2>2. Append(<<x>>, y) = <<x, y>>
      <3>1. <<x>> \in Seq(S) /\ <<x, y>> \in Seq(S) /\ y \in S
        OBVIOUS
      <3>2. Append(<<x>>, y) \in Seq(S) /\ Len(Append(<<x>>, y)) = 2
        BY <3>1, AppendProperties
      <3>3. Append(<<x>>, y)[1] = x /\ Append(<<x>>, y)[2] = y
        BY <3>1, AppendProperties
      <3>4. Len(<<x, y>>) = 2 /\ \A i \in 1..2 : i = 1 \/ i = 2
        OBVIOUS
      <3>5. \A i \in 1..2 : Append(<<x>>, y)[i] = <<x, y>>[i]
        BY <3>3, <3>4
      <3>6. QED
        BY <3>1, <3>2, <3>4, <3>5, SeqEqual
    <2>3. QED
      BY <2>1, <2>2
  <1>2. <<>> \o <<x, y>> = <<x, y>>
    OBVIOUS
  <1>3. <<x>> # <<>> /\ <<x, y>> # <<>>
    OBVIOUS
  <1>4. Head(<<x>>) = x /\ Head(<<x, y>>) = x
    OBVIOUS
  <1>5. Tail(<<x>>) = <<>>
    OBVIOUS
  <1>6. Tail(<<x, y>>) = <<y>>
    OBVIOUS
  <1>7. QED
    BY <1>1, <1>2, <1>3, <1>4, <1>5, <1>6

\* A worker that is alive is the last one, and then running is set.
LEMMA LiveIsLast ==
  ASSUME TypeOK, Roster, NEW w \in Workers, wpc[w] \in Alive
  PROVE  w = spawned /\ running
  BY ThreadAssumption DEF TypeOK, WorkersType, Roster, Alive, AtWork, BeforeEnd, Workers

\* A new worker takes its place after all the dead ones.
LEMMA SpawnRoster ==
  ASSUME TypeOK, Roster, ~running, Spawn
  PROVE  Roster' /\ running' /\ wpc'[spawned'] = "bool"
  <1>1. spawned \in Nat /\ spawned + 1 \in Workers
    BY ThreadAssumption DEF TypeOK, WorkersType, Spawn, Workers
  <1>2. /\ wpc' = [wpc EXCEPT ![spawned + 1] = "bool"]
        /\ spawned' = spawned + 1 /\ running' = TRUE
    BY DEF Spawn
  <1>3. wpc'[spawned'] = "bool"
    BY <1>1, <1>2 DEF TypeOK, WorkersType
  <1>4. \A w \in Workers : w > spawned' => wpc'[w] = "none"
    BY <1>1, <1>2 DEF TypeOK, WorkersType, Roster, Workers
  <1>5. \A w \in Workers : w < spawned' => wpc'[w] = "dead"
    <2> SUFFICES ASSUME NEW w \in Workers, w < spawned'
                 PROVE  wpc'[w] = "dead"
      OBVIOUS
    <2>1. wpc'[w] = wpc[w] /\ (w < spawned \/ w = spawned)
      BY <1>1, <1>2 DEF TypeOK, WorkersType, Workers
    <2>2. wpc[spawned] \in Alive => running
      BY <1>1, <2>1 DEF Roster, Workers
    <2>3. QED
      BY <1>1, <2>1, <2>2 DEF Roster, Workers
  <1>6. QED
    BY <1>1, <1>2, <1>3, <1>4, <1>5 DEF Roster, Alive

\* A worker that goes on stays in its place.
LEMMA MoveRoster ==
  ASSUME TypeOK, Roster, NEW w \in Workers, w = spawned, running,
         NEW l \in Alive, wpc' = [wpc EXCEPT ![w] = l], UNCHANGED <<running, spawned>>
  PROVE  Roster' /\ wpc'[spawned'] = l
  BY DEF TypeOK, WorkersType, Roster, Workers

\* The client's steps that neither create a thread nor write to the pipe.
LEMMA ClientSteady ==
  ASSUME TypeOK, Steady, UNCHANGED cancels,
         \/ WaitFinishes \/ WaitTimesOut \/ ConvertBetween \/ AbortFlag
         \/ AbortReturns \/ AbortWaits \/ TerminateEnds
  PROVE  Steady'
  <1>1. CASE WaitFinishes
    <2>1. UNCHANGED <<running, controlled, workers>>
      BY <1>1 DEF WaitFinishes, flags
    <2>2. Roster' /\ Control'
      BY <2>1 DEF Steady, Roster, Control, workers
    <2>3. Phase' /\ Parameters'
      BY <1>1 DEF WaitFinishes, Goto, Return, Steady, Phase, Parameters, Empty, Half, Posted, Ending,
         flags, store, channel, workers
    <2>4. QED
      BY <2>2, <2>3 DEF Steady
  <1>2. CASE WaitTimesOut
    <2>1. UNCHANGED <<running, controlled, workers>>
      BY <1>2 DEF WaitTimesOut, flags
    <2>2. Roster' /\ Control'
      BY <2>1 DEF Steady, Roster, Control, workers
    <2>3. Phase' /\ Parameters'
      BY <1>2 DEF WaitTimesOut, Goto, Steady, Phase, Parameters, Empty, Half, Posted, Ending,
         flags, store, channel, workers
    <2>4. QED
      BY <2>2, <2>3 DEF Steady
  <1>3. CASE ConvertBetween
    <2>1. UNCHANGED <<running, controlled, workers>>
      BY <1>3 DEF ConvertBetween, flags
    <2>2. Roster' /\ Control'
      BY <2>1 DEF Steady, Roster, Control, workers
    <2>3. Phase' /\ Parameters'
      <3>1. call'.kind = call.kind /\ call'.timed = call.timed
        BY <1>3 DEF ConvertBetween, TypeOK, ClientType, Calls
      <3>2. QED
        BY <1>3, <3>1 DEF ConvertBetween, Steady, Phase, Parameters, Empty, Half,
           Posted, Ending, flags, store, channel, workers
    <2>4. QED
      BY <2>2, <2>3 DEF Steady
  <1>4. CASE AbortFlag
    <2>1. UNCHANGED <<running, controlled, workers>>
      BY <1>4 DEF AbortFlag, flags
    <2>2. Roster' /\ Control'
      BY <2>1 DEF Steady, Roster, Control, workers
    <2>3. Phase' /\ Parameters'
      BY <1>4 DEF AbortFlag, Goto, Steady, Phase, Parameters, Empty, Half, Posted, Ending,
         flags, store, channel, workers
    <2>4. QED
      BY <2>2, <2>3 DEF Steady
  <1>5. CASE AbortReturns
    <2>1. UNCHANGED <<running, controlled, workers>>
      BY <1>5 DEF AbortReturns, flags
    <2>2. Roster' /\ Control'
      BY <2>1 DEF Steady, Roster, Control, workers
    <2>3. Phase' /\ Parameters'
      BY <1>5 DEF AbortReturns, AfterAbort, Goto, Return, Steady, Phase, Parameters, Empty, Half, Posted, Ending,
         flags, store, channel, workers
    <2>4. QED
      BY <2>2, <2>3 DEF Steady
  <1>6. CASE AbortWaits
    <2>1. UNCHANGED <<running, controlled, workers>>
      BY <1>6 DEF AbortWaits, flags
    <2>2. Roster' /\ Control'
      BY <2>1 DEF Steady, Roster, Control, workers
    <2>3. Phase' /\ Parameters'
      BY <1>6 DEF AbortWaits, Goto, Steady, Phase, Parameters, Empty, Half, Posted, Ending,
         flags, store, channel, workers
    <2>4. QED
      BY <2>2, <2>3 DEF Steady
  <1>7. CASE TerminateEnds
    <2>1. UNCHANGED <<running, controlled, workers>>
      BY <1>7 DEF TerminateEnds, flags
    <2>2. Roster' /\ Control'
      BY <2>1 DEF Steady, Roster, Control, workers
    <2>3. Phase' /\ Parameters'
      BY <1>7 DEF TerminateEnds, ThreadEnded, Terminated, Goto, Return, Steady, Phase, Parameters, Empty, Half, Posted, Ending,
         flags, store, channel, workers
    <2>4. QED
      BY <2>2, <2>3 DEF Steady
  <1>8. QED
    BY <1>1, <1>2, <1>3, <1>4, <1>5, <1>6, <1>7

\* The calls themselves, and the steps that would cancel a running thread.
LEMMA CallSteady ==
  ASSUME TypeOK, TimedConversions, Steady, UNCHANGED cancels,
         \/ \E r \in Requests : Call(r)
         \/ \E kind \in {"abort", "terminate", "destroy"} : Other(kind)
         \/ EnsureFails \/ SetParams
         \/ WriteFails \/ AbortTimesOut \/ AbortResets \/ AbortRestarts
         \/ TerminateWriteFails \/ TerminateTimesOut
  PROVE  Steady'
  <1>1. ASSUME NEW r \in Requests, Call(r)
        PROVE  Steady'
    <2>1. UNCHANGED <<running, controlled, workers>>
      BY <1>1 DEF Call
    <2>2. Roster' /\ Control'
      BY <2>1 DEF Steady, Roster, Control, workers
    <2>3. r.kind \in Kinds /\ (r.kind = "convert" => r.timed)
      BY ThreadAssumption DEF Request, TimedConversions
    <2>4. Phase' /\ Parameters'
      BY <1>1, <2>3 DEF Call, Steady, Phase, Parameters, Empty, Half, Posted, Ending,
         store, channel, workers
    <2>5. QED
      BY <2>2, <2>4 DEF Steady
  <1>2. ASSUME NEW kind \in {"abort", "terminate", "destroy"}, Other(kind)
        PROVE  Steady'
    <2>1. UNCHANGED <<running, controlled, workers>>
      BY <1>2 DEF Other, flags
    <2>2. Roster' /\ Control'
      BY <2>1 DEF Steady, Roster, Control, workers
    <2>3. Phase' /\ Parameters'
      BY <1>2 DEF Other, Plain, Steady, Phase, Parameters, Empty, Half, Posted, Ending,
         flags, store, channel, workers
    <2>4. QED
      BY <2>2, <2>3 DEF Steady
  <1>3. CASE EnsureFails
    <2>1. UNCHANGED <<running, controlled, workers>>
      BY <1>3 DEF EnsureFails, SpawnFails, flags
    <2>2. Roster' /\ Control'
      BY <2>1 DEF Steady, Roster, Control, workers
    <2>3. Phase' /\ Parameters'
      BY <1>3 DEF EnsureFails, Return, SpawnFails, NeedsThread, Steady, Phase, Parameters, Empty, Half, Posted, Ending,
         flags, store, channel, workers
    <2>4. QED
      BY <2>2, <2>3 DEF Steady
  <1>4. CASE SetParams
    <2>1. UNCHANGED <<running, controlled, workers>>
      BY <1>4 DEF SetParams, flags
    <2>2. Roster' /\ Control'
      BY <2>1 DEF Steady, Roster, Control, workers
    <2>3. Phase' /\ Parameters'
      BY <1>4 DEF SetParams, Goto, NextExpr, NextRpn, Steady, Phase, Parameters, Empty, Half, Posted, Ending,
         flags, store, channel, workers
    <2>4. QED
      BY <2>2, <2>3 DEF Steady
  <1>5. ~WriteFails /\ ~AbortTimesOut /\ ~TerminateWriteFails /\ ~TerminateTimesOut
    <2>1. cancels # cancels + 1
      BY DEF TypeOK, CountsType
    <2>2. ~(Cancel /\ running)
      BY <2>1 DEF Cancel
    <2>3. cpc \in {"bool", "ptr", "abortWait"} => running
      BY DEF Steady, Phase, Half
    <2>4. QED
      BY <2>2, <2>3 DEF WriteFails, AbortTimesOut, TerminateWriteFails, TerminateTimesOut
  <1>6. ~AbortResets /\ ~AbortRestarts
    BY DEF AbortResets, AbortRestarts, Steady, Phase
  <1>7. QED
    BY <1>1, <1>2, <1>3, <1>4, <1>5, <1>6

\* The client's steps that create a thread or write to its pipe.
LEMMA PostSteady ==
  ASSUME TypeOK, Steady, UNCHANGED cancels,
         EnsureThread \/ WriteBool \/ WritePtr \/ TerminateWrites
  PROVE  Steady'
  <1>1. CASE EnsureThread
    <2>1. CASE running
      <3>1. UNCHANGED <<running, controlled, workers>>
        BY <1>1, <2>1 DEF EnsureThread, NeedsThread
      <3>2. Roster' /\ Control'
        BY <3>1 DEF Steady, Roster, Control, workers
      <3>3. Phase' /\ Parameters'
        BY <1>1, <2>1, <3>1 DEF EnsureThread, Goto, Steady, Phase, Parameters, Empty,
           Half, Posted, Ending, store, channel, workers
      <3>4. QED
        BY <3>2, <3>3 DEF Steady
    <2>2. CASE ~running
      <3>1. Spawn
        BY <1>1, <2>2 DEF EnsureThread, NeedsThread
      <3>2. Roster' /\ running' /\ wpc'[spawned'] = "bool"
        BY <2>2, <3>1, SpawnRoster DEF Steady
      <3>3. ~controlled'
        BY <1>1, <2>2 DEF EnsureThread, Steady, Control
      <3>4. Phase' /\ Parameters' /\ Control'
        BY <1>1, <2>2, <3>2, <3>3 DEF EnsureThread, Goto, Steady, Phase, Parameters,
           Control, Empty, Half, Posted, Ending, store, channel
      <3>5. QED
        BY <3>2, <3>4 DEF Steady
    <2>3. QED
      BY <2>1, <2>2
  <1>2. CASE WriteBool
    <2>1. UNCHANGED <<running, controlled, workers>>
      BY <1>2 DEF WriteBool, flags
    <2>2. Roster' /\ Control'
      BY <2>1 DEF Steady, Roster, Control, workers
    <2>3. pipe = <<>> /\ pipe' = <<Bool(call.kind = "parse")>>
      BY <1>2, Pieces DEF WriteBool, Post, Steady, Phase, Empty
    <2>4. Phase' /\ Parameters'
      BY <1>2, <2>3 DEF WriteBool, Goto, Steady, Phase, Parameters, Empty, Half,
         flags, store, channel, workers
    <2>5. QED
      BY <2>2, <2>4 DEF Steady
  <1>3. CASE WritePtr
    <2>1. UNCHANGED <<running, controlled, workers>>
      BY <1>3 DEF WritePtr, flags
    <2>2. Roster' /\ Control'
      BY <2>1 DEF Steady, Roster, Control, workers
    <2>3. Half /\ busy /\ tmp.opts = job /\ job # 0 /\ (call.kind = "parse" => tmp.expr = job)
      BY <1>3 DEF WritePtr, Steady, Phase, Parameters, TypeOK, ClientType
    <2>4. Posted'
      <3>1. UNCHANGED <<running, tmp, job, spawned, wpc, wparse, wjob>>
        BY <1>3 DEF WritePtr, flags, store, workers, Goto, Return
      <3>2. \/ wpc[spawned] = "bool" /\ pipe' = <<Bool(call.kind = "parse"), Ptr(job)>>
            \/ /\ wpc[spawned] = "ptr" /\ pipe' = <<Ptr(job)>>
               /\ wparse[spawned] = (call.kind = "parse")
        <4> DEFINE b == Bool(call.kind = "parse")
                   p == Ptr(job)
        <4>1. Append(<<b>>, p) = <<b, p>> /\ Append(<<>>, p) = <<p>>
          BY Pieces, ZenonT(60)
        <4>2. pipe' = Append(pipe, p)
          BY <1>3 DEF WritePtr, Post
        <4>3. QED
          BY <2>3, <4>1, <4>2 DEF Half
      <3>3. QED
        BY <2>3, <3>1, <3>2 DEF Posted, Half
    <2>5. Phase' /\ Parameters'
      BY <1>3, <2>3, <2>4 DEF WritePtr, Goto, Return, Steady, Phase, Parameters, Half,
         flags, store, channel, workers
    <2>6. QED
      BY <2>2, <2>5 DEF Steady
  <1>4. CASE TerminateWrites
    <2>1. UNCHANGED <<running, controlled, workers>>
      BY <1>4 DEF TerminateWrites, flags
    <2>2. Roster' /\ Control'
      BY <2>1 DEF Steady, Roster, Control, workers
    <2>3. /\ pipe = <<>> /\ running /\ wpc[spawned] = "bool" /\ ~busy
          /\ pipe' = <<Bool(FALSE), Ptr(0)>>
      <3>1. <<>> \o <<Bool(FALSE), Ptr(0)>> = <<Bool(FALSE), Ptr(0)>>
        BY Pieces
      <3>2. QED
        BY <1>4, <3>1 DEF TerminateWrites, Steady, Phase, Empty
    <2>4. Ending'
      BY <1>4, <2>3 DEF TerminateWrites, Ending, flags, workers
    <2>5. Phase' /\ Parameters'
      BY <1>4, <2>3, <2>4 DEF TerminateWrites, Goto, Steady, Phase, Parameters,
         flags, store, channel, workers
    <2>6. QED
      BY <2>2, <2>5 DEF Steady
  <1>5. QED
    BY <1>1, <1>2, <1>3, <1>4

\* The worker's steps: the bool and the pointer travel from the pipe to it,
\* the rest happens in between.
LEMMA WorkerSteady ==
  ASSUME TypeOK, Steady, UNCHANGED cancels, NEW w \in Workers,
         WorkerStep(w) \/ CalculationEnds(w)
  PROVE  Steady'
  <1>1. /\ cpc' = cpc /\ call' = call /\ job' = job /\ tmp' = tmp
        /\ spawned' = spawned /\ pipesOpen' = pipesOpen
    BY DEF WorkerStep, WorkerGoto, ReadBool, ReadPtr, Misread, StartControl, Begin,
       CalculationEnds, CalculationAborted, PerformCommand, StopControl, ClearBusy,
       Exit, client, store, channel
  <1>2. Parameters'
    BY <1>1 DEF Parameters, Steady
  <1>3. wpc[w] \in Alive \cup {"undefined"}
    BY DEF WorkerStep, ReadBool, ReadPtr, Misread, StartControl, Begin,
       CalculationEnds, CalculationAborted, PerformCommand, StopControl, ClearBusy,
       Exit, Alive, AtWork, BeforeEnd
  <1>4. w = spawned /\ running
    <2>1. wpc[w] \in Alive
      BY DEF WorkerStep, ReadBool, ReadPtr, Misread, StartControl, Begin,
         CalculationEnds, CalculationAborted, PerformCommand, StopControl, ClearBusy,
         Exit, Alive, AtWork, BeforeEnd
    <2>2. QED
      BY <2>1, LiveIsLast DEF Steady
  <1>5. CASE ReadBool(w)
    <2>1. /\ wpc[w] = "bool" /\ pipe # <<>> /\ pipe' = Tail(pipe) /\ wjob' = wjob
          /\ wpc' = [wpc EXCEPT ![w] = "ptr"] /\ wparse' = [wparse EXCEPT ![w] = Head(pipe).val = 1]
          /\ UNCHANGED flags
      BY <1>5 DEF ReadBool, Available, WorkerGoto
    <2>2. Roster' /\ wpc'[w] = "ptr"
      BY <1>1, <1>4, <2>1, MoveRoster DEF Steady, Alive, flags
    <2>3. Control'
      BY <1>1, <1>4, <2>1 DEF Control, Steady, flags
    <2>4. wparse'[w] = (Head(pipe).val = 1)
      BY <2>1 DEF TypeOK, WorkersType
    <2>5. \A b \in BOOLEAN : (Bool(b).val = 1) = b
      BY DEF Bool
    <2>6. \A b \in BOOLEAN : pipe = <<Bool(b)>> => wparse'[w] = b /\ pipe' = <<>>
      <3> SUFFICES ASSUME NEW b \in BOOLEAN, pipe = <<Bool(b)>>
                   PROVE  wparse'[w] = b /\ pipe' = <<>>
        OBVIOUS
      <3>1. Head(<<Bool(b)>>) = Bool(b) /\ Tail(<<Bool(b)>>) = <<>>
        BY Pieces
      <3>2. QED
        BY <2>1, <2>4, <2>5, <3>1
    <2>7. \A b \in BOOLEAN, q \in 0..MaxJobs : pipe = <<Bool(b), Ptr(q)>> =>
             wparse'[w] = b /\ pipe' = <<Ptr(q)>>
      <3> SUFFICES ASSUME NEW b \in BOOLEAN, NEW q \in 0..MaxJobs, pipe = <<Bool(b), Ptr(q)>>
                   PROVE  wparse'[w] = b /\ pipe' = <<Ptr(q)>>
        OBVIOUS
      <3>1. Head(<<Bool(b), Ptr(q)>>) = Bool(b) /\ Tail(<<Bool(b), Ptr(q)>>) = <<Ptr(q)>>
        BY Pieces
      <3>2. QED
        BY <2>1, <2>4, <2>5, <3>1
    <2>8. Half => Half'
      <3>1. (call.kind = "parse") \in BOOLEAN
        OBVIOUS
      <3>2. QED
        BY <1>1, <1>4, <2>1, <2>2, <2>6, <3>1 DEF Half, flags
    <2>9. Posted => Posted'
      <3>1. tmp.opts \in 0..MaxJobs
        BY DEF TypeOK, StoreType, TmpType
      <3>2. QED
        BY <1>1, <1>4, <2>1, <2>2, <2>7, <3>1 DEF Posted, flags, AtWork, BeforeEnd
    <2>10. Ending => Ending'
      <3>1. 0 \in 0..MaxJobs
        BY ThreadAssumption
      <3>2. QED
        BY <1>1, <1>4, <2>1, <2>2, <2>7, <3>1 DEF Ending, flags
    <2>11. ~Empty
      BY <2>1 DEF Empty
    <2>12. Phase'
      BY <1>1, <1>4, <2>1, <2>8, <2>9, <2>10, <2>11 DEF Phase, Steady, flags
    <2>13. QED
      BY <1>2, <2>2, <2>3, <2>12 DEF Steady
  <1>6. CASE ReadPtr(w)
    <2> DEFINE p == Head(pipe).val
    <2>1. /\ wpc[w] = "ptr" /\ pipe # <<>> /\ pipe' = Tail(pipe) /\ wparse' = wparse
          /\ wpc' = [wpc EXCEPT ![w] = AfterPointer(p)] /\ wjob' = [wjob EXCEPT ![w] = p]
          /\ UNCHANGED flags
      BY <1>6 DEF ReadPtr, Available, WorkerGoto
    <2>2. AfterPointer(p) \in Alive
      BY DEF AfterPointer, Alive, AtWork, BeforeEnd
    <2>3. Roster' /\ wpc'[w] = AfterPointer(p)
      BY <1>1, <1>4, <2>1, <2>2, MoveRoster DEF Steady, flags
    <2>4. Control'
      BY <1>1, <1>4, <2>1 DEF Control, Steady, flags
    <2>5. \A q \in 0..MaxJobs : pipe = <<Ptr(q)>> => wjob'[w] = q /\ p = q /\ pipe' = <<>>
      <3> SUFFICES ASSUME NEW q \in 0..MaxJobs, pipe = <<Ptr(q)>>
                   PROVE  wjob'[w] = q /\ p = q /\ pipe' = <<>>
        OBVIOUS
      <3>1. Head(<<Ptr(q)>>) = Ptr(q) /\ Tail(<<Ptr(q)>>) = <<>>
        BY Pieces
      <3>2. Ptr(q).val = q
        BY DEF Ptr
      <3>3. wjob'[w] = p
        BY <2>1 DEF TypeOK, WorkersType
      <3>4. QED
        BY <2>1, <3>1, <3>2, <3>3
    <2>6. ~Empty /\ ~Half
      BY <1>4, <2>1 DEF Empty, Half
    <2>7. Posted => Posted'
      <3>1. tmp.opts \in 0..MaxJobs
        BY DEF TypeOK, StoreType, TmpType
      <3>2. QED
        BY <1>1, <1>4, <2>1, <2>3, <2>5, <3>1
           DEF Posted, flags, AfterPointer, AtWork, BeforeEnd
    <2>8. Ending => Ending'
      <3>1. 0 \in 0..MaxJobs
        BY ThreadAssumption
      <3>2. QED
        BY <1>1, <1>4, <2>1, <2>3, <2>5, <3>1 DEF Ending, flags, AfterPointer
    <2>9. Phase'
      BY <1>1, <1>4, <2>1, <2>6, <2>7, <2>8 DEF Phase, Steady, flags
    <2>10. QED
      BY <1>2, <2>3, <2>4, <2>9 DEF Steady
  <1>7. ~Misread(w)
    <2> SUFFICES ASSUME Misread(w)
                 PROVE  FALSE
      OBVIOUS
    <2>1. /\ pipe # <<>>
          /\ \/ wpc[w] = "bool" /\ Head(pipe).type = "ptr"
             \/ wpc[w] = "ptr" /\ Head(pipe).type = "bool"
      BY DEF Misread, Available
    <2>2. Half \/ Posted \/ Ending
      BY <1>4, <2>1 DEF Steady, Phase, Empty, TypeOK, ClientType, Positions
    <2>3. \/ \E b \in BOOLEAN : wpc[w] = "bool" /\ pipe = <<Bool(b)>>
          \/ \E b \in BOOLEAN, q \in Int : wpc[w] = "bool" /\ pipe = <<Bool(b), Ptr(q)>>
          \/ \E q \in Int : wpc[w] = "ptr" /\ pipe = <<Ptr(q)>>
      <3>1. tmp.opts \in Int /\ 0 \in Int
        BY ThreadAssumption DEF TypeOK, StoreType, TmpType
      <3>2. (call.kind = "parse") \in BOOLEAN /\ FALSE \in BOOLEAN
        OBVIOUS
      <3>3. CASE Half
        BY <1>4, <2>1, <3>2, <3>3 DEF Half
      <3>4. CASE Posted
        BY <1>4, <2>1, <3>1, <3>4 DEF Posted
      <3>5. CASE Ending
        BY <1>4, <2>1, <3>1, <3>2, <3>5 DEF Ending
      <3>6. QED
        BY <2>2, <3>3, <3>4, <3>5
    <2>4. \A b \in BOOLEAN, q \in Int :
             /\ Head(<<Bool(b)>>) = Bool(b) /\ Head(<<Ptr(q)>>) = Ptr(q)
             /\ Head(<<Bool(b), Ptr(q)>>) = Bool(b)
      BY Pieces
    <2>5. \A b \in BOOLEAN, q \in Int : Bool(b).type = "bool" /\ Ptr(q).type = "ptr"
      BY DEF Bool, Ptr
    <2>6. \A b \in BOOLEAN : ~(wpc[w] = "bool" /\ pipe = <<Bool(b)>>)
      BY <2>1, <2>4, <2>5, 0 \in Int
    <2>7. \A b \in BOOLEAN, q \in Int : ~(wpc[w] = "bool" /\ pipe = <<Bool(b), Ptr(q)>>)
      BY <2>1, <2>4, <2>5
    <2>8. \A q \in Int : ~(wpc[w] = "ptr" /\ pipe = <<Ptr(q)>>)
      BY <2>1, <2>4, <2>5, TRUE \in BOOLEAN
    <2>9. QED
      BY <2>3, <2>6, <2>7, <2>8
  <1>8. ASSUME NEW l \in AtWork, wpc[w] \in AtWork \ {"clear"},
               wpc' = [wpc EXCEPT ![w] = l],
               UNCHANGED <<busy, running, pipe, wparse, wjob>>,
               controlled' => l \in {"begin", "calc", "command", "stop"}
        PROVE  Steady'
    <2>1. l \in Alive
      BY DEF Alive
    <2>2. Roster' /\ wpc'[w] = l
      BY <1>1, <1>4, <1>8, <2>1, MoveRoster DEF Steady
    <2>3. Control'
      BY <1>1, <1>4, <1>8, <2>2 DEF Control
    <2>4. ~Empty /\ ~Half /\ ~Ending
      BY <1>4, <1>8 DEF Empty, Half, Ending, AtWork, BeforeEnd
    <2>5. Posted => Posted'
      BY <1>1, <1>4, <1>8, <2>2 DEF Posted, AtWork, BeforeEnd
    <2>6. Phase'
      BY <1>1, <1>4, <1>8, <2>4, <2>5 DEF Phase, Steady
    <2>7. QED
      BY <1>2, <2>2, <2>3, <2>6 DEF Steady
  <1>9. CASE StartControl(w) \/ StopControl(w)
    BY <1>8, <1>9 DEF StartControl, StopControl, startControl, stopControl, WorkerGoto,
       channel, AtWork, BeforeEnd
  <1>10. CASE Begin(w) \/ CalculationEnds(w) \/ CalculationAborted(w) \/ PerformCommand(w)
    <2>1. controlled => wpc[w] \in {"begin", "calc", "command", "stop"}
      BY <1>4 DEF Steady, Control
    <2>2. QED
      BY <1>8, <1>10, <2>1 DEF Begin, CalculationEnds, CalculationAborted, PerformCommand,
         WorkerGoto, flags, channel, AtWork, BeforeEnd
  <1>11. CASE ClearBusy(w)
    <2>1. /\ wpc[w] = "clear" /\ busy' = FALSE /\ wpc' = [wpc EXCEPT ![w] = "bool"]
          /\ UNCHANGED <<running, controlled, pipe>>
      BY <1>11 DEF ClearBusy, WorkerGoto, channel
    <2>2. Roster' /\ wpc'[w] = "bool"
      BY <1>1, <1>4, <2>1, MoveRoster DEF Steady, Alive
    <2>3. Control'
      BY <1>4, <2>1 DEF Control, Steady
    <2>4. ~Empty /\ ~Half /\ ~Ending
      BY <1>4, <2>1 DEF Empty, Half, Ending
    <2>5. Posted => Empty'
      BY <1>1, <1>4, <2>1, <2>2 DEF Posted, Empty
    <2>6. Phase'
      BY <1>1, <1>4, <2>1, <2>4, <2>5 DEF Phase, Steady
    <2>7. QED
      BY <1>2, <2>2, <2>3, <2>6 DEF Steady
  <1>12. CASE Exit(w)
    <2>1. /\ wpc[w] = "exit" /\ running' = FALSE /\ wpc' = [wpc EXCEPT ![w] = "dead"]
          /\ UNCHANGED <<busy, controlled, pipe>>
      BY <1>12 DEF Exit, WorkerGoto, channel
    <2>2. Roster'
      BY <1>1, <1>4, <2>1 DEF TypeOK, WorkersType, Steady, Roster, Workers, Alive, AtWork,
         BeforeEnd
    <2>3. Control'
      BY <1>4, <2>1 DEF Control, Steady
    <2>4. ~Empty /\ ~Half /\ ~Posted
      BY <1>4, <2>1 DEF Empty, Half, Posted, AtWork, BeforeEnd
    <2>5. Ending => Ending'
      BY <1>1, <1>4, <2>1 DEF Ending
    <2>6. Phase'
      BY <1>1, <1>4, <2>1, <2>4, <2>5 DEF Phase, Steady
    <2>7. QED
      BY <1>2, <2>2, <2>3, <2>6 DEF Steady
  <1>13. QED
    BY <1>5, <1>6, <1>7, <1>9, <1>10, <1>11, <1>12 DEF WorkerStep

\* The handshake holds initially, and no step of a client that converts only
\* with a time limit breaks it.
LEMMA HandshakeHolds ==
  ASSUME TimedConversions
  PROVE  Spec => []Handshake
  <1>1. Init => Handshake
    BY ThreadAssumption DEF Init, Handshake, Steady, Roster, Phase, Parameters, Control,
       Empty, Plain, Workers
  <1>2. TypeOK /\ Handshake /\ [Next]_vars => Handshake'
    <2> SUFFICES ASSUME TypeOK, Handshake, [Next]_vars, Undisturbed'
                 PROVE  Steady'
      BY DEF Handshake
    <2>1. cancels' \in {cancels, cancels + 1} /\ cancels \in Nat
      BY CancelsStep DEF TypeOK, CountsType
    <2>2. Steady /\ UNCHANGED cancels
      BY <2>1 DEF Undisturbed, Handshake
    <2>3. CASE UNCHANGED vars
      BY <2>2, <2>3 DEF vars, flags, store, channel, client, workers, Steady, Roster, Phase,
         Parameters, Control, Empty, Half, Posted, Ending
    <2>4. CASE Next
      BY <2>2, <2>4, ClientSteady, CallSteady, PostSteady, WorkerSteady DEF Next, ClientStep
    <2>5. QED
      BY <2>3, <2>4
  <1>3. QED
    BY <1>1, <1>2, Typing, PTL DEF Spec
-----------------------------------------------------------------------------
(* The safety properties.                                                  *)

\* The handshake leaves room for one thread only.
LEMMA OneWorkerInv == TypeOK /\ Handshake => OneWorker
  <1> SUFFICES ASSUME TypeOK, Undisturbed, Steady
               PROVE  /\ \A w \in Workers : wpc[w] # "undefined"
                      /\ \A v, w \in Workers : wpc[v] \in Alive /\ wpc[w] \in Alive => v = w
                      /\ running <=> \E w \in Workers : wpc[w] \in Alive
    BY DEF OneWorker, Handshake
  <1>1. spawned \in 0..MaxWorkers
    BY DEF TypeOK, WorkersType
  <1>2. \A w \in Workers : wpc[w] # "undefined"
    BY <1>1, ThreadAssumption DEF Steady, Roster, Workers, Alive, AtWork, BeforeEnd
  <1>3. \A v, w \in Workers : wpc[v] \in Alive /\ wpc[w] \in Alive => v = w
    BY LiveIsLast DEF Steady
  <1>4. ASSUME running PROVE \E w \in Workers : wpc[w] \in Alive
    <2>1. spawned \in Workers /\ wpc[spawned] \in Alive
      BY <1>1, <1>4, ThreadAssumption DEF Steady, Roster, Workers
    <2>2. QED
      BY <2>1
  <1>5. ASSUME NEW w \in Workers, wpc[w] \in Alive PROVE running
    BY <1>5, LiveIsLast DEF Steady
  <1>6. QED
    BY <1>2, <1>3, <1>4, <1>5

\* Whoever is at work is where the posted calculation is, and has its
\* parameters.
LEMMA AtWorkPosted ==
  ASSUME TypeOK, Steady, NEW w \in Workers, wpc[w] \in AtWork
  PROVE  /\ busy /\ running /\ wjob[w] = tmp.opts
         /\ wparse[w] => tmp.expr = tmp.opts
  <1>1. w = spawned /\ running
    BY LiveIsLast DEF Steady, Alive
  <1>2. ~Empty /\ ~Half /\ ~Ending
    BY <1>1 DEF Empty, Half, Ending, AtWork, BeforeEnd
  <1>3. Posted /\ busy
    BY <1>1, <1>2 DEF Steady, Phase, TypeOK, ClientType, Positions
  <1>4. QED
    BY <1>1, <1>3 DEF Posted, AtWork, BeforeEnd

\* At most one worker exists, running says whether, and it never mistakes a
\* pointer for a bool: for every number of calls, threads and failures, and
\* every mix of requests, as long as no thread is cancelled.
THEOREM SingleWorker == ASSUME TimedConversions PROVE Spec => []OneWorker
  BY OneWorkerInv, HandshakeHolds, Typing, PTL

\* Who sees b_busy false finds no calculation at work and control ended.
THEOREM Quiet == ASSUME TimedConversions PROVE Spec => []QuietWhenNotBusy
  <1>1. TypeOK /\ Handshake => QuietWhenNotBusy
    <2> SUFFICES ASSUME TypeOK, Undisturbed, ~busy, Steady
                 PROVE  ~controlled /\ \A w \in Workers : wpc[w] \notin AtWork
      BY DEF QuietWhenNotBusy, Handshake
    <2>1. \A w \in Workers : wpc[w] \notin AtWork
      BY AtWorkPosted
    <2>2. ASSUME controlled PROVE FALSE
      <3>1. running /\ wpc[spawned] \in AtWork
        BY <2>2 DEF Steady, Control, AtWork, BeforeEnd
      <3>2. spawned \in Workers
        BY <3>1, ThreadAssumption DEF Steady, Roster, Workers, TypeOK, WorkersType
      <3>3. QED
        BY <2>1, <3>1, <3>2
    <2>3. QED
      BY <2>1, <2>2
  <1>2. QED
    BY <1>1, HandshakeHolds, Typing, PTL

\* The parameters a calculation reads are those its own call wrote.
THEOREM OwnParameters == ASSUME TimedConversions PROVE Spec => []ParamsMatch
  <1>1. TypeOK /\ Handshake => ParamsMatch
    BY AtWorkPosted DEF ParamsMatch, Handshake, AtWork
  <1>2. QED
    BY <1>1, HandshakeHolds, Typing, PTL

\* The destructor closes the pipes only when no worker is left to read.
THEOREM SafeClose == ASSUME TimedConversions PROVE Spec => []NoReaderOfClosedPipe
  <1>1. TypeOK /\ Handshake => NoReaderOfClosedPipe
    BY LiveIsLast DEF NoReaderOfClosedPipe, Handshake, Steady, Parameters, Phase
  <1>2. QED
    BY <1>1, HandshakeHolds, Typing, PTL
-----------------------------------------------------------------------------
(* The structures.                                                         *)

\* Where the client is while a worker is at work, and whose work that is.
LEMMA WorkPlace ==
  ASSUME TypeOK, Steady, NEW w \in Workers, wpc[w] \in AtWork
  PROVE  /\ w = spawned /\ busy /\ running /\ wjob[w] = tmp.opts
         /\ cpc \in {"idle", "wait", "abort", "test", "abortWait"}
  <1>1. w = spawned /\ busy /\ running /\ wjob[w] = tmp.opts
    BY AtWorkPosted, LiveIsLast DEF Steady, Alive
  <1>2. ~Empty /\ ~Half /\ ~Ending
    BY <1>1 DEF Empty, Half, Ending, AtWork, BeforeEnd
  <1>3. QED
    BY <1>1, <1>2 DEF Steady, Phase, TypeOK, ClientType, Positions

\* Nothing but the worker's command touches the stack.
LEMMA StackUnchanged ==
  ASSUME Steady, UNCHANGED cancels, [Next]_vars,
         \A w \in Workers : ~PerformCommand(w)
  PROVE  UNCHANGED <<rpn, freed>>
  <1>1. ~AbortResets
    BY DEF AbortResets, Steady, Phase
  <1>2. QED
    BY <1>1 DEF Next, ClientStep, WorkerStep, vars, store,
       Call, EnsureThread, EnsureFails, SetParams, WriteBool, WritePtr,
       WriteFails, WaitFinishes, WaitTimesOut, ConvertBetween, Other,
       AbortFlag, AbortReturns, AbortWaits, AbortTimesOut,
       AbortRestarts, TerminateWrites, TerminateWriteFails,
       TerminateEnds, TerminateTimesOut, ReadBool, ReadPtr, Misread,
       StartControl, Begin, CalculationEnds, CalculationAborted,
       StopControl, ClearBusy, Exit

\* The steps that a run without cancels has.
LEMMA CalmStep ==
  ASSUME TypeOK, Steady, UNCHANGED cancels, Next
  PROVE  \/ \E r \in Requests : Call(r)
         \/ \E kind \in {"abort", "terminate", "destroy"} : Other(kind)
         \/ EnsureThread \/ EnsureFails \/ SetParams \/ WriteBool \/ WritePtr
         \/ WaitFinishes \/ WaitTimesOut \/ ConvertBetween
         \/ AbortFlag \/ AbortReturns \/ AbortWaits \/ TerminateWrites \/ TerminateEnds
         \/ \E w \in Workers : WorkerStep(w) \/ CalculationEnds(w)
  <1>1. ~(Cancel /\ running)
    BY DEF TypeOK, CountsType, Cancel
  <1>2. cpc \in {"bool", "ptr", "abortWait"} => running
    BY DEF Steady, Phase, Half
  <1>3. ~WriteFails /\ ~AbortTimesOut /\ ~TerminateWriteFails /\ ~TerminateTimesOut
    BY <1>1, <1>2 DEF WriteFails, AbortTimesOut, TerminateWriteFails, TerminateTimesOut
  <1>4. ~AbortResets /\ ~AbortRestarts
    BY DEF AbortResets, AbortRestarts, Steady, Phase
  <1>5. QED
    BY <1>3, <1>4 DEF Next, ClientStep

\* A command stores the call's structure, and only that.
LEMMA PerformLive ==
  ASSUME TypeOK, Steady, Live, UNCHANGED cancels, NEW w \in Workers, PerformCommand(w)
  PROVE  Live'
  <1>1. /\ rpn' = Perform(rpn, tmp.cmd, tmp.arg, wjob[w])
        /\ freed' = freed \cup (ToSet(rpn) \ ToSet(rpn'))
        /\ wpc[w] = "command" /\ wpc' = [wpc EXCEPT ![w] = "stop"] /\ spawned' = spawned
        /\ UNCHANGED <<busy, running, tmp, cpc, call, job, jobs>>
    BY DEF PerformCommand, WorkerGoto, flags, client
  <1>2. /\ w = spawned /\ busy /\ running /\ wjob[w] = tmp.opts
        /\ cpc \in {"idle", "wait", "abort", "test", "abortWait"}
    BY <1>1, WorkPlace DEF AtWork, BeforeEnd
  <1>3. job = tmp.opts /\ job \notin freed \cup ToSet(rpn)
    BY <1>1, <1>2 DEF Live, Underway
  <1>4. MadeOf(rpn', rpn, job)
    <2>1. /\ rpn \in Seq(0..MaxJobs) /\ job \in 0..MaxJobs
          /\ tmp.cmd \in Commands /\ tmp.arg \in Int
      BY DEF TypeOK, StoreType, TmpType, ClientType
    <2>2. Distinct(rpn)
      BY DEF Live
    <2>3. MadeOf(Perform(rpn, tmp.cmd, tmp.arg, job), rpn, job)
      BY <1>3, <2>1, <2>2, PerformMadeOf
    <2>4. QED
      BY <1>1, <1>2, <1>3, <2>3
  <1>5. Distinct(rpn') /\ ToSet(rpn') \subseteq ToSet(rpn) \cup {job}
    BY <1>4 DEF MadeOf
  <1>6. /\ ToSet(rpn') \cup freed' \subseteq 0..jobs'
        /\ ToSet(rpn') \cap freed' = {}
    <2>1. job \in 0..jobs
      BY DEF Live, TypeOK, ClientType
    <2>2. QED
      BY <1>1, <1>3, <1>5, <2>1 DEF Live
  <1>7. ASSUME Underway'
        PROVE  job' \notin freed' \cup ToSet(rpn')
    <2>1. wpc'[spawned'] = "stop"
      BY <1>1, <1>2 DEF TypeOK, WorkersType
    <2>2. cpc = "wait" /\ call.kind = "convert"
      BY <1>1, <1>2, <1>7, <2>1 DEF Underway
    <2>3. tmp.cmd = "none"
      BY <2>2 DEF Live
    <2>4. rpn' = rpn
      BY <1>1, <2>3 DEF Perform
    <2>5. QED
      BY <1>1, <1>3, <2>4
  <1>8. QED
    BY <1>1, <1>5, <1>6, <1>7 DEF Live

\* No step of an undisturbed run breaks it.
LEMMA LiveStep ==
  ASSUME TypeOK, Steady, Steady', Live, UNCHANGED cancels, Next
  PROVE  Live'
  <1>1. ASSUME NEW w \in Workers, PerformCommand(w)
        PROVE  Live'
    BY <1>1, PerformLive
  <1> SUFFICES ASSUME \A w \in Workers : ~PerformCommand(w)
               PROVE  Live'
    BY <1>1
  <1>2. UNCHANGED <<rpn, freed>>
    BY StackUnchanged
  <1>3. cpc' \in {"bool", "ptr", "wait", "between"} => tmp'.opts = job'
    BY DEF Steady, Parameters
  <1>4. ASSUME NEW r \in Requests, Call(r)
        PROVE  Live'
    <2>1. /\ cpc' = "ensure" /\ call' = r /\ jobs' = jobs + 1 /\ job' = jobs + 1
      BY <1>4 DEF Call
    <2>2. r.kind = "convert" => r.cmd = "none"
      BY ThreadAssumption
    <2>3. jobs \in Nat
      BY DEF TypeOK, ClientType
    <2>4. job' \notin freed' \cup ToSet(rpn')
      BY <1>2, <2>1, <2>3 DEF Live
    <2>5. ToSet(rpn') \cup freed' \subseteq 0..jobs'
      BY <1>2, <2>1, <2>3 DEF Live
    <2>6. QED
      BY <1>2, <2>1, <2>2, <2>4, <2>5 DEF Live
  <1>5. ASSUME UNCHANGED <<job, jobs>>,
               call'.kind = "convert" => call'.cmd = "none",
               Underway' => Underway,
               (busy' /\ running' /\ cpc' \notin {"ensure", "params"}) => tmp'.opts = job',
               cpc' \in {"bool", "ptr", "wait", "between"} => tmp'.cmd = call'.cmd
        PROVE  Live'
    BY <1>2, <1>5 DEF Live
  <1>6. ASSUME NEW kind \in {"abort", "terminate", "destroy"}, Other(kind)
        PROVE  Live'
    BY <1>5, <1>6 DEF Other, Plain, Live, Underway, flags, store, workers
  <1>7. CASE EnsureThread
    BY <1>5, <1>7 DEF EnsureThread, Goto, Live, Underway, store
  <1>8. CASE EnsureFails
    BY <1>5, <1>8 DEF EnsureFails, NeedsThread, Return, Live, Underway, flags
  <1>9. CASE SetParams
    BY <1>3, <1>5, <1>9 DEF SetParams, Goto, Live, Underway, flags
  <1>10. CASE WriteBool \/ WritePtr
    <2>1. /\ UNCHANGED <<busy, running, tmp, call, job, jobs, wpc, spawned>>
          /\ cpc \in {"bool", "ptr"} /\ cpc' \in {"ptr", "wait", "between", "idle"}
      BY <1>10 DEF WriteBool, WritePtr, Goto, Return, flags, store, workers
    <2>2. Underway
      BY <2>1 DEF Underway
    <2>3. tmp.opts = job
      BY <2>1 DEF Steady, Parameters
    <2>4. QED
      BY <1>5, <2>1, <2>2, <2>3 DEF Live
  <1>11. CASE WaitFinishes \/ WaitTimesOut
    BY <1>3, <1>5, <1>11 DEF WaitFinishes, WaitTimesOut, Goto, Return, Live, Underway, flags,
       store, workers
  <1>12. CASE ConvertBetween
    <2>1. call'.kind = call.kind /\ call'.cmd = call.cmd
      BY <1>12 DEF ConvertBetween, TypeOK, ClientType, Calls
    <2>2. QED
      BY <1>3, <1>5, <1>12, <2>1 DEF ConvertBetween, Steady, Phase, Live, Underway, store,
         workers
  <1>13. CASE AbortFlag \/ AbortReturns \/ AbortWaits
    BY <1>5, <1>13 DEF AbortFlag, AbortReturns, AbortWaits, AfterAbort, Goto, Return, Live,
       Underway, flags, store, workers
  <1>14. CASE TerminateWrites \/ TerminateEnds
    BY <1>5, <1>14 DEF TerminateWrites, TerminateEnds, Terminated, Goto, Return, Live,
       Underway, flags, store, workers
  <1>15. ASSUME NEW w \in Workers, WorkerStep(w) \/ CalculationEnds(w)
         PROVE  Live'
    <2>1. UNCHANGED <<cpc, call, job, jobs, tmp, spawned>>
      BY <1>15 DEF WorkerStep, WorkerGoto, ReadBool, ReadPtr, Misread, StartControl, Begin,
         CalculationEnds, CalculationAborted, StopControl, ClearBusy, Exit, client, store
    <2>2. \/ busy' = FALSE
          \/ running' = FALSE
          \/ UNCHANGED <<busy, running>>
      BY <1>15 DEF WorkerStep, ReadBool, ReadPtr, Misread, StartControl, Begin,
         CalculationEnds, CalculationAborted, StopControl, ClearBusy, Exit, flags
    <2>3. (busy' /\ running') =>
            wpc[w] \notin {"stop", "clear"} \/ wpc'[w] \in {"stop", "clear"}
      BY <1>15 DEF WorkerStep, WorkerGoto, ReadBool, ReadPtr, Misread, StartControl, Begin,
         CalculationEnds, CalculationAborted, StopControl, ClearBusy, Exit, TypeOK,
         WorkersType
    <2>4. w = spawned
      <3>1. wpc[w] \in Alive
        BY <1>15 DEF WorkerStep, ReadBool, ReadPtr, Misread, StartControl, Begin,
           CalculationEnds, CalculationAborted, StopControl, ClearBusy,
           Exit, Alive, AtWork, BeforeEnd
      <3>2. QED
        BY <3>1, LiveIsLast DEF Steady
    <2>5. Underway' => Underway
      BY <2>1, <2>2, <2>3, <2>4 DEF Underway
    <2>6. (busy' /\ running' /\ cpc' \notin {"ensure", "params"}) => tmp'.opts = job'
      BY <2>1, <2>2 DEF Live
    <2>7. QED
      BY <1>5, <2>1, <2>5, <2>6 DEF Live
  <1>16. QED
    BY CalmStep, <1>4, <1>6, <1>7, <1>8, <1>9, <1>10, <1>11, <1>12, <1>13, <1>14, <1>15

\* The worker's steps while the client waits, or after.
LEMMA WorkerDone ==
  ASSUME TypeOK, Steady, Live, Done, UNCHANGED cancels, NEW w \in Workers,
         WorkerStep(w) \/ CalculationEnds(w)
  PROVE  Done'
  <1>1. UNCHANGED <<cpc, call, job, ret, spawned>>
    BY DEF WorkerStep, WorkerGoto, ReadBool, ReadPtr, Misread, StartControl, Begin,
       CalculationEnds, CalculationAborted, PerformCommand, StopControl, ClearBusy, Exit, client
  <1>2. w = spawned /\ running /\ w \in Workers
    <2>1. wpc[w] \in Alive
      BY DEF WorkerStep, ReadBool, ReadPtr, Misread, StartControl, Begin,
         CalculationEnds, CalculationAborted, PerformCommand, StopControl, ClearBusy,
         Exit, Alive, AtWork, BeforeEnd
    <2>2. QED
      BY <2>1, LiveIsLast DEF Steady
  <1>3. call'.kind \notin Kinds => ~call'.timed
    BY <1>1 DEF Done
  \* Reading, misreading and exiting.
  <1>4. ASSUME UNCHANGED <<busy, value>>, wpc'[w] \notin AtWork
        PROVE  Done'
    BY <1>1, <1>2, <1>3, <1>4 DEF Done, AtWork, BeforeEnd
  <1>5. CASE ReadBool(w) \/ Misread(w) \/ Exit(w)
    BY <1>4, <1>5 DEF ReadBool, Misread, Exit, WorkerGoto, flags, store, TypeOK, WorkersType,
       AtWork, BeforeEnd
  <1>6. CASE ReadPtr(w)
    <2>1. UNCHANGED <<busy, value>> /\ wpc'[w] \in {"exit", "control"}
      BY <1>6 DEF ReadPtr, AfterPointer, WorkerGoto, flags, store, TypeOK, WorkersType
    <2>2. QED
      BY <1>1, <1>2, <1>3, <2>1 DEF Done
  \* At work.
  <1>7. ASSUME wpc[w] \in AtWork
        PROVE  /\ busy /\ cpc # "between" /\ (cpc = "wait" => wjob[w] = job)
               /\ wjob[w] \in Jobs
               /\ ~(cpc = "idle" /\ call.timed /\ ret = "true")
    <2>1. busy /\ running /\ wjob[w] = tmp.opts /\ cpc # "between"
      BY <1>7, WorkPlace
    <2>2. cpc = "wait" => tmp.opts = job
      BY DEF Steady, Parameters
    <2>3. wjob[w] \in Jobs
      BY <1>7, ThreadAssumption DEF TypeOK, WorkersType, Jobs
    <2>4. ~(cpc = "idle" /\ call.timed /\ ret = "true")
      BY <2>1 DEF Done
    <2>5. QED
      BY <2>1, <2>2, <2>3, <2>4
  <1>8. CASE StartControl(w)
    <2>1. UNCHANGED <<busy, value>> /\ iAborted' = FALSE /\ wpc'[w] = "begin" /\ wpc[w] \in AtWork
      BY <1>8 DEF StartControl, startControl, WorkerGoto, store, TypeOK, WorkersType, AtWork,
         BeforeEnd
    <2>2. QED
      BY <1>1, <1>2, <1>3, <1>7, <2>1 DEF Done
  <1>9. CASE Begin(w)
    <2>1. /\ UNCHANGED <<busy, iAborted>> /\ wpc[w] = "begin" /\ wpc'[w] = "calc"
      BY <1>9 DEF Begin, WorkerGoto, flags, TypeOK, WorkersType
    <2>2. wpc[w] \in AtWork
      BY <2>1 DEF AtWork, BeforeEnd
    <2>3. QED
      BY <1>1, <1>2, <1>3, <1>7, <2>1, <2>2 DEF Done
  <1>10. CASE CalculationEnds(w)
    <2>1. /\ UNCHANGED busy /\ wpc[w] = "calc" /\ wpc'[w] = "command"
          /\ value' = [value EXCEPT ![wjob[w]] = "done"]
      BY <1>10 DEF CalculationEnds, WorkerGoto, flags, TypeOK, WorkersType
    <2>2. wpc[w] \in AtWork
      BY <2>1 DEF AtWork, BeforeEnd
    <2>3. cpc = "wait" => value'[job] = "done"
      BY <1>7, <2>1, <2>2 DEF TypeOK, StoreType
    <2>4. QED
      BY <1>1, <1>2, <1>3, <1>7, <2>1, <2>2, <2>3 DEF Done
  <1>11. CASE CalculationAborted(w)
    <2>1. /\ UNCHANGED <<busy, value>> /\ wpc[w] = "calc" /\ iAborted /\ wpc'[w] = "command"
      BY <1>11 DEF CalculationAborted, WorkerGoto, flags, store, TypeOK, WorkersType
    <2>2. wpc[w] \in AtWork
      BY <2>1 DEF AtWork, BeforeEnd
    <2>3. cpc # "wait"
      BY <1>2, <1>7, <2>1, <2>2 DEF Done
    <2>4. QED
      BY <1>1, <1>2, <1>3, <1>7, <2>1, <2>2, <2>3 DEF Done
  <1>12. CASE PerformCommand(w) \/ StopControl(w)
    <2>1. /\ UNCHANGED <<busy, value>> /\ wpc[w] \in {"command", "stop"}
          /\ wpc'[w] \in {"stop", "clear"}
      BY <1>12 DEF PerformCommand, StopControl, WorkerGoto, flags, store, TypeOK, WorkersType
    <2>2. wpc[w] \in AtWork
      BY <2>1 DEF AtWork, BeforeEnd
    <2>3. QED
      BY <1>1, <1>2, <1>3, <1>7, <2>1, <2>2 DEF Done
  <1>13. CASE ClearBusy(w)
    <2>1. /\ busy' = FALSE /\ UNCHANGED value /\ wpc[w] = "clear"
      BY <1>13 DEF ClearBusy, store
    <2>2. wpc[w] \in AtWork
      BY <2>1 DEF AtWork
    <2>3. QED
      BY <1>1, <1>2, <1>3, <1>7, <2>1, <2>2 DEF Done
  <1>14. QED
    BY <1>5, <1>6, <1>8, <1>9, <1>10, <1>11, <1>12, <1>13 DEF WorkerStep

\* No step of an undisturbed run breaks it.
LEMMA DoneStep ==
  ASSUME TypeOK, Steady, Steady', Live, Done, UNCHANGED cancels, Next
  PROVE  Done'
  <1>1. ASSUME NEW w \in Workers, WorkerStep(w) \/ CalculationEnds(w)
        PROVE  Done'
    BY <1>1, WorkerDone
  <1>2. ASSUME call'.kind \notin Kinds => ~call'.timed,
               cpc' \notin {"wait", "between"},
               ~(cpc' = "idle" /\ call'.timed /\ ret' = "true")
        PROVE  Done'
    BY <1>2 DEF Done
  <1>3. ASSUME NEW r \in Requests, Call(r)
        PROVE  Done'
    BY <1>2, <1>3, ThreadAssumption DEF Call, Request
  <1>4. ASSUME NEW kind \in {"abort", "terminate", "destroy"}, Other(kind)
        PROVE  Done'
    BY <1>2, <1>4 DEF Other, Plain
  <1>5. CASE EnsureThread \/ EnsureFails \/ SetParams \/ WriteBool
    BY <1>2, <1>5 DEF EnsureThread, EnsureFails, SetParams, WriteBool, Goto, Return, Done
  <1>6. CASE WritePtr
    <2>1. /\ UNCHANGED <<busy, call, wpc, spawned>>
          /\ \/ cpc' = "wait" /\ UNCHANGED ret
             \/ cpc' = "between" /\ call.kind = "convert" /\ ~call.timed
             \/ cpc' = "idle" /\ ~call.timed
      BY <1>6 DEF WritePtr, Goto, Return, flags, workers
    <2>2. busy /\ wpc[spawned] \in {"bool", "ptr"} /\ cpc' # "between"
      BY <1>6, <2>1 DEF WritePtr, Steady, Phase, Half, Parameters
    <2>3. QED
      BY <2>1, <2>2 DEF Done
  <1>7. CASE WaitFinishes \/ WaitTimesOut
    BY <1>7 DEF WaitFinishes, WaitTimesOut, Goto, Return, Done, flags, store, workers
  <1>8. CASE ConvertBetween
    <2>1. call'.kind = call.kind /\ call'.timed = call.timed
      BY <1>8 DEF ConvertBetween, TypeOK, ClientType, Calls
    <2>2. value[job] = "done" /\ ~busy
      BY <1>8 DEF ConvertBetween, Done, Steady, Phase
    <2>3. QED
      BY <1>8, <2>1, <2>2 DEF ConvertBetween, Done, store
  <1>9. CASE AbortFlag \/ AbortWaits \/ TerminateWrites
    BY <1>2, <1>9 DEF AbortFlag, AbortWaits, TerminateWrites, Goto, Done
  <1>10. CASE AbortReturns
    <2>1. call.kind = "abort" => ~call.timed
      BY DEF Done, Kinds
    <2>2. QED
      BY <1>2, <1>10, <2>1 DEF AbortReturns, AfterAbort, Goto, Return, Done
  <1>11. CASE TerminateEnds
    BY <1>2, <1>11 DEF TerminateEnds, Terminated, Goto, Return, Done
  <1>12. QED
    BY CalmStep, <1>1, <1>3, <1>4, <1>5, <1>6, <1>7, <1>8, <1>9, <1>10, <1>11

\* The whole inductive invariant of the structures.
StructureInv == Undisturbed => Live /\ Done

LEMMA StructuresHold ==
  ASSUME TimedConversions
  PROVE  Spec => []StructureInv
  <1>1. Init => StructureInv
    <2> SUFFICES ASSUME Init
                 PROVE  Live /\ Done
      BY DEF StructureInv
    <2>1. rpn = <<>> /\ Len(rpn) = 0 /\ ToSet(rpn) = {}
      BY DEF Init, ToSet
    <2>2. Live
      BY <2>1 DEF Init, Live, Underway, Distinct, Plain
    <2>3. Done
      BY DEF Init, Done, Plain
    <2>4. QED
      BY <2>2, <2>3
  <1>2. TypeOK /\ Handshake /\ Handshake' /\ StructureInv /\ [Next]_vars => StructureInv'
    <2> SUFFICES ASSUME TypeOK, Handshake, Handshake', StructureInv, [Next]_vars, Undisturbed'
                 PROVE  Live' /\ Done'
      BY DEF StructureInv
    <2>1. cancels' \in {cancels, cancels + 1} /\ cancels \in Nat
      BY CancelsStep DEF TypeOK, CountsType
    <2>2. Steady /\ Steady' /\ Live /\ Done /\ UNCHANGED cancels
      BY <2>1 DEF Undisturbed, Handshake, StructureInv
    <2>3. CASE UNCHANGED vars
      <3>1. UNCHANGED <<busy, running, iAborted, tmp, value, rpn, freed, cpc, call, job, ret,
                        jobs, wpc, spawned>>
        BY <2>3 DEF vars, flags, store, client, workers
      <3>2. Live'
        BY <2>2, <3>1 DEF Live, Underway
      <3>3. Done'
        BY <2>2, <3>1 DEF Done
      <3>4. QED
        BY <3>2, <3>3
    <2>4. CASE Next
      BY <2>2, <2>4, LiveStep, DoneStep
    <2>5. QED
      BY <2>3, <2>4
  <1>3. QED
    BY <1>1, <1>2, HandshakeHolds, Typing, PTL DEF Spec

\* Registers, unreferenced structures and the worker's own one are kept apart.
THEOREM LiveRegisters == ASSUME TimedConversions PROVE Spec => []RegistersLive
  <1>1. TypeOK /\ Handshake /\ StructureInv => RegistersLive
    <2> SUFFICES ASSUME TypeOK, Undisturbed, Steady, Live
                 PROVE  /\ ToSet(rpn) \cap freed = {}
                        /\ \A i, k \in 1..Len(rpn) : rpn[i] = rpn[k] => i = k
                        /\ \A w \in Workers : wpc[w] \in BeforeEnd =>
                              wjob[w] \notin freed \cup ToSet(rpn)
      BY DEF RegistersLive, Handshake, StructureInv
    <2>1. ASSUME NEW w \in Workers, wpc[w] \in BeforeEnd
          PROVE  wjob[w] \notin freed \cup ToSet(rpn)
      <3>1. /\ w = spawned /\ busy /\ running /\ wjob[w] = tmp.opts
            /\ cpc \notin {"ensure", "params"}
        BY <2>1, WorkPlace DEF AtWork
      <3>2. wpc[spawned] \notin {"stop", "clear"}
        BY <2>1, <3>1 DEF BeforeEnd
      <3>3. QED
        BY <3>1, <3>2 DEF Live, Underway
    <2>2. QED
      BY <2>1 DEF Live, Distinct
  <1>2. QED
    BY <1>1, StructuresHold, HandshakeHolds, Typing, PTL

\* A timed call that returned true left a calculated value.
THEOREM TrueDone == ASSUME TimedConversions PROVE Spec => []TrueMeansDone
  <1>1. StructureInv => TrueMeansDone
    BY DEF TrueMeansDone, StructureInv, Done
  <1>2. QED
    BY <1>1, StructuresHold, PTL

------------------------------------------------------------------------------
(* RPNStack *)

(* Every calculation on the stack has one form: the first k registers go,  *)
(* the result comes.                                                       *)

Computed(stack, k, x) == Append(SubSeq(stack, 1, Len(stack) - k), x)

\* The registers numbered up to k.
Registers(stack, k) == {Register(stack, i) : i \in 1..k}

LEMMA ComputedElements ==
  ASSUME NEW S, NEW stack \in Seq(S), NEW x \in S, NEW k \in 0..Len(stack)
  PROVE  /\ Computed(stack, k, x) \in Seq(S) /\ Len(Computed(stack, k, x)) = Len(stack) - k + 1
         /\ \A j \in 1..(Len(stack) - k) : Computed(stack, k, x)[j] = stack[j]
         /\ Computed(stack, k, x)[Len(stack) - k + 1] = x
  <1> DEFINE rest == SubSeq(stack, 1, Len(stack) - k)
  <1>1. Len(stack) \in Nat /\ Len(stack) - k \in 0..Len(stack)
    BY LenProperties
  <1>2. /\ rest \in Seq(S) /\ Len(rest) = Len(stack) - k
        /\ \A j \in 1..(Len(stack) - k) : rest[j] = stack[j]
    BY <1>1, FrontElements
  <1> HIDE DEF rest
  <1>3. /\ Append(rest, x) \in Seq(S) /\ Len(Append(rest, x)) = Len(rest) + 1
        /\ \A j \in 1..Len(rest) : Append(rest, x)[j] = rest[j]
        /\ Append(rest, x)[Len(rest) + 1] = x
    BY <1>2, AppendProperties
  <1>4. QED
    BY <1>2, <1>3 DEF Computed, rest

LEMMA ComputedHolds ==
  ASSUME NEW S, NEW stack \in Seq(S), NEW x \in S, NEW k \in 0..Len(stack),
         Distinct(stack), x \notin ToSet(stack)
  PROVE  Holds(Computed(stack, k, x), (ToSet(stack) \ Registers(stack, k)) \cup {x})
  <1> DEFINE n == Len(stack) - k
             rest == SubSeq(stack, 1, n)
  <1>1. Len(stack) \in Nat /\ n \in 0..Len(stack)
        /\ ToSet(stack) = {stack[i] : i \in 1..Len(stack)}
    BY Elements
  <1>2. /\ rest \in Seq(S) /\ Distinct(rest) /\ ToSet(rest) = {stack[j] : j \in 1..n}
    BY <1>1, FrontElements, FrontHolds DEF Holds
  <1>3. {stack[j] : j \in 1..n} = ToSet(stack) \ Registers(stack, k)
    <2>1. ASSUME NEW j \in 1..n
          PROVE  stack[j] \in ToSet(stack) \ Registers(stack, k)
      <3>1. j \in 1..Len(stack) /\ \A i \in 1..k : Len(stack) - i + 1 \in 1..Len(stack)
                                                   /\ Len(stack) - i + 1 # j
        BY <1>1
      <3>2. QED
        BY <1>1, <3>1 DEF Distinct, Registers, Register, Position
    <2>2. ASSUME NEW j \in 1..Len(stack), stack[j] \notin Registers(stack, k)
          PROVE  j \in 1..n
      <3>1. CASE j > n
        <4>1. Len(stack) - j + 1 \in 1..k /\ Len(stack) - (Len(stack) - j + 1) + 1 = j
          BY <1>1, <3>1
        <4>2. QED
          BY <2>2, <4>1 DEF Registers, Register, Position
      <3>2. QED
        BY <1>1, <3>1
    <2>3. QED
      BY <1>1, <2>1, <2>2
  <1> HIDE DEF rest, n
  <1>4. Holds(RPNStackEnter(rest, x), ToSet(rest) \cup {x})
    BY <1>1, <1>2, <1>3, EnterHolds
  <1>5. QED
    BY <1>2, <1>3, <1>4 DEF RPNStackEnter, Computed, rest, n

\* A front of a front.
LEMMA FrontOfFront ==
  ASSUME NEW S, NEW stack \in Seq(S), NEW m \in 0..Len(stack), NEW n \in 0..m
  PROVE  SubSeq(SubSeq(stack, 1, m), 1, n) = SubSeq(stack, 1, n)
  <1> DEFINE a == SubSeq(stack, 1, m)
             b == SubSeq(a, 1, n)
             c == SubSeq(stack, 1, n)
  <1>1. Len(stack) \in Nat /\ n \in 0..Len(stack) /\ m \in Nat
    BY LenProperties
  <1>2. a \in Seq(S) /\ Len(a) = m /\ \A j \in 1..m : a[j] = stack[j]
    BY FrontElements
  <1>3. c \in Seq(S) /\ Len(c) = n /\ \A j \in 1..n : c[j] = stack[j]
    BY <1>1, FrontElements
  <1> HIDE DEF a, c
  <1>4. b \in Seq(S) /\ Len(b) = n /\ \A j \in 1..n : b[j] = a[j]
    BY <1>2, FrontElements
  <1> HIDE DEF b
  <1>5. b = c
    <2>1. \A j \in 1..n : b[j] = c[j]
      BY <1>1, <1>2, <1>3, <1>4
    <2>2. QED
      BY <1>3, <1>4, <2>1, SeqEqual
  <1>6. QED
    BY <1>5 DEF a, b, c

\* A result in the place of register 1.
LEMMA SetComputed ==
  ASSUME NEW S, NEW stack \in Seq(S), NEW x \in S, stack # <<>>
  PROVE  setRPNRegister(stack, 1, x) = Computed(stack, 1, x)
  <1>1. Len(stack) \in Nat \ {0}
    BY EmptySeq
  <1>2. HasRegister(stack, 1) /\ Position(stack, 1) = Len(stack)
    BY <1>1 DEF HasRegister, Position
  <1> DEFINE t == [stack EXCEPT ![Len(stack)] = x]
             u == Computed(stack, 1, x)
  <1>3. /\ t \in Seq(S) /\ Len(t) = Len(stack)
        /\ \A j \in 1..Len(stack) : t[j] = IF j = Len(stack) THEN x ELSE stack[j]
    BY <1>1, ExceptSeq
  <1>4. /\ u \in Seq(S) /\ Len(u) = Len(stack) - 1 + 1
        /\ \A j \in 1..(Len(stack) - 1) : u[j] = stack[j]
        /\ u[Len(stack) - 1 + 1] = x
    <2>1. 1 \in 0..Len(stack)
      BY <1>1
    <2>2. PICK k \in 0..Len(stack) : k = 1
      BY <2>1
    <2>3. /\ Computed(stack, k, x) \in Seq(S) /\ Len(Computed(stack, k, x)) = Len(stack) - k + 1
          /\ \A j \in 1..(Len(stack) - k) : Computed(stack, k, x)[j] = stack[j]
          /\ Computed(stack, k, x)[Len(stack) - k + 1] = x
      BY ComputedElements
    <2>4. QED
      BY <2>2, <2>3
  <1> HIDE DEF t, u
  <1>5. t = u
    <2>1. \A j \in 1..Len(t) : t[j] = u[j]
      BY <1>1, <1>3, <1>4
    <2>2. Len(t) = Len(u)
      BY <1>1, <1>3, <1>4
    <2>3. QED
      BY <1>3, <1>4, <2>1, <2>2, SeqEqual
  <1>6. QED
    BY <1>2, <1>5 DEF setRPNRegister, ReplaceAt, t, u

LEMMA EnterComputed ==
  ASSUME NEW S, NEW stack \in Seq(S), NEW x \in S
  PROVE  RPNStackEnter(stack, x) = Computed(stack, 0, x)
  <1>1. SubSeq(stack, 1, Len(stack)) = stack /\ Len(stack) - 0 = Len(stack)
    BY SubSeqFull, LenProperties
  <1>2. QED
    BY <1>1 DEF RPNStackEnter, Computed

\* A result after k registers were dropped.
LEMMA DropComputed ==
  ASSUME NEW S, NEW stack \in Seq(S), NEW x \in S, NEW k \in 0..(Len(stack) - 1)
  PROVE  /\ setRPNRegister(DropRegisters(stack, k), 1, x) = Computed(stack, k + 1, x)
         /\ ReplaceFirst(DropRegisters(stack, k), x) = Computed(stack, k + 1, x)
  <1> DEFINE rest == SubSeq(stack, 1, Len(stack) - k)
  <1>1. Len(stack) \in Nat /\ Len(stack) - k \in 0..Len(stack)
        /\ Len(stack) - k - 1 \in 0..(Len(stack) - k)
    BY LenProperties
  <1>2. rest \in Seq(S) /\ Len(rest) = Len(stack) - k /\ rest # <<>>
    <2>1. rest \in Seq(S) /\ Len(rest) = Len(stack) - k
      BY <1>1, FrontElements
    <2> HIDE DEF rest
    <2>2. Len(rest) # 0
      BY <1>1, <2>1
    <2>3. QED
      BY <2>1, <2>2, EmptySeq
  <1>3. SubSeq(rest, 1, Len(stack) - k - 1) = SubSeq(stack, 1, Len(stack) - k - 1)
    BY <1>1, FrontOfFront
  <1> HIDE DEF rest
  <1>4. setRPNRegister(rest, 1, x) = Computed(rest, 1, x)
    BY <1>2, SetComputed
  <1>5. Len(stack) - (k + 1) = Len(stack) - k - 1
    BY <1>1
  <1>6. Computed(rest, 1, x) = Computed(stack, k + 1, x)
    BY <1>2, <1>3, <1>5 DEF Computed
  <1>7. QED
    BY <1>2, <1>4, <1>6 DEF DropRegisters, ReplaceFirst, rest

\* How many registers an operation of n arguments takes off the stack.
Taking(stack, n) == IF n <= Len(stack) THEN n ELSE Len(stack)

LEMMA ReplaceFirstComputed ==
  ASSUME NEW S, NEW stack \in Seq(S), NEW x \in S
  PROVE  ReplaceFirst(stack, x) = Computed(stack, Taking(stack, 1), x)
  <1>1. CASE stack = <<>>
    <2>1. Taking(stack, 1) = 0
      BY <1>1 DEF Taking
    <2>2. QED
      BY <1>1, <2>1, EnterComputed DEF ReplaceFirst
  <1>2. CASE stack # <<>>
    <2>1. Taking(stack, 1) = 1
      BY <1>2, EmptySeq DEF Taking
    <2>2. QED
      BY <1>2, <2>1, SetComputed DEF ReplaceFirst
  <1>3. QED
    BY <1>1, <1>2

LEMMA OperationTwoComputed ==
  ASSUME NEW S, NEW stack \in Seq(S), NEW x \in S
  PROVE  OperationTwo(stack, x) = Computed(stack, Taking(stack, 2), x)
  <1>1. Len(stack) \in Nat
    BY LenProperties
  <1>2. CASE Len(stack) > 1
    <2>1. deleteRPNRegister(stack, 1) = DropRegisters(stack, 1)
      <3> DEFINE t == RemoveAt(stack, Len(stack))
                 u == SubSeq(stack, 1, Len(stack) - 1)
      <3>1. HasRegister(stack, 1) /\ Position(stack, 1) = Len(stack)
        BY <1>1, <1>2 DEF HasRegister, Position
      <3>2. /\ t \in Seq(S) /\ Len(t) = Len(stack) - 1
            /\ \A j \in 1..(Len(stack) - 1) :
                  t[j] = IF j < Len(stack) THEN stack[j] ELSE stack[j + 1]
        BY <1>1, <1>2, RemoveElements
      <3>3. /\ u \in Seq(S) /\ Len(u) = Len(stack) - 1
            /\ \A j \in 1..(Len(stack) - 1) : u[j] = stack[j]
        BY <1>1, <1>2, FrontElements
      <3> HIDE DEF t, u
      <3>4. \A j \in 1..Len(t) : t[j] = u[j]
        BY <1>1, <3>2, <3>3
      <3>5. t = u
        BY <3>2, <3>3, <3>4, SeqEqual
      <3>6. QED
        BY <3>1, <3>5 DEF deleteRPNRegister, DropRegisters, t, u
    <2>2. ReplaceFirst(DropRegisters(stack, 1), x) = Computed(stack, 1 + 1, x)
      BY <1>1, <1>2, DropComputed
    <2>3. Taking(stack, 2) = 1 + 1
      BY <1>1, <1>2 DEF Taking
    <2>4. QED
      BY <1>2, <2>1, <2>2, <2>3 DEF OperationTwo
  <1>3. CASE Len(stack) <= 1
    <2>1. Taking(stack, 2) = Taking(stack, 1)
      BY <1>1, <1>3 DEF Taking
    <2>2. QED
      BY <1>1, <1>3, <2>1, ReplaceFirstComputed DEF OperationTwo
  <1>4. QED
    BY <1>1, <1>2, <1>3

LEMMA OperationFunctionComputed ==
  ASSUME NEW S, NEW stack \in Seq(S), NEW x \in S, NEW n \in 0..Len(stack)
  PROVE  OperationFunction(stack, n, x) = Computed(stack, n, x)
  <1>1. Len(stack) \in Nat
    BY LenProperties
  <1>2. CASE n = 0
    <2>1. Consumed(stack, n) = 0 /\ Len(stack) - 0 = Len(stack)
      BY <1>1, <1>2 DEF Consumed
    <2>2. DropRegisters(stack, 0) = stack
      BY <2>1, SubSeqFull DEF DropRegisters
    <2>3. QED
      BY <1>2, <2>1, <2>2, EnterComputed DEF OperationFunction
  <1>3. CASE n # 0
    <2>1. Consumed(stack, n) = n - 1 /\ n - 1 \in 0..(Len(stack) - 1) /\ (n - 1) + 1 = n
      BY <1>1, <1>3 DEF Consumed
    <2>2. ReplaceFirst(DropRegisters(stack, n - 1), x) = Computed(stack, (n - 1) + 1, x)
      BY <2>1, DropComputed
    <2>3. QED
      BY <1>3, <2>1, <2>2 DEF OperationFunction
  <1>4. QED
    BY <1>2, <1>3
-----------------------------------------------------------------------------
(* Moving a register.                                                      *)

\* The element at position o of the vector put where position n is then.
Moved(stack, o, n) == InsertAt(RemoveAt(stack, o), n, stack[o])

LEMMA MovedElements ==
  ASSUME NEW S, NEW stack \in Seq(S), NEW o \in 1..Len(stack), NEW n \in 1..Len(stack)
  PROVE  /\ Moved(stack, o, n) \in Seq(S) /\ Len(Moved(stack, o, n)) = Len(stack)
         /\ \A j \in 1..Len(stack) :
               Moved(stack, o, n)[j] =
                 IF j = n THEN stack[o]
                 ELSE IF j < n THEN (IF j < o THEN stack[j] ELSE stack[j + 1])
                 ELSE IF j - 1 < o THEN stack[j - 1] ELSE stack[j]
  <1> DEFINE r == RemoveAt(stack, o)
             x == stack[o]
             t == InsertAt(r, n, x)
  <1>1. Len(stack) \in Nat /\ x \in S
    BY LenProperties, ElementOfSeq
  <1>2. /\ r \in Seq(S) /\ Len(r) = Len(stack) - 1
        /\ \A j \in 1..(Len(stack) - 1) : r[j] = IF j < o THEN stack[j] ELSE stack[j + 1]
    BY RemoveElements
  <1> HIDE DEF r, x
  <1>3. n \in 1..(Len(r) + 1) /\ Len(r) + 1 = Len(stack)
    BY <1>1, <1>2
  <1>4. /\ t \in Seq(S) /\ Len(t) = Len(r) + 1
        /\ \A j \in 1..(Len(r) + 1) : t[j] = IF j < n THEN r[j] ELSE IF j = n THEN x ELSE r[j - 1]
    BY <1>1, <1>2, <1>3, InsertElements
  <1> HIDE DEF t
  <1>5. ASSUME NEW j \in 1..Len(stack)
        PROVE  t[j] = IF j = n THEN x
                      ELSE IF j < n THEN (IF j < o THEN stack[j] ELSE stack[j + 1])
                      ELSE IF j - 1 < o THEN stack[j - 1] ELSE stack[j]
    <2>1. CASE j = n
      BY <1>3, <1>4, <2>1
    <2>2. CASE j < n
      BY <1>1, <1>2, <1>3, <1>4, <2>2
    <2>3. CASE j > n
      <3>1. j - 1 \in 1..(Len(stack) - 1) /\ (j - 1) + 1 = j /\ t[j] = r[j - 1]
        BY <1>1, <1>3, <1>4, <2>3
      <3>2. QED
        BY <1>1, <1>2, <2>3, <3>1
    <2>4. QED
      BY <1>1, <2>1, <2>2, <2>3
  <1>6. QED
    BY <1>3, <1>4, <1>5 DEF Moved, t, r, x

LEMMA MovedHolds ==
  ASSUME NEW S, NEW stack \in Seq(S), NEW o \in 1..Len(stack), NEW n \in 1..Len(stack),
         Distinct(stack)
  PROVE  Holds(Moved(stack, o, n), ToSet(stack))
  <1> DEFINE r == RemoveAt(stack, o)
             x == stack[o]
  <1>1. Len(stack) \in Nat /\ x \in S /\ x \in ToSet(stack)
    BY Elements, ElementOfSeq
  <1>2. r \in Seq(S) /\ Len(r) = Len(stack) - 1
    BY RemoveElements
  <1>3. Distinct(r) /\ ToSet(r) = ToSet(stack) \ {x}
    BY RemoveHolds DEF Holds
  <1> HIDE DEF r, x
  <1>4. n \in 1..(Len(r) + 1) /\ x \notin ToSet(r)
    BY <1>1, <1>2, <1>3
  <1>5. Holds(InsertAt(r, n, x), ToSet(r) \cup {x})
    BY <1>1, <1>2, <1>3, <1>4, InsertHolds
  <1>6. ToSet(r) \cup {x} = ToSet(stack)
    BY <1>1, <1>3
  <1>7. QED
    BY <1>5, <1>6 DEF Moved, r, x

\* To where it is.
LEMMA MovedNowhere ==
  ASSUME NEW S, NEW stack \in Seq(S), NEW o \in 1..Len(stack)
  PROVE  Moved(stack, o, o) = stack
  <1> DEFINE t == Moved(stack, o, o)
  <1>1. /\ t \in Seq(S) /\ Len(t) = Len(stack)
        /\ \A j \in 1..Len(stack) :
              t[j] = IF j = o THEN stack[o]
                     ELSE IF j < o THEN (IF j < o THEN stack[j] ELSE stack[j + 1])
                     ELSE IF j - 1 < o THEN stack[j - 1] ELSE stack[j]
    BY MovedElements
  <1> HIDE DEF t
  <1>2. Len(stack) \in Nat
    BY LenProperties
  <1>3. \A j \in 1..Len(t) : t[j] = stack[j]
    BY <1>1, <1>2
  <1>4. QED
    BY <1>1, <1>3, SeqEqual DEF t

\* Appended first and removed then.
LEMMA MovedToEnd ==
  ASSUME NEW S, NEW stack \in Seq(S), NEW o \in 1..Len(stack)
  PROVE  RemoveAt(Append(stack, stack[o]), o) = Moved(stack, o, Len(stack))
  <1> DEFINE x == stack[o]
             a == Append(stack, x)
             t == RemoveAt(a, o)
             u == Moved(stack, o, Len(stack))
  <1>1. Len(stack) \in Nat /\ x \in S /\ Len(stack) \in 1..Len(stack)
    BY LenProperties, ElementOfSeq
  <1>2. /\ u \in Seq(S) /\ Len(u) = Len(stack)
        /\ \A j \in 1..Len(stack) :
              u[j] = IF j = Len(stack) THEN stack[o]
                     ELSE IF j < Len(stack) THEN (IF j < o THEN stack[j] ELSE stack[j + 1])
                     ELSE IF j - 1 < o THEN stack[j - 1] ELSE stack[j]
    BY <1>1, MovedElements
  <1> HIDE DEF x
  <1>3. /\ a \in Seq(S) /\ Len(a) = Len(stack) + 1
        /\ \A j \in 1..Len(stack) : a[j] = stack[j]
        /\ a[Len(stack) + 1] = x
    BY <1>1, AppendProperties
  <1> HIDE DEF a, u
  <1>4. o \in 1..Len(a)
    BY <1>1, <1>3
  <1>5. /\ t \in Seq(S) /\ Len(t) = Len(a) - 1
        /\ \A j \in 1..(Len(a) - 1) : t[j] = IF j < o THEN a[j] ELSE a[j + 1]
    BY <1>3, <1>4, RemoveElements
  <1> HIDE DEF t
  <1>6. Len(t) = Len(stack) /\ Len(a) - 1 = Len(stack)
    BY <1>1, <1>3, <1>5
  <1>7. ASSUME NEW j \in 1..Len(t)
        PROVE  t[j] = u[j]
    <2>1. CASE j = Len(stack)
      BY <1>1, <1>2, <1>3, <1>5, <1>6, <2>1 DEF x
    <2>2. CASE j < Len(stack) /\ j < o
      BY <1>1, <1>2, <1>3, <1>5, <1>6, <2>2
    <2>3. CASE j < Len(stack) /\ j >= o
      <3>1. t[j] = a[j + 1] /\ j + 1 \in 1..Len(stack)
        BY <1>1, <1>5, <1>6, <2>3
      <3>2. u[j] = stack[j + 1]
        BY <1>1, <1>2, <1>6, <2>3
      <3>3. QED
        BY <1>3, <3>1, <3>2
    <2>4. QED
      BY <1>1, <1>6, <2>1, <2>2, <2>3
  <1>8. t = u
    BY <1>2, <1>5, <1>6, <1>7, SeqEqual
  <1>9. QED
    BY <1>8 DEF t, u, a, x

\* Inserted first and removed then.
LEMMA MovedBack ==
  ASSUME NEW S, NEW stack \in Seq(S), NEW o \in 1..Len(stack), NEW n \in 1..Len(stack), n < o
  PROVE  RemoveAt(InsertAt(stack, n, stack[o]), o + 1) = Moved(stack, o, n)
  <1> DEFINE x == stack[o]
             a == InsertAt(stack, n, x)
             t == RemoveAt(a, o + 1)
             u == Moved(stack, o, n)
  <1>1. Len(stack) \in Nat /\ x \in S /\ n \in 1..(Len(stack) + 1)
    BY LenProperties, ElementOfSeq
  <1>2. /\ u \in Seq(S) /\ Len(u) = Len(stack)
        /\ \A j \in 1..Len(stack) :
              u[j] = IF j = n THEN stack[o]
                     ELSE IF j < n THEN (IF j < o THEN stack[j] ELSE stack[j + 1])
                     ELSE IF j - 1 < o THEN stack[j - 1] ELSE stack[j]
    BY MovedElements
  <1> HIDE DEF x
  <1>3. /\ a \in Seq(S) /\ Len(a) = Len(stack) + 1
        /\ \A j \in 1..(Len(stack) + 1) :
              a[j] = IF j < n THEN stack[j] ELSE IF j = n THEN x ELSE stack[j - 1]
    <2>1. PICK y \in S : y = x
      BY <1>1
    <2>2. /\ InsertAt(stack, n, y) \in Seq(S) /\ Len(InsertAt(stack, n, y)) = Len(stack) + 1
          /\ \A j \in 1..(Len(stack) + 1) :
                InsertAt(stack, n, y)[j] =
                   IF j < n THEN stack[j] ELSE IF j = n THEN y ELSE stack[j - 1]
      BY <1>1, InsertElements
    <2>3. QED
      BY <2>1, <2>2
  <1> HIDE DEF a, u
  <1>4. o + 1 \in 1..Len(a)
    BY <1>1, <1>3
  <1>5. /\ t \in Seq(S) /\ Len(t) = Len(a) - 1
        /\ \A j \in 1..(Len(a) - 1) : t[j] = IF j < o + 1 THEN a[j] ELSE a[j + 1]
    BY <1>3, <1>4, RemoveElements
  <1> HIDE DEF t
  <1>6. Len(t) = Len(stack) /\ Len(a) - 1 = Len(stack)
    BY <1>1, <1>3, <1>5
  <1>7. ASSUME NEW j \in 1..Len(t)
        PROVE  t[j] = u[j]
    <2>1. CASE j = n
      BY <1>1, <1>2, <1>3, <1>5, <1>6, <2>1 DEF x
    <2>2. CASE j < n
      BY <1>1, <1>2, <1>3, <1>5, <1>6, <2>2
    <2>3. CASE n < j /\ j <= o
      <3>1. t[j] = a[j] /\ j \in 1..(Len(stack) + 1)
        BY <1>1, <1>5, <1>6, <2>3
      <3>2. a[j] = stack[j - 1]
        BY <1>1, <1>3, <2>3, <3>1
      <3>3. u[j] = stack[j - 1]
        BY <1>1, <1>2, <1>6, <2>3
      <3>4. QED
        BY <3>1, <3>2, <3>3
    <2>4. CASE o < j
      <3>1. t[j] = a[j + 1] /\ j + 1 \in 1..(Len(stack) + 1)
        BY <1>1, <1>5, <1>6, <2>4
      <3>2. a[j + 1] = stack[(j + 1) - 1] /\ (j + 1) - 1 = j
        BY <1>1, <1>3, <2>4, <3>1
      <3>3. u[j] = stack[j]
        BY <1>1, <1>2, <1>6, <2>4
      <3>4. QED
        BY <3>1, <3>2, <3>3
    <2>5. QED
      BY <1>1, <1>6, <2>1, <2>2, <2>3, <2>4
  <1>8. t = u
    BY <1>2, <1>5, <1>6, <1>7, SeqEqual
  <1>9. QED
    BY <1>8 DEF t, u, a, x

\* A destination outside the stack means its nearest end.
Nearest(stack, j) == IF j < 1 THEN 1 ELSE IF j > Len(stack) THEN Len(stack) ELSE j

LEMMA MoveRegister ==
  ASSUME NEW S, NEW stack \in Seq(S), NEW i \in Int, NEW j \in Int
  PROVE  moveRPNRegister(stack, i, j) =
           IF HasRegister(stack, i)
           THEN Moved(stack, Position(stack, i), Position(stack, Nearest(stack, j)))
           ELSE stack
  <1> DEFINE L == Len(stack)
             o == Position(stack, i)
             n == IF j > Len(stack) THEN 1 ELSE Position(stack, j)
  <1>1. L \in Nat
    BY LenProperties
  <1>2. CASE ~HasRegister(stack, i)
    BY <1>2 DEF moveRPNRegister
  <1>3. CASE HasRegister(stack, i)
    <2>1. o \in 1..L /\ o = L - i + 1 /\ i \in 1..L
      BY <1>3, PositionType DEF Position, HasRegister
    <2>2. CASE i = j
      <3>1. Position(stack, Nearest(stack, j)) = o
        BY <1>1, <2>1, <2>2 DEF Nearest
      <3>2. moveRPNRegister(stack, i, j) = stack
        BY <2>2 DEF moveRPNRegister
      <3>3. QED
        BY <1>3, <2>1, <3>1, <3>2, MovedNowhere
    <2>3. CASE i # j /\ j <= 1
      <3>1. j <= L /\ Position(stack, Nearest(stack, j)) = L
        BY <1>1, <2>1, <2>3 DEF Nearest, Position
      <3>2. moveRPNRegister(stack, i, j) = RemoveAt(Append(stack, stack[o]), o)
        BY <1>3, <2>3, <3>1 DEF moveRPNRegister
      <3>3. QED
        BY <1>3, <2>1, <3>1, <3>2, MovedToEnd
    <2>4. CASE i # j /\ j > 1
      <3>1. n \in 1..L /\ n = Position(stack, Nearest(stack, j))
        <4>1. CASE j > L
          <5>1. Nearest(stack, j) = L /\ n = 1
            BY <1>1, <2>4, <4>1 DEF Nearest
          <5>2. QED
            BY <1>1, <2>1, <5>1 DEF Position
        <4>2. CASE j <= L
          <5>1. Nearest(stack, j) = j /\ n = L - j + 1
            BY <1>1, <2>4, <4>2 DEF Nearest, Position
          <5>2. QED
            BY <1>1, <2>4, <4>2, <5>1 DEF Position
        <4>3. QED
          BY <1>1, <4>1, <4>2
      <3>2. moveRPNRegister(stack, i, j) =
              IF n > o THEN InsertAt(RemoveAt(stack, o), n, stack[o])
              ELSE IF n < o THEN RemoveAt(InsertAt(stack, n, stack[o]), o + 1)
              ELSE stack
        BY <1>3, <2>4 DEF moveRPNRegister
      <3> HIDE DEF n, o
      <3>3. moveRPNRegister(stack, i, j) = Moved(stack, o, n)
        <4>1. CASE n > o
          BY <3>2, <4>1 DEF Moved
        <4>2. CASE n < o
          <5>1. ~(n > o)
            BY <1>1, <2>1, <3>1, <4>2
          <5>2. QED
            BY <2>1, <3>1, <3>2, <4>2, <5>1, MovedBack
        <4>3. CASE n = o
          <5>1. ~(n > o) /\ ~(n < o)
            BY <1>1, <2>1, <4>3
          <5>2. QED
            BY <2>1, <3>2, <4>3, <5>1, MovedNowhere
        <4>4. QED
          BY <1>1, <2>1, <3>1, <4>1, <4>2, <4>3
      <3>4. QED
        BY <1>3, <3>1, <3>3 DEF o
    <2>5. QED
      BY <2>2, <2>3, <2>4
  <1>4. QED
    BY <1>2, <1>3

LEMMA MoveRegisterUp ==
  ASSUME NEW S, NEW stack \in Seq(S), NEW i \in Int
  PROVE  moveRPNRegisterUp(stack, i) =
           IF HasRegister(stack, i) /\ HasRegister(stack, i - 1)
           THEN Moved(stack, Position(stack, i), Position(stack, i - 1))
           ELSE stack
  <1>1. Len(stack) \in Nat
    BY LenProperties
  <1>2. (i > 1 /\ i <= Len(stack)) <=> (HasRegister(stack, i) /\ HasRegister(stack, i - 1))
    BY <1>1 DEF HasRegister
  <1>3. Position(stack, i) + 1 = Position(stack, i - 1)
    BY <1>1 DEF Position
  <1>4. QED
    BY <1>2, <1>3 DEF moveRPNRegisterUp, Moved

LEMMA MoveRegisterDown ==
  ASSUME NEW S, NEW stack \in Seq(S), NEW i \in Int
  PROVE  moveRPNRegisterDown(stack, i) =
           IF HasRegister(stack, i) /\ HasRegister(stack, i + 1)
           THEN Moved(stack, Position(stack, i), Position(stack, i + 1))
           ELSE stack
  <1>1. Len(stack) \in Nat
    BY LenProperties
  <1>2. (i > 0 /\ i < Len(stack)) <=> (HasRegister(stack, i) /\ HasRegister(stack, i + 1))
    BY <1>1 DEF HasRegister
  <1>3. Position(stack, i) - 1 = Position(stack, i + 1)
    BY <1>1 DEF Position
  <1>4. QED
    BY <1>2, <1>3 DEF moveRPNRegisterDown, Moved
-----------------------------------------------------------------------------
(* References.                                                             *)

\* What the registers hold has one reference, everything else none.
Owned ==
    defined =>
        /\ Distinct(rpn_stack)
        /\ \A s \in Structures : refs[s] = IF s \in ToSet(rpn_stack) THEN 1 ELSE 0

LEMMA StackFacts ==
  ASSUME StackTypeOK
  PROVE  /\ rpn_stack \in Seq(Structures) /\ Len(rpn_stack) \in Nat
         /\ Len(rpn_stack) <= MaxRegisters
         /\ ToSet(rpn_stack) = {rpn_stack[i] : i \in 1..Len(rpn_stack)}
         /\ ToSet(rpn_stack) \subseteq Structures
  BY Elements DEF StackTypeOK

\* The least element of a set is the one its definition picks.
LEMMA MinIs ==
  ASSUME NEW T, T \subseteq Int, NEW m \in T, \A y \in T : m <= y
  PROVE  Min(T) = m
  <1>1. \A x \in T : (\A y \in T : x <= y) => x = m
    OBVIOUS
  <1>2. QED
    BY <1>1 DEF Min

\* A set of natural numbers has a least element.
LEMMA MinExists ==
  ASSUME NEW T, T \subseteq Nat, T # {}
  PROVE  Min(T) \in T /\ \A y \in T : Min(T) <= y
  <1> DEFINE R == {p \in Nat \X Nat : p[1] < p[2]}
  <1>1. IsWellFoundedOn(R, Nat)
    BY NatLessThanWellFounded DEF OpToRel
  <1>2. PICK x \in T : \A y \in T : ~(<<y, x>> \in R)
    BY <1>1, WFMin
  <1>3. \A y \in T : x <= y
    <2> SUFFICES ASSUME NEW y \in T PROVE x <= y
      OBVIOUS
    <2>1. x \in Nat /\ y \in Nat
      OBVIOUS
    <2>2. (y < x) => <<y, x>> \in R
      BY <2>1
    <2> HIDE DEF R
    <2>3. QED
      BY <1>2, <2>1, <2>2
  <1>4. Min(T) = x
    <2>1. T \subseteq Int
      OBVIOUS
    <2>2. QED
      BY <1>3, <2>1, MinIs
  <1>5. QED
    BY <1>3, <1>4

LEMMA StructuresAreNat == Structures \subseteq Nat
  BY RPNStackAssumption DEF Structures

\* A new structure is in no register.
LEMMA Fresh ==
  ASSUME StackTypeOK, Owned, defined, Unused # {}
  PROVE  New \in Structures /\ refs[New] = 0 /\ New \notin ToSet(rpn_stack)
  <1>1. Unused \subseteq Nat
    BY StructuresAreNat DEF Unused
  <1>2. New \in Unused
    BY <1>1, MinExists DEF New
  <1>3. QED
    BY <1>2 DEF Unused, Owned

\* What the stack holds after references were dropped and taken.
Consistent(T) ==
    /\ refs' \in [Structures -> {0, 1}]
    /\ Holds(rpn_stack', T) => Owned'

LEMMA UnrefConsistent ==
  ASSUME StackTypeOK, Owned, defined, NEW dropped, dropped \subseteq ToSet(rpn_stack),
         Unref(dropped)
  PROVE  Consistent(ToSet(rpn_stack) \ dropped)
  <1>1. /\ \A s \in Structures : refs'[s] = IF s \in dropped THEN refs[s] - 1 ELSE refs[s]
        /\ refs' = [s \in Structures |-> Released(dropped, s)]
    BY DEF Unref, Released
  <1>2. \A s \in Structures : refs[s] = IF s \in ToSet(rpn_stack) THEN 1 ELSE 0
    BY DEF Owned
  <1>3. \A s \in Structures :
           refs'[s] = IF s \in ToSet(rpn_stack) \ dropped THEN 1 ELSE 0
    BY <1>1, <1>2
  <1>4. refs' \in [Structures -> {0, 1}]
    BY <1>1, <1>3
  <1>5. QED
    BY <1>3, <1>4 DEF Consistent, Owned, Holds

LEMMA NewConsistent ==
  ASSUME StackTypeOK, Owned, defined, NEW dropped, dropped \subseteq ToSet(rpn_stack),
         UnrefAndNew(dropped)
  PROVE  Consistent((ToSet(rpn_stack) \ dropped) \cup {New})
  <1>1. /\ \A s \in Structures : refs'[s] = IF s = New THEN 1
                                            ELSE IF s \in dropped THEN refs[s] - 1 ELSE refs[s]
        /\ refs' = [s \in Structures |-> IF s = New THEN 1 ELSE Released(dropped, s)]
    BY DEF UnrefAndNew, Released
  <1>2. \A s \in Structures : refs[s] = IF s \in ToSet(rpn_stack) THEN 1 ELSE 0
    BY DEF Owned
  <1>3. New \notin ToSet(rpn_stack)
    BY Fresh DEF UnrefAndNew
  <1>4. \A s \in Structures :
           refs'[s] = IF s \in (ToSet(rpn_stack) \ dropped) \cup {New} THEN 1 ELSE 0
    BY <1>1, <1>2, <1>3
  <1>5. refs' \in [Structures -> {0, 1}]
    BY <1>1, <1>4
  <1>6. QED
    BY <1>4, <1>5 DEF Consistent, Owned, Holds

\* The stack keeps its type and its bound.
StackType == rpn_stack \in Seq(Structures) /\ Len(rpn_stack) <= MaxRegisters

RefsType == refs \in [Structures -> {0, 1}] /\ defined \in BOOLEAN

\* The registers numbered up to n, as far as there are.
LEMMA FirstRegisters ==
  ASSUME StackTypeOK, NEW n \in Nat
  PROVE  /\ Taking(rpn_stack, n) \in 0..Len(rpn_stack)
         /\ First(n) = Registers(rpn_stack, Taking(rpn_stack, n))
         /\ First(n) \subseteq ToSet(rpn_stack)
  <1>1. Len(rpn_stack) \in Nat /\ ToSet(rpn_stack) = {rpn_stack[i] : i \in 1..Len(rpn_stack)}
    BY StackFacts
  <1>2. Taking(rpn_stack, n) \in 0..Len(rpn_stack)
    BY <1>1 DEF Taking
  <1>3. \A i : (i \in 1..n /\ HasRegister(rpn_stack, i)) <=> i \in 1..Taking(rpn_stack, n)
    BY <1>1 DEF Taking, HasRegister
  <1>4. First(n) = Registers(rpn_stack, Taking(rpn_stack, n))
    BY <1>3 DEF First, Registers
  <1>5. \A i \in 1..Len(rpn_stack) : Position(rpn_stack, i) \in 1..Len(rpn_stack)
    BY <1>1 DEF Position
  <1>6. First(n) \subseteq ToSet(rpn_stack)
    BY <1>1, <1>5 DEF First, HasRegister, Register
  <1>7. QED
    BY <1>2, <1>4, <1>6

\* A calculation: the registers it takes off are dropped, its result is new.
LEMMA ComputedStep ==
  ASSUME StackTypeOK, Owned, defined, NEW k \in 0..Len(rpn_stack), Room \/ k > 0,
         UnrefAndNew(Registers(rpn_stack, k)), rpn_stack' = Computed(rpn_stack, k, New),
         defined' \in BOOLEAN
  PROVE  StackType' /\ RefsType' /\ Owned'
  <1>1. /\ rpn_stack \in Seq(Structures) /\ Len(rpn_stack) \in Nat
        /\ Len(rpn_stack) <= MaxRegisters /\ Distinct(rpn_stack)
    BY StackFacts DEF Owned
  <1>2. New \in Structures /\ New \notin ToSet(rpn_stack)
    BY Fresh DEF UnrefAndNew
  <1>3. StackType'
    <2>1. rpn_stack' \in Seq(Structures) /\ Len(rpn_stack') = Len(rpn_stack) - k + 1
      <3>1. PICK x \in Structures : x = New
        BY <1>2
      <3>2. PICK stack \in Seq(Structures) : stack = rpn_stack
        BY <1>1
      <3>3. k \in 0..Len(stack)
        BY <3>2
      <3>4. /\ Computed(stack, k, x) \in Seq(Structures)
            /\ Len(Computed(stack, k, x)) = Len(stack) - k + 1
        BY <3>3, ComputedElements
      <3>5. QED
        BY <3>1, <3>2, <3>4
    <2>2. QED
      BY <1>1, <2>1, RPNStackAssumption DEF StackType, Room
  <1>4. Registers(rpn_stack, k) \subseteq ToSet(rpn_stack)
    <2>1. \A i \in 1..k : Position(rpn_stack, i) \in 1..Len(rpn_stack)
      BY <1>1 DEF Position
    <2>2. QED
      BY <2>1, StackFacts DEF Registers, Register
  <1>5. Consistent((ToSet(rpn_stack) \ Registers(rpn_stack, k)) \cup {New})
    BY <1>4, NewConsistent
  <1>6. Holds(rpn_stack', (ToSet(rpn_stack) \ Registers(rpn_stack, k)) \cup {New})
    BY <1>1, <1>2, ComputedHolds
  <1>7. QED
    BY <1>3, <1>5, <1>6 DEF Consistent, RefsType

\* Of the registers an operation of n arguments works on.
LEMMA AvailableStep ==
  ASSUME StackTypeOK, Owned, defined, NEW n \in Nat, Room \/ Taking(rpn_stack, n) > 0,
         UnrefAndNew(First(n)),
         rpn_stack' = Computed(rpn_stack, Taking(rpn_stack, n), New), defined' \in BOOLEAN
  PROVE  StackType' /\ RefsType' /\ Owned'
  BY FirstRegisters, ComputedStep

\* A step that moves registers.
LEMMA MovedStep ==
  ASSUME StackTypeOK, Owned, defined, UNCHANGED <<refs, defined>>,
         \/ rpn_stack' = rpn_stack
         \/ \E o, n \in 1..Len(rpn_stack) : rpn_stack' = Moved(rpn_stack, o, n)
  PROVE  StackType' /\ RefsType' /\ Owned'
  <1>1. /\ rpn_stack \in Seq(Structures) /\ Len(rpn_stack) <= MaxRegisters
        /\ Distinct(rpn_stack)
    BY StackFacts DEF Owned
  <1>2. StackType' /\ Holds(rpn_stack', ToSet(rpn_stack))
    <2>1. CASE rpn_stack' = rpn_stack
      BY <1>1, <2>1 DEF StackType, Holds
    <2>2. ASSUME NEW o \in 1..Len(rpn_stack), NEW n \in 1..Len(rpn_stack),
                 rpn_stack' = Moved(rpn_stack, o, n)
          PROVE  StackType' /\ Holds(rpn_stack', ToSet(rpn_stack))
      BY <1>1, <2>2, MovedElements, MovedHolds DEF StackType
    <2>3. QED
      BY <2>1, <2>2
  <1>3. RefsType'
    BY DEF StackTypeOK, RefsType
  <1>4. Owned'
    BY <1>2 DEF Holds, Owned
  <1>5. QED
    BY <1>2, <1>3, <1>4

\* The three ways to move a register.
LEMMA MoveStep ==
  ASSUME StackTypeOK, NEW i \in Indices, NEW j \in Indices, Move(i, j)
  PROVE  \/ rpn_stack' = rpn_stack
         \/ \E o, n \in 1..Len(rpn_stack) : rpn_stack' = Moved(rpn_stack, o, n)
  <1>1. rpn_stack \in Seq(Structures) /\ Len(rpn_stack) \in Nat
    BY StackFacts
  <1>2. i \in Int /\ j \in Int /\ i - 1 \in Int /\ i + 1 \in Int
    BY RPNStackAssumption DEF Indices
  <1>3. \A k : HasRegister(rpn_stack, k) => Position(rpn_stack, k) \in 1..Len(rpn_stack)
    BY <1>1 DEF HasRegister, Position
  <1>4. CASE rpn_stack' = moveRPNRegister(rpn_stack, i, j)
    <2>1. HasRegister(rpn_stack, i) => HasRegister(rpn_stack, Nearest(rpn_stack, j))
      BY <1>1, <1>2 DEF HasRegister, Nearest
    <2>2. QED
      BY <1>1, <1>2, <1>3, <1>4, <2>1, MoveRegister
  <1>5. CASE rpn_stack' = moveRPNRegisterUp(rpn_stack, i)
    BY <1>1, <1>2, <1>3, <1>5, MoveRegisterUp
  <1>6. CASE rpn_stack' = moveRPNRegisterDown(rpn_stack, i)
    BY <1>1, <1>2, <1>3, <1>6, MoveRegisterDown
  <1>7. QED
    BY <1>4, <1>5, <1>6 DEF Move
-----------------------------------------------------------------------------
(* The steps.                                                              *)

\* The rounds of the synchronous function remove registers that exist.
LEMMA TakenIs ==
  ASSUME StackTypeOK, NEW n \in Nat
  PROVE  Taken(n) = Taking(rpn_stack, n) /\ Taken(n) \in 0..Len(rpn_stack)
  <1>1. Len(rpn_stack) \in Nat
    BY StackFacts
  <1> DEFINE T == {n, Len(rpn_stack)}
  <1>2. T \subseteq Int /\ Taking(rpn_stack, n) \in T
        /\ \A y \in T : Taking(rpn_stack, n) <= y
    BY <1>1 DEF Taking
  <1>3. Min(T) = Taking(rpn_stack, n)
    BY <1>2, MinIs
  <1>4. QED
    BY <1>1, <1>3 DEF Taken, Taking

LEMMA RemovedRange ==
  ASSUME StackTypeOK, NEW n \in Nat
  PROVE  Removed(n) \in 0..Len(rpn_stack) /\ (Taken(n) = 1 => Removed(n) = 0)
  <1>1. Len(rpn_stack) \in Nat /\ Taken(n) \in 0..Len(rpn_stack)
    BY StackFacts, TakenIs
  <1> DEFINE h == Len(rpn_stack) \div 2
             T == {Taken(n) - 1, h}
  <1>2. h \in Nat /\ 2 * h <= Len(rpn_stack)
    BY <1>1
  <1> HIDE DEF h
  <1>3. CASE Taken(n) = 0
    BY <1>1, <1>3 DEF Removed
  <1>4. CASE Taken(n) # 0
    <2>1. T \subseteq Nat
      BY <1>1, <1>2, <1>4
    <2>2. Min(T) \in T /\ \A y \in T : Min(T) <= y
      BY <2>1, MinExists
    <2>3. Min(T) \in Nat /\ Min(T) <= Taken(n) - 1 /\ Min(T) <= h
      BY <2>1, <2>2
    <2>4. Removed(n) = 2 * Min(T)
      BY <1>4 DEF Removed, h
    <2> HIDE DEF T
    <2>5. Removed(n) \in 0..Len(rpn_stack)
      BY <1>1, <1>2, <2>3, <2>4
    <2>6. Taken(n) = 1 => Removed(n) = 0
      BY <2>3, <2>4
    <2>7. QED
      BY <2>5, <2>6
  <1>5. QED
    BY <1>3, <1>4

\* The value of Available for one and two registers.
LEMMA AvailableFew ==
  ASSUME StackTypeOK
  PROVE  /\ Taking(rpn_stack, 1) \in 0..1 /\ (rpn_stack # <<>> => Taking(rpn_stack, 1) > 0)
         /\ rpn_stack # <<>> => Taking(rpn_stack, 2) > 0
  <1>1. rpn_stack \in Seq(Structures) /\ Len(rpn_stack) \in Nat
    BY StackFacts
  <1>2. rpn_stack # <<>> => Len(rpn_stack) > 0
    BY <1>1, EmptySeq
  <1>3. QED
    BY <1>1, <1>2 DEF Taking

LEMMA SyncFunctionStep ==
  ASSUME StackTypeOK, Owned, defined, NEW n \in Arities, SyncFunction(n)
  PROVE  StackType' /\ RefsType' /\ Owned'
  <1>1. n \in Nat /\ rpn_stack \in Seq(Structures) /\ Len(rpn_stack) \in Nat
        /\ Len(rpn_stack) <= MaxRegisters
    BY StackFacts, RPNStackAssumption
  <1>2. Taken(n) \in 0..Len(rpn_stack) /\ Removed(n) \in 0..Len(rpn_stack)
    BY <1>1, TakenIs, RemovedRange
  <1>3. New \in Structures
    BY Fresh DEF SyncFunction, UnrefAndNew
  <1>4. PICK x \in Structures : x = New
    BY <1>3
  <1>5. CASE Taken(n) = 0
    <2>1. Removed(n) = 0 /\ Room /\ UnrefAndNew({}) /\ defined' \in BOOLEAN
      <3>1. Removed(n) = 0
        BY <1>5 DEF Removed
      <3>2. Room
        BY <1>5 DEF SyncFunction
      <3>3. UnrefAndNew({})
        BY <1>5 DEF SyncFunction
      <3>4. defined' \in BOOLEAN
        BY DEF SyncFunction
      <3>5. QED
        BY <3>1, <3>2, <3>3, <3>4
    <2>2. rpn_stack' = RPNStackEnter(DropRegisters(rpn_stack, 0), x)
      BY <1>4, <1>5, <2>1 DEF SyncFunction
    <2>3. DropRegisters(rpn_stack, 0) = rpn_stack
      <3>1. Len(rpn_stack) - 0 = Len(rpn_stack)
        BY <1>1
      <3>2. QED
        BY <1>1, <3>1, SubSeqFull DEF DropRegisters
    <2>4. rpn_stack' = Computed(rpn_stack, 0, New)
      BY <1>1, <1>4, <2>2, <2>3, EnterComputed
    <2>5. Registers(rpn_stack, 0) = {}
      BY DEF Registers
    <2>6. PICK k \in 0..Len(rpn_stack) : k = 0
      BY <1>1
    <2>7. /\ UnrefAndNew(Registers(rpn_stack, k)) /\ rpn_stack' = Computed(rpn_stack, k, New)
          /\ Room \/ k > 0
      BY <2>1, <2>4, <2>5, <2>6
    <2>8. QED
      BY <2>1, <2>7, ComputedStep
  <1>6. CASE Taken(n) # 0 /\ Removed(n) < Len(rpn_stack)
    <2>1. UnrefAndNew(First(Removed(n) + 1)) /\ defined' = TRUE
          /\ rpn_stack' = setRPNRegister(DropRegisters(rpn_stack, Removed(n)), 1, x)
      BY <1>4, <1>6 DEF SyncFunction
    <2>2. Removed(n) \in 0..(Len(rpn_stack) - 1)
      BY <1>1, <1>2, <1>6
    <2>3. rpn_stack' = Computed(rpn_stack, Removed(n) + 1, New)
      BY <1>1, <1>4, <2>1, <2>2, DropComputed
    <2>4. /\ Removed(n) + 1 \in Nat
          /\ Taking(rpn_stack, Removed(n) + 1) = Removed(n) + 1
          /\ Removed(n) + 1 > 0
      BY <1>1, <2>2 DEF Taking
    <2>5. QED
      BY <2>1, <2>3, <2>4, AvailableStep
  <1>7. CASE Taken(n) # 0 /\ ~(Removed(n) < Len(rpn_stack))
    <2>1. UnrefAndNew(First(Removed(n) + 1)) /\ defined' = FALSE
          /\ rpn_stack' = setRPNRegister(DropRegisters(rpn_stack, Removed(n)), 1, x)
      BY <1>4, <1>7 DEF SyncFunction
    <2>2. Removed(n) + 1 \in Nat /\ Removed(n) = Len(rpn_stack)
      BY <1>1, <1>2, <1>7
    <2>3. RefsType'
      <3>1. First(Removed(n) + 1) \subseteq ToSet(rpn_stack)
        BY <2>2, FirstRegisters
      <3>2. QED
        BY <2>1, <3>1, NewConsistent DEF Consistent, RefsType
    <2>4. StackType'
      <3>1. Len(rpn_stack) - Removed(n) \in 0..Len(rpn_stack)
        BY <1>1, <2>2
      <3>2. /\ DropRegisters(rpn_stack, Removed(n)) \in Seq(Structures)
            /\ Len(DropRegisters(rpn_stack, Removed(n))) = Len(rpn_stack) - Removed(n)
        BY <1>1, <3>1, FrontType DEF DropRegisters
      <3>3. /\ rpn_stack' \in Seq(Structures)
            /\ Len(rpn_stack') = Len(rpn_stack) - Removed(n)
        BY <2>1, <3>2, SetType
      <3>4. QED
        BY <1>1, <2>2, <3>3, RPNStackAssumption DEF StackType
    <2>5. QED
      BY <2>1, <2>3, <2>4 DEF Owned
  <1>8. QED
    BY <1>5, <1>6, <1>7

\* No call loses a reference, drops one twice or shares a register.
LEMMA StackStep ==
  ASSUME StackTypeOK, Owned, defined, StackNext
  PROVE  StackType' /\ RefsType' /\ Owned'
  <1>1. /\ rpn_stack \in Seq(Structures) /\ Len(rpn_stack) \in Nat
        /\ Len(rpn_stack) <= MaxRegisters /\ Distinct(rpn_stack)
        /\ ToSet(rpn_stack) \subseteq Structures
    BY StackFacts DEF Owned
  <1>2. CASE Enter
    <2>1. Room /\ UnrefAndNew({}) /\ rpn_stack' = RPNStackEnter(rpn_stack, New) /\ defined' = TRUE
      BY <1>2 DEF Enter
    <2>2. New \in Structures
      BY <2>1, Fresh DEF UnrefAndNew
    <2>3. rpn_stack' = Computed(rpn_stack, 0, New)
      BY <1>1, <2>1, <2>2, EnterComputed
    <2>4. Registers(rpn_stack, 0) = {} /\ 0 \in 0..Len(rpn_stack)
      BY <1>1 DEF Registers
    <2>5. QED
      BY <2>1, <2>3, <2>4, ComputedStep
  <1>3. CASE clearRPNStack
    <2>1. Unref(ToSet(rpn_stack)) /\ rpn_stack' = <<>> /\ defined' = TRUE
      BY <1>3 DEF clearRPNStack
    <2>2. rpn_stack' \in Seq(Structures) /\ Len(rpn_stack') = 0 /\ ToSet(rpn_stack') = {}
      BY <2>1 DEF ToSet
    <2>3. Holds(rpn_stack', ToSet(rpn_stack) \ ToSet(rpn_stack))
      BY <2>2 DEF Holds, Distinct
    <2>4. Consistent(ToSet(rpn_stack) \ ToSet(rpn_stack))
      BY <2>1, UnrefConsistent
    <2>5. QED
      BY <2>1, <2>2, <2>3, <2>4, RPNStackAssumption DEF Consistent, StackType, RefsType
  <1>4. ASSUME NEW i \in Indices, Set(i)
        PROVE  StackType' /\ RefsType' /\ Owned'
    <2> DEFINE p == Position(rpn_stack, i)
    <2>1. /\ HasRegister(rpn_stack, i) /\ UnrefAndNew({rpn_stack[p]}) /\ defined' = TRUE
          /\ rpn_stack' = ReplaceAt(rpn_stack, p, New)
      BY <1>4 DEF Set, Register, setRPNRegister
    <2>2. p \in 1..Len(rpn_stack) /\ rpn_stack[p] \in ToSet(rpn_stack)
      BY <1>1, <2>1, StackFacts, PositionType
    <2>3. New \in Structures /\ New \notin ToSet(rpn_stack)
      BY <2>1, Fresh DEF UnrefAndNew
    <2> HIDE DEF p
    <2>4. StackType'
      <3>1. rpn_stack' \in Seq(Structures) /\ Len(rpn_stack') = Len(rpn_stack)
        BY <1>1, <2>1, <2>2, <2>3, ExceptSeq DEF ReplaceAt
      <3>2. QED
        BY <1>1, <3>1 DEF StackType
    <2>5. Consistent((ToSet(rpn_stack) \ {rpn_stack[p]}) \cup {New})
      BY <2>1, <2>2, NewConsistent
    <2>6. Holds(rpn_stack', (ToSet(rpn_stack) \ {rpn_stack[p]}) \cup {New})
      BY <1>1, <2>1, <2>2, <2>3, ReplaceHolds
    <2>7. QED
      BY <2>1, <2>4, <2>5, <2>6 DEF Consistent, RefsType
  <1>5. ASSUME NEW i \in Indices, SetNothing(i)
        PROVE  StackType' /\ RefsType' /\ Owned'
    BY <1>5, MovedStep DEF SetNothing
  <1>6. ASSUME NEW i \in Indices, Delete(i)
        PROVE  StackType' /\ RefsType' /\ Owned'
    <2>1. CASE HasRegister(rpn_stack, i)
      <3> DEFINE p == Position(rpn_stack, i)
      <3>1. /\ Unref({rpn_stack[p]}) /\ defined' = TRUE /\ rpn_stack' = RemoveAt(rpn_stack, p)
        BY <1>6, <2>1 DEF Delete, Register, deleteRPNRegister
      <3>2. p \in 1..Len(rpn_stack) /\ rpn_stack[p] \in ToSet(rpn_stack)
        BY <1>1, <2>1, StackFacts, PositionType
      <3> HIDE DEF p
      <3>3. StackType'
        <4>1. rpn_stack' \in Seq(Structures) /\ Len(rpn_stack') = Len(rpn_stack) - 1
          BY <1>1, <3>1, <3>2, RemoveElements
        <4>2. QED
          BY <1>1, <4>1, RPNStackAssumption DEF StackType
      <3>4. Consistent(ToSet(rpn_stack) \ {rpn_stack[p]})
        BY <3>1, <3>2, UnrefConsistent
      <3>5. Holds(rpn_stack', ToSet(rpn_stack) \ {rpn_stack[p]})
        BY <1>1, <3>1, <3>2, RemoveHolds
      <3>6. QED
        BY <3>1, <3>3, <3>4, <3>5 DEF Consistent, RefsType
    <2>2. CASE ~HasRegister(rpn_stack, i)
      <3>1. Unref({}) /\ defined' = TRUE /\ rpn_stack' = rpn_stack
        BY <1>6, <2>2 DEF Delete, deleteRPNRegister
      <3>2. Consistent(ToSet(rpn_stack) \ {})
        BY <3>1, UnrefConsistent
      <3>3. Holds(rpn_stack', ToSet(rpn_stack) \ {}) /\ StackType'
        BY <1>1, <3>1 DEF Holds, StackType
      <3>4. QED
        BY <3>1, <3>2, <3>3 DEF Consistent, RefsType
    <2>3. QED
      BY <2>1, <2>2
  <1>7. ASSUME NEW i \in Indices, NEW j \in Indices, Move(i, j)
        PROVE  StackType' /\ RefsType' /\ Owned'
    <2>1. UNCHANGED <<refs, defined>>
      BY <1>7 DEF Move
    <2>2. QED
      BY <1>7, <2>1, MoveStep, MovedStep
  <1>8. ASSUME NEW op \in Operators, NEW async \in BOOLEAN, Binary(op, async)
        PROVE  StackType' /\ RefsType' /\ Owned'
    <2>1. /\ Room \/ rpn_stack # <<>>
          /\ UnrefAndNew(First(2)) /\ rpn_stack' = OperationTwo(rpn_stack, New)
          /\ defined' = TRUE
      BY <1>8 DEF Binary, Perform
    <2>2. New \in Structures
      BY <2>1, Fresh DEF UnrefAndNew
    <2>3. rpn_stack' = Computed(rpn_stack, Taking(rpn_stack, 2), New)
      BY <1>1, <2>1, <2>2, OperationTwoComputed
    <2>4. Room \/ Taking(rpn_stack, 2) > 0
      BY <2>1, AvailableFew
    <2>5. QED
      BY <2>1, <2>3, <2>4, AvailableStep
  <1>9. ASSUME NEW logical \in BOOLEAN, NEW parsed \in BOOLEAN, NEW async \in BOOLEAN,
               Not(logical, parsed, async)
        PROVE  StackType' /\ RefsType' /\ Owned'
    <2>1. /\ Room \/ rpn_stack # <<>>
          /\ UnrefAndNew(First(1)) /\ rpn_stack' = ReplaceFirst(rpn_stack, New)
      BY <1>9 DEF Not, Perform
    <2>2. defined' \in BOOLEAN
      BY <1>9 DEF Not
    <2>3. New \in Structures
      BY <2>1, Fresh DEF UnrefAndNew
    <2>4. rpn_stack' = Computed(rpn_stack, Taking(rpn_stack, 1), New)
      BY <1>1, <2>1, <2>3, ReplaceFirstComputed
    <2>5. Room \/ Taking(rpn_stack, 1) > 0
      BY <2>1, AvailableFew
    <2>6. QED
      BY <2>1, <2>2, <2>4, <2>5, AvailableStep
  <1>10. ASSUME NEW n \in Arities, AsyncFunction(n)
         PROVE  StackType' /\ RefsType' /\ Owned'
    <2>1. n \in Nat /\ Taken(n) = Taking(rpn_stack, n) /\ Taken(n) \in 0..Len(rpn_stack)
      BY TakenIs, RPNStackAssumption
    <2>2. /\ Room \/ Taken(n) > 0
          /\ UnrefAndNew(First(Taken(n))) /\ defined' = TRUE
          /\ rpn_stack' = OperationFunction(rpn_stack, Taken(n), New)
      BY <1>10 DEF AsyncFunction, Perform
    <2>3. New \in Structures
      BY <2>2, Fresh DEF UnrefAndNew
    <2>4. rpn_stack' = Computed(rpn_stack, Taken(n), New)
      BY <1>1, <2>1, <2>2, <2>3, OperationFunctionComputed
    <2>5. Taking(rpn_stack, Taken(n)) = Taken(n) /\ Taken(n) \in Nat
      BY <1>1, <2>1 DEF Taking
    <2>6. QED
      BY <2>2, <2>4, <2>5, AvailableStep
  <1>11. QED
    BY <1>2, <1>3, <1>4, <1>5, <1>6, <1>7, <1>8, <1>9, <1>10, SyncFunctionStep DEF StackNext
-----------------------------------------------------------------------------
(* The calls, and what every calculation was applied to.                   *)

Values == Structures \cup {0, One}

CallType ==
    /\ made.args \in Seq(Values)
    /\ Record(made.name, made.i, made.j) \in StackCalls \cup {Record("none", 0, 0)}
    /\ made.thread \in BOOLEAN

LEMMA CalledType ==
  ASSUME NEW c, NEW args \in Seq(Values), NEW thread \in BOOLEAN, Called(c, args, thread)
  PROVE  CallType'
  <1>1. c \in StackCalls /\ made' = Made(c, args, thread)
    BY DEF Called
  <1>2. PICK name, i, j : c = Record(name, i, j)
    BY <1>1 DEF StackCalls
  <1>3. Record(c.name, c.i, c.j) = c
    BY <1>2 DEF Record
  <1>4. /\ made'.name = c.name /\ made'.i = c.i /\ made'.j = c.j
        /\ made'.args = args
    BY <1>1 DEF Made
  <1>5. made'.thread = thread
    BY <1>1 DEF Made
  <1>6. Record(made'.name, made'.i, made'.j) \in StackCalls
    BY <1>1, <1>3, <1>4
  <1>7. made'.thread \in BOOLEAN
    BY <1>5
  <1>8. (made.args \in Seq(Values))'
    BY <1>4 DEF Values, Structures, One
  <1>9. (Record(made.name, made.i, made.j) \in StackCalls)'
    <2>1. Record(made.name, made.i, made.j)' = Record(made'.name, made'.i, made'.j)
      BY DEF Record
    <2>2. StackCalls' = StackCalls
      BY DEF StackCalls, Record, Indices
    <2>3. QED
      BY <1>6, <2>1, <2>2
  <1>10. QED
    BY <1>7, <1>8, <1>9 DEF CallType

LEMMA OperandType ==
  ASSUME StackTypeOK, NEW i \in Int
  PROVE  OrZero(i) \in Values
  <1>1. rpn_stack \in Seq(Structures) /\ Len(rpn_stack) \in Nat
    BY StackFacts
  <1>2. CASE HasRegister(rpn_stack, i)
    <2>1. Position(rpn_stack, i) \in 1..Len(rpn_stack)
      BY <1>1, <1>2 DEF HasRegister, Position
    <2>2. rpn_stack[Position(rpn_stack, i)] \in Structures
      BY <1>1, <2>1
    <2>3. QED
      BY <1>2, <2>2 DEF OrZero, Register, Values
  <1>3. CASE ~HasRegister(rpn_stack, i)
    BY <1>3 DEF OrZero, Values
  <1>4. QED
    BY <1>2, <1>3

LEMMA ArgumentsType ==
  ASSUME StackTypeOK, NEW n \in Nat
  PROVE  Arguments(n) \in Seq(Values)
  <1>1. \A k \in 1..n : n - k + 1 \in Int
    OBVIOUS
  <1>2. \A k \in 1..n : OrZero(n - k + 1) \in Values
    BY <1>1, OperandType
  <1>3. QED
    BY <1>2 DEF Arguments

LEMMA OperandsType ==
  ASSUME StackTypeOK, NEW op, NEW async \in BOOLEAN
  PROVE  Operands(op, async) \in Seq(Values)
  <1>1. OrZero(1) \in Values /\ OrZero(2) \in Values /\ 0 \in Values /\ One \in Values
    BY OperandType DEF Values
  <1>2. QED
    BY <1>1 DEF Operands

LEMMA CallStep ==
  ASSUME StackTypeOK, StackNext
  PROVE  CallType'
  <1>1. <<>> \in Seq(Values) /\ FALSE \in BOOLEAN /\ TRUE \in BOOLEAN
    OBVIOUS
  <1>2. CASE Enter
    <2>1. rpn_stack # <<>> => Last(rpn_stack) \in Structures
      <3>1. rpn_stack \in Seq(Structures)
        BY StackFacts
      <3>2. rpn_stack # <<>> => Len(rpn_stack) \in 1..Len(rpn_stack)
        BY <3>1, EmptySeq, LenProperties
      <3>3. QED
        BY <3>1, <3>2 DEF Last
    <2>2. (IF rpn_stack = <<>> THEN <<>> ELSE <<Last(rpn_stack)>>) \in Seq(Values)
      <3>1. CASE rpn_stack = <<>>
        BY <3>1
      <3>2. CASE rpn_stack # <<>>
        <4>1. Last(rpn_stack) \in Values
          BY <2>1, <3>2 DEF Values
        <4>2. <<Last(rpn_stack)>> \in Seq(Values)
          BY <4>1
        <4>3. QED
          BY <3>2, <4>2
      <3>3. QED
        BY <3>1, <3>2
    <2>3. QED
      BY <1>1, <1>2, <2>2, CalledType DEF Enter
  <1>3. CASE clearRPNStack
    BY <1>1, <1>3, CalledType DEF clearRPNStack
  <1>4. ASSUME NEW i \in Indices, Set(i)
        PROVE  CallType'
    <2>1. HasRegister(rpn_stack, i) /\ i \in Int
      BY <1>4, RPNStackAssumption DEF Set, Indices
    <2>2. Register(rpn_stack, i) \in Values
      BY <2>1, OperandType DEF OrZero
    <2>3. <<Register(rpn_stack, i)>> \in Seq(Values)
      BY <2>2
    <2>4. QED
      BY <1>1, <1>4, <2>3, CalledType DEF Set
  <1>5. ASSUME NEW i \in Indices, SetNothing(i)
        PROVE  CallType'
    BY <1>1, <1>5, CalledType DEF SetNothing
  <1>6. ASSUME NEW i \in Indices, Delete(i)
        PROVE  CallType'
    BY <1>1, <1>6, CalledType DEF Delete
  <1>7. ASSUME NEW i \in Indices, NEW j \in Indices, Move(i, j)
        PROVE  CallType'
    BY <1>1, <1>7, CalledType DEF Move
  <1>8. ASSUME NEW op \in Operators, NEW async \in BOOLEAN, Binary(op, async)
        PROVE  CallType'
    BY <1>8, OperandsType, CalledType DEF Binary
  <1>9. ASSUME NEW logical \in BOOLEAN, NEW parsed \in BOOLEAN, NEW async \in BOOLEAN,
               Not(logical, parsed, async)
        PROVE  CallType'
    <2>1. <<OrZero(1)>> \in Seq(Values)
      BY OperandType
    <2>2. QED
      BY <1>9, <2>1, CalledType DEF Not
  <1>10. ASSUME NEW n \in Arities, AsyncFunction(n) \/ SyncFunction(n)
         PROVE  CallType'
    <2>1. Arguments(n) \in Seq(Values)
      BY ArgumentsType, RPNStackAssumption
    <2>2. QED
      BY <1>1, <1>10, <2>1, CalledType DEF AsyncFunction, SyncFunction
  <1>11. QED
    BY <1>2, <1>3, <1>4, <1>5, <1>6, <1>7, <1>8, <1>9, <1>10 DEF StackNext
-----------------------------------------------------------------------------
(* The theorems.                                                           *)

Inv == StackTypeOK /\ Owned

LEMMA TypeIs == StackTypeOK <=> StackType /\ RefsType /\ CallType
  BY DEF StackTypeOK, StackType, RefsType, CallType, Values

LEMMA InvInit ==
  ASSUME StackInit
  PROVE  Inv
  <1>1. rpn_stack = <<>> /\ rpn_stack \in Seq(Structures) /\ Len(rpn_stack) = 0
        /\ ToSet(rpn_stack) = {}
    BY DEF StackInit, ToSet
  <1>2. refs = [s \in Structures |-> 0] /\ defined = TRUE
    BY DEF StackInit
  <1>3. StackType /\ RefsType
    BY <1>1, <1>2, RPNStackAssumption DEF StackType, RefsType
  <1>4. /\ made.args = <<>> /\ Record(made.name, made.i, made.j) = Record("none", 0, 0)
        /\ made.thread = FALSE
    BY DEF StackInit, Made, Record
  <1>5. CallType
    <2>1. made.args \in Seq(Values)
      BY <1>4
    <2>2. Record(made.name, made.i, made.j) \in StackCalls \cup {Record("none", 0, 0)}
      BY <1>4
    <2>3. made.thread \in BOOLEAN
      <3>1. FALSE \in BOOLEAN
        OBVIOUS
      <3>2. QED
        BY <1>4, <3>1
    <2>4. QED
      BY <2>1, <2>2, <2>3 DEF CallType
  <1>6. Owned
    BY <1>1, <1>2 DEF Owned, Distinct
  <1>7. QED
    BY <1>3, <1>5, <1>6, TypeIs DEF Inv

LEMMA TypeNext == StackType' /\ RefsType' /\ CallType' => StackTypeOK'
  BY DEF StackTypeOK, StackType, RefsType, CallType, Values

LEMMA InvStep ==
  ASSUME Inv, [StackNext]_stackVars
  PROVE  Inv'
  <1>1. CASE StackNext
    <2>1. defined
      BY <1>1 DEF StackNext, Enter, clearRPNStack, Set, SetNothing, Delete, Move, Binary, Not,
                  AsyncFunction, SyncFunction, Called
    <2>2. QED
      BY <1>1, <2>1, StackStep, CallStep, TypeNext DEF Inv
  <1>2. CASE UNCHANGED stackVars
    <2>1. rpn_stack' = rpn_stack /\ refs' = refs /\ made' = made /\ defined' = defined
      BY <1>2 DEF stackVars
    <2>2. StackTypeOK'
      BY <2>1 DEF Inv, StackTypeOK
    <2>3. Owned'
      BY <2>1 DEF Inv, Owned
    <2>4. QED
      BY <2>2, <2>3 DEF Inv
  <1>3. QED
    BY <1>1, <1>2

LEMMA InvHolds == StackSpec => []Inv
  <1>1. StackInit => Inv
    BY InvInit
  <1>2. Inv /\ [StackNext]_stackVars => Inv'
    BY InvStep
  <1>3. QED
    BY <1>1, <1>2, PTL DEF StackSpec

\* Whatever is called, in whichever order, the registers hold structures,
\* every reference count is 0 or 1, and what a calculation of Calculator.cc is
\* applied to are registers, zeros or the one of a division.
THEOREM StackTyping == StackSpec => []StackTypeOK
  <1>1. Inv => StackTypeOK
    BY DEF Inv
  <1>2. QED
    BY <1>1, InvHolds, PTL

LEMMA OwnedIsOnce ==
  ASSUME Inv
  PROVE  OwnedOnce
  <1> SUFFICES ASSUME defined, NEW s \in Structures
               PROVE  refs[s] = Cardinality({p \in DOMAIN rpn_stack : rpn_stack[p] = s})
    BY DEF OwnedOnce
  <1>1. /\ rpn_stack \in Seq(Structures) /\ DOMAIN rpn_stack = 1..Len(rpn_stack)
        /\ Distinct(rpn_stack) /\ refs[s] = IF s \in ToSet(rpn_stack) THEN 1 ELSE 0
        /\ ToSet(rpn_stack) = {rpn_stack[i] : i \in 1..Len(rpn_stack)}
    BY StackFacts, LenProperties DEF Inv, Owned
  <1> DEFINE P == {p \in DOMAIN rpn_stack : rpn_stack[p] = s}
  <1>2. CASE s \in ToSet(rpn_stack)
    <2>1. PICK q \in 1..Len(rpn_stack) : rpn_stack[q] = s
      BY <1>1, <1>2
    <2>2. P = {q}
      BY <1>1, <2>1 DEF Distinct
    <2>3. QED
      BY <1>1, <1>2, <2>2, FS_Singleton
  <1>3. CASE s \notin ToSet(rpn_stack)
    <2>1. P = {}
      BY <1>1, <1>3
    <2>2. QED
      BY <1>1, <1>3, <2>1, FS_EmptySet
  <1>4. QED
    BY <1>2, <1>3

\* No call of the RPN interface frees a structure that is on the stack, leaks
\* one that is not, or puts one structure into two registers, for every number
\* of registers, every set of functions and operators and every sequence of calls.
THEOREM Ownership == StackSpec => []OwnedOnce
  <1>1. Inv => OwnedOnce
    BY OwnedIsOnce
  <1>2. QED
    BY <1>1, InvHolds, PTL
-----------------------------------------------------------------------------
(* RPNStack does what RPNSpec promises, for every set of operations, every *)
(* arity and bound: seen by register numbers (Reverse) each of its steps   *)
(* is the documented one.                                                  *)

(* The vector read backwards.                                              *)

LEMMA ReverseElements ==
  ASSUME NEW S, NEW stack \in Seq(S)
  PROVE  /\ Reverse(stack) \in Seq(S) /\ Len(Reverse(stack)) = Len(stack)
         /\ \A i \in 1..Len(stack) : Reverse(stack)[i] = stack[Position(stack, i)]
         /\ ToSet(Reverse(stack)) = ToSet(stack)
  <1>1. Len(stack) \in Nat /\ ToSet(stack) = {stack[i] : i \in 1..Len(stack)}
    BY Elements
  <1>2. \A i \in 1..Len(stack) : Position(stack, i) \in 1..Len(stack)
                                 /\ Position(stack, Position(stack, i)) = i
    BY <1>1 DEF Position
  <1> DEFINE r == Reverse(stack)
  <1>3. r = [i \in 1..Len(stack) |-> stack[Position(stack, i)]]
    BY DEF Reverse, Position
  <1> HIDE DEF r
  <1>4. r \in Seq(S) /\ Len(r) = Len(stack)
        /\ \A i \in 1..Len(stack) : r[i] = stack[Position(stack, i)]
    BY <1>1, <1>2, <1>3
  <1>5. ToSet(r) = {r[i] : i \in 1..Len(stack)}
    BY <1>4, Elements
  <1>6. ToSet(r) = ToSet(stack)
    BY <1>1, <1>2, <1>4, <1>5
  <1>7. QED
    BY <1>4, <1>6 DEF r

\* Two sequences with the same elements are the same.
LEMMA SameElements ==
  ASSUME NEW S, NEW s \in Seq(S), NEW t \in Seq(S), Len(s) = Len(t),
         \A i \in 1..Len(s) : s[i] = t[i]
  PROVE  s = t
  BY SeqEqual

\* A result comes first, after it the registers that were not consumed.
LEMMA ReverseComputed ==
  ASSUME NEW S, NEW stack \in Seq(S), NEW x \in S, NEW k \in 0..Len(stack)
  PROVE  Reverse(Computed(stack, k, x)) =
           <<x>> \o SubSeq(Reverse(stack), k + 1, Len(stack))
  <1> DEFINE c == Computed(stack, k, x)
             r == Reverse(stack)
             b == SubSeq(r, k + 1, Len(stack))
             t == <<x>> \o b
  <1>1. Len(stack) \in Nat
    BY LenProperties
  <1>2. /\ c \in Seq(S) /\ Len(c) = Len(stack) - k + 1
        /\ \A j \in 1..(Len(stack) - k) : c[j] = stack[j]
        /\ c[Len(stack) - k + 1] = x
    BY ComputedElements, ZenonT(60)
  <1>3. /\ r \in Seq(S) /\ Len(r) = Len(stack)
        /\ \A i \in 1..Len(stack) : r[i] = stack[Position(stack, i)]
    BY ReverseElements
  <1> HIDE DEF c, r
  <1>4. k + 1 \in 1..(Len(r) + 1)
    BY <1>1, <1>3
  <1>5. PICK p \in 1..(Len(r) + 1) : p = k + 1
    BY <1>4
  <1>6. /\ SubSeq(r, p, Len(r)) \in Seq(S)
        /\ Len(SubSeq(r, p, Len(r))) = Len(r) - p + 1
        /\ \A j \in 1..(Len(r) - p + 1) : SubSeq(r, p, Len(r))[j] = r[p + j - 1]
    BY <1>3, BackElements
  <1>7. /\ b \in Seq(S) /\ Len(b) = Len(stack) - k
        /\ \A j \in 1..(Len(stack) - k) : b[j] = r[k + j]
    BY <1>1, <1>3, <1>5, <1>6
  <1> HIDE DEF b
  <1>8. <<x>> \in Seq(S) /\ Len(<<x>>) = 1 /\ <<x>>[1] = x
    OBVIOUS
  <1>9. /\ t \in Seq(S) /\ Len(t) = Len(stack) - k + 1
        /\ \A i \in 1..(Len(stack) - k + 1) : t[i] = IF i <= 1 THEN <<x>>[i] ELSE b[i - 1]
    BY <1>1, <1>7, <1>8, ConcatProperties
  <1> HIDE DEF t
  <1>10. /\ Reverse(c) \in Seq(S) /\ Len(Reverse(c)) = Len(c)
         /\ \A i \in 1..Len(c) : Reverse(c)[i] = c[Position(c, i)]
    BY <1>2, ReverseElements
  <1>11. ASSUME NEW i \in 1..Len(c)
         PROVE  Reverse(c)[i] = t[i]
    <2>1. Reverse(c)[i] = c[Len(stack) - k + 1 - i + 1]
      <3>1. Reverse(c)[i] = c[Position(c, i)]
        BY <1>10
      <3>2. Len(c) = Len(stack) - k + 1
        BY <1>2
      <3>3. Position(c, i) = Len(c) - i + 1
        BY DEF Position
      <3>4. Position(c, i) = Len(stack) - k + 1 - i + 1
        BY ONLY <3>2, <3>3
      <3>5. QED
        BY ONLY <3>1, <3>4
    <2>2. CASE i = 1
      <3>1. Len(stack) - k + 1 - i + 1 = Len(stack) - k + 1 /\ i \in 1..(Len(stack) - k + 1)
        BY <1>1, <2>2
      <3>2. t[i] = x
        BY <1>8, <1>9, <2>2, <3>1
      <3>3. QED
        BY <1>2, <2>1, <3>1, <3>2
    <2>3. CASE i # 1
      <3>1. /\ i - 1 \in 1..(Len(stack) - k) /\ k + (i - 1) \in 1..Len(stack)
            /\ i \in 1..(Len(stack) - k + 1) /\ ~(i <= 1)
        BY <1>1, <1>2, <2>3
      <3>2. t[i] = b[i - 1]
        BY <1>9, <3>1
      <3>3. b[i - 1] = r[k + (i - 1)]
        BY <1>7, <3>1
      <3>4. r[k + (i - 1)] = stack[Len(stack) - (k + (i - 1)) + 1]
        BY <1>3, <3>1 DEF Position
      <3>5. /\ Len(stack) - k + 1 - i + 1 = Len(stack) - (k + (i - 1)) + 1
            /\ Len(stack) - k + 1 - i + 1 \in 1..(Len(stack) - k)
        BY <1>1, <3>1
      <3>6. QED
        BY <1>2, <2>1, <3>2, <3>3, <3>4, <3>5
    <2>4. QED
      BY <2>2, <2>3
  <1>12. Reverse(c) = t
    BY <1>2, <1>9, <1>10, <1>11, SameElements
  <1>13. QED
    BY <1>12 DEF c, t, b, r

LEMMA ReverseReplace ==
  ASSUME NEW S, NEW stack \in Seq(S), NEW x \in S, NEW i \in 1..Len(stack)
  PROVE  Reverse(ReplaceAt(stack, Position(stack, i), x)) = [Reverse(stack) EXCEPT ![i] = x]
  <1> DEFINE p == Position(stack, i)
             c == ReplaceAt(stack, p, x)
             r == Reverse(stack)
             t == [r EXCEPT ![i] = x]
  <1>1. Len(stack) \in Nat /\ p \in 1..Len(stack)
    BY LenProperties DEF Position
  <1>2. /\ r \in Seq(S) /\ Len(r) = Len(stack)
        /\ \A j \in 1..Len(stack) : r[j] = stack[Position(stack, j)]
    BY ReverseElements
  <1>3. /\ c \in Seq(S) /\ Len(c) = Len(stack)
        /\ \A j \in 1..Len(stack) : c[j] = IF j = p THEN x ELSE stack[j]
    BY <1>1, ExceptSeq DEF ReplaceAt
  <1>4. \A j \in 1..Len(stack) : Position(stack, j) \in 1..Len(stack)
                                 /\ (Position(stack, j) = p <=> j = i)
    BY <1>1 DEF Position
  <1> HIDE DEF p, c, r
  <1>5. /\ t \in Seq(S) /\ Len(t) = Len(stack)
        /\ \A j \in 1..Len(stack) : t[j] = IF j = i THEN x ELSE r[j]
    BY <1>2, ExceptSeq
  <1> HIDE DEF t
  <1>6. /\ Reverse(c) \in Seq(S) /\ Len(Reverse(c)) = Len(c)
        /\ \A j \in 1..Len(c) : Reverse(c)[j] = c[Position(c, j)]
    BY <1>3, ReverseElements
  <1>7. \A j \in 1..Len(c) : Position(c, j) = Position(stack, j)
    BY <1>3 DEF Position
  <1>8. ASSUME NEW j \in 1..Len(c)
        PROVE  Reverse(c)[j] = t[j]
    <2>1. j \in 1..Len(stack)
      BY <1>3
    <2>2. Reverse(c)[j] = c[Position(stack, j)]
      BY <1>6, <1>7
    <2>3. c[Position(stack, j)] = IF Position(stack, j) = p THEN x ELSE stack[Position(stack, j)]
      BY <1>3, <1>4, <2>1
    <2>4. r[j] = stack[Position(stack, j)]
      BY <1>2, <2>1
    <2>5. t[j] = IF j = i THEN x ELSE r[j]
      BY <1>5, <2>1
    <2>6. QED
      BY <1>4, <2>1, <2>2, <2>3, <2>4, <2>5
  <1>9. Reverse(c) = t
    BY <1>3, <1>5, <1>6, <1>8, SameElements
  <1>10. QED
    BY <1>9 DEF c, t, r, p

LEMMA ReverseRemove ==
  ASSUME NEW S, NEW stack \in Seq(S), NEW i \in 1..Len(stack)
  PROVE  Reverse(RemoveAt(stack, Position(stack, i))) = RemoveAt(Reverse(stack), i)
  <1> DEFINE p == Position(stack, i)
             c == RemoveAt(stack, p)
             r == Reverse(stack)
             t == RemoveAt(r, i)
  <1>1. Len(stack) \in Nat /\ p \in 1..Len(stack) /\ p = Len(stack) - i + 1
    BY LenProperties DEF Position
  <1>2. /\ r \in Seq(S) /\ Len(r) = Len(stack)
        /\ \A j \in 1..Len(stack) : r[j] = stack[Position(stack, j)]
    BY ReverseElements
  <1> HIDE DEF p, r
  <1>3. /\ c \in Seq(S) /\ Len(c) = Len(stack) - 1
        /\ \A j \in 1..(Len(stack) - 1) : c[j] = IF j < p THEN stack[j] ELSE stack[j + 1]
    BY <1>1, RemoveElements
  <1>4. /\ t \in Seq(S) /\ Len(t) = Len(r) - 1
        /\ \A j \in 1..(Len(r) - 1) : t[j] = IF j < i THEN r[j] ELSE r[j + 1]
    BY <1>2, RemoveElements
  <1> HIDE DEF c, t
  <1>5. /\ Reverse(c) \in Seq(S) /\ Len(Reverse(c)) = Len(c)
        /\ \A j \in 1..Len(c) : Reverse(c)[j] = c[Position(c, j)]
    BY <1>3, ReverseElements
  <1>6. ASSUME NEW j \in 1..Len(c)
        PROVE  Reverse(c)[j] = t[j]
    <2>1. j \in 1..(Len(stack) - 1) /\ Len(stack) - j \in 1..(Len(stack) - 1)
      BY <1>1, <1>3
    <2>2. Reverse(c)[j] = c[Len(stack) - j]
      <3>1. Position(c, j) = Len(stack) - j
        BY <1>1, <1>3, <2>1 DEF Position
      <3>2. QED
        BY <1>5, <3>1
    <2>3. CASE j < i
      <3>1. ~(Len(stack) - j < p) /\ j \in 1..Len(stack)
            /\ Position(stack, j) = (Len(stack) - j) + 1
        BY <1>1, <2>1, <2>3 DEF Position
      <3>2. c[Len(stack) - j] = stack[(Len(stack) - j) + 1]
        BY <1>3, <2>1, <3>1
      <3>3. t[j] = r[j]
        BY <1>2, <1>4, <2>1, <2>3
      <3>4. QED
        BY <1>2, <2>2, <3>1, <3>2, <3>3
    <2>4. CASE ~(j < i)
      <3>1. Len(stack) - j < p /\ j + 1 \in 1..Len(stack)
            /\ Position(stack, j + 1) = Len(stack) - j
        BY <1>1, <2>1, <2>4 DEF Position
      <3>2. c[Len(stack) - j] = stack[Len(stack) - j]
        BY <1>3, <2>1, <3>1
      <3>3. t[j] = r[j + 1]
        BY <1>2, <1>4, <2>1, <2>4
      <3>4. QED
        BY <1>2, <2>2, <3>1, <3>2, <3>3
    <2>5. QED
      BY <2>3, <2>4
  <1>7. Reverse(c) = t
    BY <1>2, <1>3, <1>4, <1>5, <1>6, SameElements
  <1>8. QED
    BY <1>7 DEF c, t, r, p

LEMMA ReverseMoved ==
  ASSUME NEW S, NEW stack \in Seq(S), NEW i \in 1..Len(stack), NEW j \in 1..Len(stack)
  PROVE  Reverse(Moved(stack, Position(stack, i), Position(stack, j)))
           = Moved(Reverse(stack), i, j)
  <1> DEFINE o == Position(stack, i)
             n == Position(stack, j)
             c == Moved(stack, o, n)
             r == Reverse(stack)
             t == Moved(r, i, j)
  <1>1. /\ Len(stack) \in Nat /\ o \in 1..Len(stack) /\ n \in 1..Len(stack)
        /\ o = Len(stack) - i + 1 /\ n = Len(stack) - j + 1
    BY LenProperties DEF Position
  <1>2. /\ r \in Seq(S) /\ Len(r) = Len(stack)
        /\ \A k \in 1..Len(stack) : r[k] = stack[Position(stack, k)]
    BY ReverseElements
  <1> HIDE DEF o, n, r
  <1>3. /\ c \in Seq(S) /\ Len(c) = Len(stack)
        /\ \A k \in 1..Len(stack) :
              c[k] = IF k = n THEN stack[o]
                     ELSE IF k < n THEN (IF k < o THEN stack[k] ELSE stack[k + 1])
                     ELSE IF k - 1 < o THEN stack[k - 1] ELSE stack[k]
    <2>1. PICK a \in 1..Len(stack), b \in 1..Len(stack) : a = o /\ b = n
      BY <1>1
    <2>2. /\ Moved(stack, a, b) \in Seq(S) /\ Len(Moved(stack, a, b)) = Len(stack)
          /\ \A k \in 1..Len(stack) :
                Moved(stack, a, b)[k] =
                  IF k = b THEN stack[a]
                  ELSE IF k < b THEN (IF k < a THEN stack[k] ELSE stack[k + 1])
                  ELSE IF k - 1 < a THEN stack[k - 1] ELSE stack[k]
      BY MovedElements
    <2>3. QED
      BY <2>1, <2>2
  <1>4. /\ t \in Seq(S) /\ Len(t) = Len(r)
        /\ \A k \in 1..Len(r) :
              t[k] = IF k = j THEN r[i]
                     ELSE IF k < j THEN (IF k < i THEN r[k] ELSE r[k + 1])
                     ELSE IF k - 1 < i THEN r[k - 1] ELSE r[k]
    BY <1>2, MovedElements
  <1> HIDE DEF c, t
  <1>5. /\ Reverse(c) \in Seq(S) /\ Len(Reverse(c)) = Len(c)
        /\ \A k \in 1..Len(c) : Reverse(c)[k] = c[Position(c, k)]
    BY <1>3, ReverseElements
  <1>6. ASSUME NEW k \in 1..Len(c)
        PROVE  Reverse(c)[k] = t[k]
    <2> DEFINE q == Len(stack) - k + 1
    <2>1. k \in 1..Len(stack) /\ q \in 1..Len(stack) /\ q = Len(stack) - k + 1
      BY <1>1, <1>3
    <2> HIDE DEF q
    <2>2. Reverse(c)[k] = c[q]
      BY <1>3, <1>5, <2>1 DEF Position
    <2>3. CASE k = j
      <3>1. c[q] = stack[o]
        BY <1>1, <1>3, <2>1, <2>3
      <3>2. r[i] = stack[o] /\ t[k] = r[i]
        BY <1>1, <1>2, <1>4, <2>1, <2>3 DEF Position
      <3>3. QED
        BY <2>2, <3>1, <3>2
    <2>4. CASE k < j /\ k < i
      <3>1. ~(q = n) /\ ~(q < n) /\ ~(q - 1 < o) /\ Position(stack, k) = q
        BY <1>1, <2>1, <2>4 DEF Position
      <3>2. c[q] = stack[q]
        BY <1>3, <2>1, <3>1
      <3>3. t[k] = r[k]
        BY <1>2, <1>4, <2>1, <2>4
      <3>4. QED
        BY <1>2, <2>1, <2>2, <3>1, <3>2, <3>3
    <2>5. CASE k < j /\ ~(k < i)
      <3>1. /\ ~(q = n) /\ ~(q < n) /\ q - 1 < o
            /\ k + 1 \in 1..Len(stack) /\ Position(stack, k + 1) = q - 1
        BY <1>1, <2>1, <2>5 DEF Position
      <3>2. c[q] = stack[q - 1]
        BY <1>3, <2>1, <3>1
      <3>3. t[k] = r[k + 1]
        BY <1>2, <1>4, <2>1, <2>5
      <3>4. QED
        BY <1>2, <2>2, <3>1, <3>2, <3>3
    <2>6. CASE k > j /\ k - 1 < i
      <3>1. /\ ~(q = n) /\ q < n /\ ~(q < o)
            /\ k - 1 \in 1..Len(stack) /\ Position(stack, k - 1) = q + 1
        BY <1>1, <2>1, <2>6 DEF Position
      <3>2. c[q] = stack[q + 1]
        BY <1>3, <2>1, <3>1
      <3>3. t[k] = r[k - 1]
        BY <1>2, <1>4, <2>1, <2>6
      <3>4. QED
        BY <1>2, <2>2, <3>1, <3>2, <3>3
    <2>7. CASE k > j /\ ~(k - 1 < i)
      <3>1. ~(q = n) /\ q < n /\ q < o /\ Position(stack, k) = q
        BY <1>1, <2>1, <2>7 DEF Position
      <3>2. c[q] = stack[q]
        BY <1>3, <2>1, <3>1
      <3>3. t[k] = r[k]
        BY <1>2, <1>4, <2>1, <2>7
      <3>4. QED
        BY <1>2, <2>1, <2>2, <3>1, <3>2, <3>3
    <2>8. QED
      BY <2>1, <2>3, <2>4, <2>5, <2>6, <2>7
  <1>7. Reverse(c) = t
    BY <1>2, <1>3, <1>4, <1>5, <1>6, SameElements
  <1>8. QED
    BY <1>7 DEF c, t, r, o, n
-----------------------------------------------------------------------------
(* What RPNSpec sees.                                                      *)

\* The library's operators are those of RPNStack.
LEMMA SameOperators ==
  ASSUME NEW T, NEW s, NEW i, NEW x
  PROVE  /\ Documented!Min(T) = Min(T)
         /\ Documented!ToSet(s) = ToSet(s)
         /\ Documented!RemoveAt(s, i) = RemoveAt(s, i)
         /\ Documented!InsertAt(s, i, x) = InsertAt(s, i, x)
  <1>1. Documented!Min(T) = Min(T)
    BY DEF Documented!Min, Min
  <1>2. Documented!ToSet(s) = ToSet(s)
    BY DEF Documented!ToSet, ToSet
  <1>3. Documented!RemoveAt(s, i) = RemoveAt(s, i)
    BY DEF Documented!RemoveAt, RemoveAt
  <1>4. Documented!InsertAt(s, i, x) = InsertAt(s, i, x)
    BY DEF Documented!InsertAt, InsertAt
  <1>5. QED
    BY <1>1, <1>2, <1>3, <1>4

LEMMA SeenRegisters ==
  ASSUME StackTypeOK
  PROVE  /\ Reverse(rpn_stack) \in Seq(Structures)
         /\ Len(Reverse(rpn_stack)) = Len(rpn_stack)
         /\ \A i \in Int : HasRegister(rpn_stack, i) <=> Documented!Has(i)
         /\ \A i \in Int : HasRegister(rpn_stack, i) =>
               Reverse(rpn_stack)[i] = Register(rpn_stack, i)
         /\ ToSet(Reverse(rpn_stack)) = ToSet(rpn_stack)
         /\ \A i \in Int : Documented!OrZero(i) = OrZero(i)
  <1>1. rpn_stack \in Seq(Structures)
    BY StackFacts
  <1>2. /\ Reverse(rpn_stack) \in Seq(Structures)
        /\ Len(Reverse(rpn_stack)) = Len(rpn_stack)
        /\ \A i \in 1..Len(rpn_stack) :
              Reverse(rpn_stack)[i] = rpn_stack[Position(rpn_stack, i)]
        /\ ToSet(Reverse(rpn_stack)) = ToSet(rpn_stack)
    BY <1>1, ReverseElements
  <1>3. \A i \in Int : HasRegister(rpn_stack, i) <=> Documented!Has(i)
    BY <1>2 DEF HasRegister, Documented!Has
  <1>4. \A i \in Int : HasRegister(rpn_stack, i) =>
           Reverse(rpn_stack)[i] = Register(rpn_stack, i)
    BY <1>2 DEF HasRegister, Register
  <1>5. \A i \in Int : Documented!OrZero(i) = OrZero(i)
    BY <1>3, <1>4 DEF OrZero, Documented!OrZero
  <1>6. QED
    BY <1>2, <1>3, <1>4, <1>5

\* Some number up to one more than the registers is in none of them.
LEMMA SomeUnused ==
  ASSUME NEW S, NEW stack \in Seq(S)
  PROVE  (1..Len(stack) + 1) \ ToSet(stack) # {}
  <1> SUFFICES ASSUME \A n \in 1..Len(stack) + 1 : n \in ToSet(stack)
               PROVE  FALSE
    OBVIOUS
  <1>1. Len(stack) \in Nat /\ ToSet(stack) = {stack[i] : i \in 1..Len(stack)}
    BY Elements
  <1>2. \A n \in 1..Len(stack) + 1 : \E i \in 1..Len(stack) : stack[i] = n
    BY <1>1
  <1> DEFINE f == [n \in 1..Len(stack) + 1 |-> CHOOSE i \in 1..Len(stack) : stack[i] = n]
             P == 1..Len(stack) + 1
             Q == 1..Len(stack)
  <1>3. f \in [P -> Q] /\ \A n \in P : stack[f[n]] = n
    BY <1>2
  <1> HIDE DEF f
  <1>4. /\ IsFiniteSet(P) /\ Cardinality(P) = Len(stack) + 1
        /\ IsFiniteSet(Q) /\ Cardinality(Q) = Len(stack)
    <2>1. PICK a \in Int, b \in Int, c \in Int : a = 1 /\ b = Len(stack) /\ c = Len(stack) + 1
      BY <1>1
    <2>2. /\ IsFiniteSet(a..b) /\ Cardinality(a..b) = IF a > b THEN 0 ELSE b - a + 1
          /\ IsFiniteSet(a..c) /\ Cardinality(a..c) = IF a > c THEN 0 ELSE c - a + 1
      BY FS_Interval
    <2>3. a..b = Q /\ a..c = P
      BY <2>1
    <2>4. (IF a > b THEN 0 ELSE b - a + 1) = Len(stack)
          /\ (IF a > c THEN 0 ELSE c - a + 1) = Len(stack) + 1
      BY <1>1, <2>1
    <2>5. QED
      BY <2>2, <2>3, <2>4
  <1>5. Cardinality(Q) < Cardinality(P)
    BY <1>1, <1>4
  <1> HIDE DEF P, Q
  <1>6. \E x, y \in P : x # y /\ f[x] = f[y]
    BY <1>3, <1>4, <1>5, FS_PigeonHole
  <1>7. QED
    BY <1>3, <1>6

\* Memory is used again as promised: what is new is the smallest number in no
\* register.
LEMMA NewIsPromised ==
  ASSUME StackTypeOK, Owned, defined
  PROVE  New = Documented!New
  <1>1. /\ rpn_stack \in Seq(Structures) /\ Len(rpn_stack) \in Nat
        /\ Len(rpn_stack) <= MaxRegisters
    BY StackFacts
  <1> DEFINE D == (1..Len(rpn_stack) + 1) \ ToSet(rpn_stack)
  <1>2. Unused = Structures \ ToSet(rpn_stack)
    BY DEF Owned, Unused
  <1>3. D \subseteq Unused /\ \A y \in Unused : y <= Len(rpn_stack) + 1 => y \in D
    BY <1>1, <1>2, RPNStackAssumption DEF Structures
  <1>4. D # {} /\ D \subseteq Nat /\ \A y \in D : y <= Len(rpn_stack) + 1
    BY <1>1, SomeUnused
  <1>5. Documented!New = Min(D)
    <2>1. Documented!ToSet(Reverse(rpn_stack)) = ToSet(rpn_stack)
      BY SeenRegisters, SameOperators
    <2>2. (1..Len(Reverse(rpn_stack)) + 1) \ Documented!ToSet(Reverse(rpn_stack)) = D
      BY <2>1, SeenRegisters
    <2>3. Documented!New = Documented!Min(D)
      BY <2>2 DEF Documented!New
    <2>4. QED
      BY <2>3, SameOperators
  <1> HIDE DEF D
  <1>6. Unused \subseteq Nat /\ Unused # {}
    BY <1>3, <1>4, StructuresAreNat DEF Unused
  <1>7. New \in Unused /\ \A y \in Unused : New <= y
    BY <1>6, MinExists DEF New
  <1>8. New \in D
    <2>1. PICK d \in D : TRUE
      BY <1>4
    <2>2. New \in Nat /\ d \in Nat /\ New <= d /\ d <= Len(rpn_stack) + 1
      BY <1>3, <1>4, <1>6, <1>7, <2>1
    <2>3. New <= Len(rpn_stack) + 1
      BY <1>1, <2>2
    <2>4. QED
      BY <1>3, <1>7, <2>3
  <1>9. \A y \in D : New <= y
    BY <1>3, <1>7
  <1>10. D \subseteq Int
    BY <1>4
  <1>11. Min(D) = New
    BY <1>8, <1>9, <1>10, MinIs
  <1>12. QED
    BY <1>5, <1>11

\* A call seen by RPNSpec.
Seen(name, i, j, args) == [name |-> name, i |-> i, j |-> j, args |-> args]

LEMMA SeenCall ==
  ASSUME NEW name, NEW i, NEW j, NEW args, NEW thread,
         Called(Record(name, i, j), args, thread)
  PROVE  /\ made'.name = name /\ made'.i = i /\ made'.j = j /\ made'.args = args
         /\ made'.thread = thread
         /\ Documented!Performed(Seen(name, i, j, args), args) => Documented!Next
  <1>1. /\ made' = Made(Record(name, i, j), args, thread) /\ Record(name, i, j) \in StackCalls
    BY DEF Called
  <1>2. /\ made'.name = name /\ made'.i = i /\ made'.j = j /\ made'.args = args
    BY <1>1 DEF Made, Record
  <1>3. made'.thread = thread
    BY <1>1 DEF Made
  <1>4. ASSUME Documented!Performed(Seen(name, i, j, args), args)
        PROVE  Documented!Next
    <2> DEFINE d == [name |-> made'.name, i |-> made'.i, j |-> made'.j, args |-> made'.args]
    <2>1. d = Seen(name, i, j, args)
      BY <1>2 DEF Seen
    <2>2. d.name = name /\ d.i = i /\ d.j = j /\ d.args = args
      BY <1>2
    <2> HIDE DEF d
    <2>3. [name |-> d.name, i |-> d.i, j |-> d.j] \in StackCalls
      BY <1>1, <2>2 DEF Record
    <2>4. Documented!Performed(d, d.args)
      BY <1>4, <2>1, <2>2
    <2>5. QED
      BY <2>3, <2>4 DEF d, Documented!Next
  <1>5. QED
    BY <1>2, <1>3, <1>4
-----------------------------------------------------------------------------
(* The steps, seen by register numbers.                                    *)

LEMMA SeenAfter ==
  ASSUME NEW t, rpn_stack' = t
  PROVE  Reverse(rpn_stack)' = Reverse(t)
  BY DEF Reverse

\* A calculation of k registers, as many of them as there are.
LEMMA SeenApply ==
  ASSUME StackTypeOK, Owned, defined, Unused # {}, NEW k \in Nat,
         rpn_stack' = Computed(rpn_stack, Taking(rpn_stack, k), New),
         NEW args, args = [n \in 1..k |-> OrZero(k - n + 1)]
  PROVE  Documented!Apply(k, args)
  <1> DEFINE R == Reverse(rpn_stack)
             L == Len(rpn_stack)
  <1>1. rpn_stack \in Seq(Structures) /\ L \in Nat /\ R \in Seq(Structures) /\ Len(R) = L
    BY StackFacts, SeenRegisters
  <1>2. New \in Structures
    BY Fresh
  <1>3. Reverse(rpn_stack)' = Reverse(Computed(rpn_stack, Taking(rpn_stack, k), New))
    BY SeenAfter
  <1>4. PICK a \in 0..L : a = Taking(rpn_stack, k)
    BY <1>1 DEF Taking
  <1>5. PICK x \in Structures : x = New
    BY <1>2
  <1>6. Reverse(Computed(rpn_stack, a, x)) = <<x>> \o SubSeq(R, a + 1, L)
    BY <1>1, ReverseComputed
  <1>7. SubSeq(R, a + 1, L) = SubSeq(R, k + 1, L)
    <2>1. CASE k <= L
      BY <1>4, <2>1 DEF Taking
    <2>2. CASE ~(k <= L)
      <3>1. a = L
        BY <1>4, <2>2 DEF Taking
      <3> HIDE DEF R, L
      <3>2. PICK m \in Int, n \in Int, q \in Int : m = a + 1 /\ n = k + 1 /\ q = L
        BY <1>1
      <3>3. m > q /\ n > q
        BY <1>1, <2>2, <3>1, <3>2
      <3>4. SubSeq(R, m, q) = <<>> /\ SubSeq(R, n, q) = <<>>
        BY <1>1, <3>3, SubSeqEmpty
      <3>5. QED
        BY <3>2, <3>4
    <2>3. QED
      BY <2>1, <2>2
  <1>8. Reverse(rpn_stack)' = <<Documented!New>> \o SubSeq(R, k + 1, Len(R))
    BY <1>1, <1>3, <1>4, <1>5, <1>6, <1>7, NewIsPromised
  <1>9. args = [n \in 1..k |-> Documented!OrZero(k - n + 1)]
    <2>1. \A n \in 1..k : Documented!OrZero(k - n + 1) = OrZero(k - n + 1)
      <3>1. \A n \in 1..k : k - n + 1 \in Int
        OBVIOUS
      <3>2. QED
        BY <3>1, SeenRegisters
    <2>2. QED
      BY <2>1
  <1>10. QED
    BY <1>8, <1>9 DEF Documented!Apply

LEMMA EnterSeen ==
  ASSUME StackTypeOK, Owned, defined, Enter
  PROVE  Documented!Next
  <1> DEFINE R == Reverse(rpn_stack)
             copied == IF rpn_stack = <<>> THEN <<>> ELSE <<Last(rpn_stack)>>
  <1>1. /\ rpn_stack \in Seq(Structures) /\ Len(rpn_stack) \in Nat
        /\ R \in Seq(Structures) /\ Len(R) = Len(rpn_stack)
    BY StackFacts, SeenRegisters
  <1>2. UnrefAndNew({}) /\ Unused # {} /\ rpn_stack' = RPNStackEnter(rpn_stack, New)
    BY DEF Enter, UnrefAndNew
  <1>3. PICK x \in Structures : x = New
    BY <1>2, Fresh
  <1>4. PICK k \in 0..Len(rpn_stack) : k = 0
    BY <1>1
  <1>5. RPNStackEnter(rpn_stack, x) = Computed(rpn_stack, k, x)
    BY <1>1, <1>4, EnterComputed
  <1>6. Reverse(Computed(rpn_stack, k, x)) = <<x>> \o SubSeq(R, k + 1, Len(rpn_stack))
    BY <1>1, ReverseComputed
  <1>7. SubSeq(R, k + 1, Len(rpn_stack)) = R
    <2>1. SubSeq(R, 1, Len(R)) = R
      BY <1>1, SubSeqFull
    <2>2. QED
      BY <1>1, <1>4, <2>1
  <1>8. Reverse(rpn_stack)' = <<Documented!New>> \o R
    <2>1. rpn_stack' = Computed(rpn_stack, k, x)
      BY <1>2, <1>3, <1>5
    <2>2. Reverse(rpn_stack)' = Reverse(Computed(rpn_stack, k, x))
      BY <2>1, SeenAfter
    <2>3. QED
      BY <1>3, <1>6, <1>7, <2>2, NewIsPromised
  <1>9. copied = IF Documented!Has(1) THEN <<R[1]>> ELSE <<>>
    <2>1. HasRegister(rpn_stack, 1) <=> Documented!Has(1)
      BY SeenRegisters
    <2>2. HasRegister(rpn_stack, 1) <=> rpn_stack # <<>>
      BY <1>1, EmptySeq DEF HasRegister
    <2>3. HasRegister(rpn_stack, 1) => R[1] = Last(rpn_stack)
      <3>1. HasRegister(rpn_stack, 1) => R[1] = Register(rpn_stack, 1)
        BY SeenRegisters
      <3>2. Len(rpn_stack) - 1 + 1 = Len(rpn_stack)
        BY <1>1
      <3>3. QED
        BY <3>1, <3>2 DEF Register, Position, Last
    <2>4. QED
      BY <2>1, <2>2, <2>3
  <1>10. CASE Called(Record("enter", 0, 0), <<>>, FALSE)
    <2>1. Documented!Enter(<<>>)
      BY <1>8 DEF Documented!Enter
    <2>2. Documented!Performed(Seen("enter", 0, 0, <<>>), <<>>)
      BY <2>1 DEF Documented!Performed, Seen
    <2>3. QED
      BY <1>10, <2>2, SeenCall
  <1>11. CASE Called(Record("duplicate", 0, 0), copied, FALSE)
    <2>1. Documented!Duplicate(copied)
      BY <1>8, <1>9 DEF Documented!Duplicate
    <2> HIDE DEF copied
    <2>2. Documented!Performed(Seen("duplicate", 0, 0, copied), copied)
      BY <2>1 DEF Documented!Performed, Seen
    <2>3. QED
      BY <1>11, <2>2, SeenCall
  <1>12. QED
    BY <1>10, <1>11 DEF Enter

LEMMA ClearSeen ==
  ASSUME StackTypeOK, clearRPNStack
  PROVE  Documented!Next
  <1>1. Called(Record("clear", 0, 0), <<>>, FALSE) /\ rpn_stack' = <<>>
    BY DEF clearRPNStack
  <1>2. Reverse(rpn_stack)' = <<>>
    <2>1. Reverse(rpn_stack)' = Reverse(<<>>)
      BY <1>1, SeenAfter
    <2>2. Reverse(<<>>) = <<>>
      BY DEF Reverse
    <2>3. QED
      BY <2>1, <2>2
  <1>3. Documented!Clear(<<>>)
    BY <1>2 DEF Documented!Clear
  <1>4. Documented!Performed(Seen("clear", 0, 0, <<>>), <<>>)
    BY <1>3 DEF Documented!Performed, Seen
  <1>5. QED
    BY <1>1, <1>4, SeenCall

LEMMA SetSeen ==
  ASSUME StackTypeOK, Owned, defined, NEW i \in Indices, Set(i)
  PROVE  Documented!Next
  <1> DEFINE R == Reverse(rpn_stack)
             g == Register(rpn_stack, i)
  <1>1. /\ rpn_stack \in Seq(Structures) /\ HasRegister(rpn_stack, i)
        /\ i \in 1..Len(rpn_stack) /\ i \in Int
    BY StackFacts, RPNStackAssumption DEF Set, HasRegister, Indices
  <1>2. /\ UnrefAndNew({g}) /\ Unused # {}
        /\ rpn_stack' = ReplaceAt(rpn_stack, Position(rpn_stack, i), New)
    BY <1>1 DEF Set, UnrefAndNew, setRPNRegister
  <1>3. PICK x \in Structures : x = New
    BY <1>2, Fresh
  <1>4. Reverse(ReplaceAt(rpn_stack, Position(rpn_stack, i), x)) = [R EXCEPT ![i] = x]
    BY <1>1, ReverseReplace
  <1>5. Reverse(rpn_stack)' = [R EXCEPT ![i] = Documented!New]
    <2>1. rpn_stack' = ReplaceAt(rpn_stack, Position(rpn_stack, i), x)
      BY <1>2, <1>3
    <2>2. Reverse(rpn_stack)' = Reverse(ReplaceAt(rpn_stack, Position(rpn_stack, i), x))
      BY <2>1, SeenAfter
    <2>3. QED
      BY <1>3, <1>4, <2>2, NewIsPromised
  <1>6. Documented!Has(i) /\ R[i] = g
    BY <1>1, SeenRegisters
  <1>7. Documented!Replace(i)
    BY <1>5, <1>6 DEF Documented!Replace
  <1>8. CASE Called(Record("set", i, 0), <<>>, FALSE)
    <2>1. Documented!Set(i, <<>>)
      BY <1>7 DEF Documented!Set
    <2>2. Documented!Performed(Seen("set", i, 0, <<>>), <<>>)
      BY <2>1 DEF Documented!Performed, Seen
    <2>3. QED
      BY <1>8, <2>2, SeenCall
  <1>9. CASE Called(Record("evaluate", i, 0), <<g>>, FALSE)
    <2>1. Documented!Evaluate(i, <<g>>)
      BY <1>6, <1>7 DEF Documented!Evaluate
    <2> HIDE DEF g
    <2>2. Documented!Performed(Seen("evaluate", i, 0, <<g>>), <<g>>)
      BY <2>1 DEF Documented!Performed, Seen
    <2>3. QED
      BY <1>9, <2>2, SeenCall
  <1>10. QED
    BY <1>8, <1>9 DEF Set

LEMMA SetNothingSeen ==
  ASSUME StackTypeOK, NEW i \in Indices, SetNothing(i)
  PROVE  Documented!Next
  <1>1. i \in Int /\ ~HasRegister(rpn_stack, i) /\ rpn_stack' = rpn_stack
    BY RPNStackAssumption DEF SetNothing, Indices
  <1>2. ~Documented!Has(i)
    BY <1>1, SeenRegisters
  <1>3. Reverse(rpn_stack)' = Reverse(rpn_stack)
    BY <1>1, SeenAfter
  <1>4. Documented!Replace(i)
    BY <1>2, <1>3 DEF Documented!Replace
  <1>5. CASE Called(Record("set", i, 0), <<>>, FALSE)
    <2>1. Documented!Set(i, <<>>)
      BY <1>4 DEF Documented!Set
    <2>2. Documented!Performed(Seen("set", i, 0, <<>>), <<>>)
      BY <2>1 DEF Documented!Performed, Seen
    <2>3. QED
      BY <1>5, <2>2, SeenCall
  <1>6. CASE Called(Record("evaluate", i, 0), <<>>, FALSE)
    <2>1. Documented!Evaluate(i, <<>>)
      BY <1>2, <1>4 DEF Documented!Evaluate
    <2>2. Documented!Performed(Seen("evaluate", i, 0, <<>>), <<>>)
      BY <2>1 DEF Documented!Performed, Seen
    <2>3. QED
      BY <1>6, <2>2, SeenCall
  <1>7. QED
    BY <1>5, <1>6 DEF SetNothing

LEMMA DeleteSeen ==
  ASSUME StackTypeOK, NEW i \in Indices, Delete(i)
  PROVE  Documented!Next
  <1>1. /\ rpn_stack \in Seq(Structures) /\ i \in Int
        /\ HasRegister(rpn_stack, i) <=> Documented!Has(i)
        /\ rpn_stack' = deleteRPNRegister(rpn_stack, i)
        /\ Called(Record("delete", i, 0), <<>>, FALSE)
    <2>1. i \in Int /\ rpn_stack \in Seq(Structures)
      BY StackFacts, RPNStackAssumption DEF Indices
    <2>2. HasRegister(rpn_stack, i) <=> Documented!Has(i)
      BY <2>1, SeenRegisters
    <2>3. /\ rpn_stack' = deleteRPNRegister(rpn_stack, i)
          /\ Called(Record("delete", i, 0), <<>>, FALSE)
      BY DEF Delete
    <2>4. QED
      BY <2>1, <2>2, <2>3
  <1>2. Documented!Delete(i, <<>>)
    <2>1. CASE HasRegister(rpn_stack, i)
      <3>1. i \in 1..Len(rpn_stack) /\ rpn_stack' = RemoveAt(rpn_stack, Position(rpn_stack, i))
        BY <1>1, <2>1 DEF HasRegister, deleteRPNRegister
      <3>2. Reverse(rpn_stack)' = Reverse(RemoveAt(rpn_stack, Position(rpn_stack, i)))
        BY <3>1, SeenAfter
      <3>3. Reverse(RemoveAt(rpn_stack, Position(rpn_stack, i))) = RemoveAt(Reverse(rpn_stack), i)
        BY <1>1, <3>1, ReverseRemove
      <3>4. Documented!RemoveAt(Reverse(rpn_stack), i) = RemoveAt(Reverse(rpn_stack), i)
        BY SameOperators
      <3>5. QED
        BY <1>1, <2>1, <3>2, <3>3, <3>4 DEF Documented!Delete
    <2>2. CASE ~HasRegister(rpn_stack, i)
      <3>1. rpn_stack' = rpn_stack
        BY <1>1, <2>2 DEF deleteRPNRegister
      <3>2. Reverse(rpn_stack)' = Reverse(rpn_stack)
        BY <3>1, SeenAfter
      <3>3. QED
        BY <1>1, <2>2, <3>2 DEF Documented!Delete
    <2>3. QED
      BY <2>1, <2>2
  <1>3. Documented!Performed(Seen("delete", i, 0, <<>>), <<>>)
    BY <1>2 DEF Documented!Performed, Seen
  <1>4. QED
    BY <1>1, <1>3, SeenCall

\* A register relocated: register i becomes register j.
LEMMA RelocateSeen ==
  ASSUME StackTypeOK, NEW i \in Int, NEW j \in Int,
         rpn_stack' = IF HasRegister(rpn_stack, i) /\ HasRegister(rpn_stack, j)
                      THEN Moved(rpn_stack, Position(rpn_stack, i), Position(rpn_stack, j))
                      ELSE rpn_stack
  PROVE  Documented!Relocate(i, j, <<>>)
  <1> DEFINE R == Reverse(rpn_stack)
  <1>1. /\ rpn_stack \in Seq(Structures)
        /\ HasRegister(rpn_stack, i) <=> Documented!Has(i)
        /\ HasRegister(rpn_stack, j) <=> Documented!Has(j)
    <2>1. rpn_stack \in Seq(Structures)
      BY StackFacts
    <2>2. HasRegister(rpn_stack, i) <=> Documented!Has(i)
      BY SeenRegisters
    <2>3. HasRegister(rpn_stack, j) <=> Documented!Has(j)
      BY SeenRegisters
    <2>4. QED
      BY <2>1, <2>2, <2>3
  <1>2. CASE HasRegister(rpn_stack, i) /\ HasRegister(rpn_stack, j)
    <2>1. i \in 1..Len(rpn_stack) /\ j \in 1..Len(rpn_stack)
      BY <1>2 DEF HasRegister
    <2>2. rpn_stack' = Moved(rpn_stack, Position(rpn_stack, i), Position(rpn_stack, j))
      BY <1>2
    <2>3. Reverse(rpn_stack)'
            = Reverse(Moved(rpn_stack, Position(rpn_stack, i), Position(rpn_stack, j)))
      BY <2>2, SeenAfter
    <2>4. Reverse(Moved(rpn_stack, Position(rpn_stack, i), Position(rpn_stack, j)))
            = Moved(R, i, j)
      BY <1>1, <2>1, ReverseMoved
    <2>5. Documented!InsertAt(Documented!RemoveAt(R, i), j, R[i])
            = InsertAt(RemoveAt(R, i), j, R[i])
      BY SameOperators
    <2>6. Reverse(rpn_stack)' = Documented!InsertAt(Documented!RemoveAt(R, i), j, R[i])
      BY <2>3, <2>4, <2>5 DEF Moved
    <2>7. QED
      BY <1>1, <1>2, <2>6 DEF Documented!Relocate
  <1>3. CASE ~(HasRegister(rpn_stack, i) /\ HasRegister(rpn_stack, j))
    <2>1. rpn_stack' = rpn_stack
      BY <1>3
    <2>2. Reverse(rpn_stack)' = R
      BY <2>1, SeenAfter
    <2>3. QED
      BY <1>1, <1>3, <2>2 DEF Documented!Relocate
  <1>4. QED
    BY <1>2, <1>3

LEMMA MoveSeen ==
  ASSUME StackTypeOK, NEW i \in Indices, NEW j \in Indices, Move(i, j)
  PROVE  Documented!Next
  <1>1. /\ rpn_stack \in Seq(Structures) /\ Len(rpn_stack) \in Nat
        /\ Len(Reverse(rpn_stack)) = Len(rpn_stack)
    BY StackFacts, SeenRegisters
  <1>2. i \in Int /\ j \in Int /\ i - 1 \in Int /\ i + 1 \in Int
    BY RPNStackAssumption DEF Indices
  <1>3. CASE /\ Called(Record("move", i, j), <<>>, FALSE)
             /\ rpn_stack' = moveRPNRegister(rpn_stack, i, j)
    <2>1. PICK k \in Int : k = Nearest(rpn_stack, j)
      BY <1>1, <1>2 DEF Nearest
    <2>2. k = IF j < 1 THEN 1
              ELSE IF j > Len(Reverse(rpn_stack)) THEN Len(Reverse(rpn_stack)) ELSE j
      BY <1>1, <2>1 DEF Nearest
    <2>3. HasRegister(rpn_stack, i) => HasRegister(rpn_stack, k)
      BY <1>1, <1>2, <2>1 DEF HasRegister, Nearest
    <2>4. moveRPNRegister(rpn_stack, i, j) =
            IF HasRegister(rpn_stack, i)
            THEN Moved(rpn_stack, Position(rpn_stack, i), Position(rpn_stack, k))
            ELSE rpn_stack
      BY <1>1, <1>2, <2>1, MoveRegister
    <2>5. rpn_stack' = IF HasRegister(rpn_stack, i) /\ HasRegister(rpn_stack, k)
                       THEN Moved(rpn_stack, Position(rpn_stack, i), Position(rpn_stack, k))
                       ELSE rpn_stack
      BY <1>3, <2>3, <2>4
    <2>6. Documented!Relocate(i, k, <<>>)
      BY <1>2, <2>5, RelocateSeen
    <2>7. Documented!Move(i, j, <<>>)
      BY <2>2, <2>6 DEF Documented!Move
    <2>8. Documented!Performed(Seen("move", i, j, <<>>), <<>>)
      BY <2>7 DEF Documented!Performed, Seen
    <2>9. QED
      BY <1>3, <2>8, SeenCall
  <1>4. CASE /\ Called(Record("up", i, 0), <<>>, FALSE)
             /\ rpn_stack' = moveRPNRegisterUp(rpn_stack, i)
    <2>1. PICK k \in Int : k = i - 1
      BY <1>2
    <2>2. rpn_stack' = IF HasRegister(rpn_stack, i) /\ HasRegister(rpn_stack, k)
                       THEN Moved(rpn_stack, Position(rpn_stack, i), Position(rpn_stack, k))
                       ELSE rpn_stack
      BY <1>1, <1>2, <1>4, <2>1, MoveRegisterUp
    <2>3. Documented!Relocate(i, k, <<>>)
      BY <1>2, <2>2, RelocateSeen
    <2>4. Documented!Performed(Seen("up", i, 0, <<>>), <<>>)
      BY <2>1, <2>3 DEF Documented!Performed, Seen
    <2>5. QED
      BY <1>4, <2>4, SeenCall
  <1>5. CASE /\ Called(Record("down", i, 0), <<>>, FALSE)
             /\ rpn_stack' = moveRPNRegisterDown(rpn_stack, i)
    <2>1. PICK k \in Int : k = i + 1
      BY <1>2
    <2>2. rpn_stack' = IF HasRegister(rpn_stack, i) /\ HasRegister(rpn_stack, k)
                       THEN Moved(rpn_stack, Position(rpn_stack, i), Position(rpn_stack, k))
                       ELSE rpn_stack
      BY <1>1, <1>2, <1>5, <2>1, MoveRegisterDown
    <2>3. Documented!Relocate(i, k, <<>>)
      BY <1>2, <2>2, RelocateSeen
    <2>4. Documented!Performed(Seen("down", i, 0, <<>>), <<>>)
      BY <2>1, <2>3 DEF Documented!Performed, Seen
    <2>5. QED
      BY <1>5, <2>4, SeenCall
  <1>6. QED
    BY <1>3, <1>4, <1>5 DEF Move

\* The operands of a binary operation as documented, zeros added.
LEMMA OperandsSeen ==
  ASSUME StackTypeOK, NEW op \in Operators, NEW async \in BOOLEAN,
         ~(op \in Operators \ {"subtract"} /\ async /\ Len(rpn_stack) = 1)
  PROVE  Operands(op, async) = [n \in 1..2 |-> OrZero(2 - n + 1)]
  <1>1. Operands(op, async) = <<OrZero(2), OrZero(1)>>
    <2>1. CASE async /\ Len(rpn_stack) = 1
      <3>1. op = "subtract"
        BY <2>1
      <3>2. OrZero(2) = 0
        BY <2>1 DEF OrZero, HasRegister
      <3>3. QED
        BY <2>1, <3>1, <3>2 DEF Operands
    <2>2. CASE ~(async /\ Len(rpn_stack) = 1)
      BY <2>2 DEF Operands
    <2>3. QED
      BY <2>1, <2>2
  <1>2. <<OrZero(2), OrZero(1)>> = [n \in 1..2 |-> OrZero(2 - n + 1)]
    <2>1. 2 - 1 + 1 = 2 /\ 2 - 2 + 1 = 1
      OBVIOUS
    <2>2. \A n \in 1..2 : <<OrZero(2), OrZero(1)>>[n] = OrZero(2 - n + 1)
      <3>1. \A n \in 1..2 : n = 1 \/ n = 2
        OBVIOUS
      <3>2. QED
        BY <2>1, <3>1
    <2>3. QED
      BY <2>2
  <1>3. QED
    BY <1>1, <1>2

LEMMA BinarySeen ==
  ASSUME StackTypeOK, Owned, defined, NEW op \in Operators, NEW async \in BOOLEAN,
         Binary(op, async), FollowsDocumentation
  PROVE  Documented!Next
  <1> DEFINE args == Operands(op, async)
  <1>1. /\ UnrefAndNew(First(2)) /\ Unused # {}
        /\ Called(Record(op, 0, 0), args, async)
        /\ rpn_stack' = OperationTwo(rpn_stack, New)
    BY DEF Binary, UnrefAndNew, Perform
  <1>2. New \in Structures /\ rpn_stack \in Seq(Structures)
    BY <1>1, Fresh, StackFacts
  <1>3. rpn_stack' = Computed(rpn_stack, Taking(rpn_stack, 2), New)
    BY <1>1, <1>2, OperationTwoComputed
  <1>4. made'.name = op /\ made'.thread = async
    BY <1>1, SeenCall
  <1>5. ~(op \in Operators \ {"subtract"} /\ async /\ Len(rpn_stack) = 1)
    BY <1>4 DEF FollowsDocumentation
  <1>6. args = [n \in 1..2 |-> OrZero(2 - n + 1)]
    BY <1>5, OperandsSeen
  <1> HIDE DEF args
  <1>7. Documented!Apply(2, args)
    <2>1. PICK k \in Nat : k = 2
      OBVIOUS
    <2>2. /\ rpn_stack' = Computed(rpn_stack, Taking(rpn_stack, k), New)
          /\ args = [n \in 1..k |-> OrZero(k - n + 1)]
      BY <1>3, <1>6, <2>1
    <2>3. Documented!Apply(k, args)
      BY <1>1, <2>2, SeenApply
    <2>4. QED
      BY <2>1, <2>3
  <1>8. Documented!Performed(Seen(op, 0, 0, args), args)
    <2>1. op \in {"add", "subtract", "divide", "multiply"}
      BY RPNStackAssumption
    <2>2. QED
      BY <1>7, <2>1 DEF Documented!Performed, Seen
  <1>9. QED
    BY <1>1, <1>8, SeenCall

LEMMA NotSeen ==
  ASSUME StackTypeOK, Owned, defined, NEW logical \in BOOLEAN, NEW parsed \in BOOLEAN,
         NEW async \in BOOLEAN, Not(logical, parsed, async)
  PROVE  Documented!Next
  <1> DEFINE args == <<OrZero(1)>>
  <1>1. /\ UnrefAndNew(First(1)) /\ Unused # {}
        /\ Called(Record("not", 0, 0), args, async)
        /\ rpn_stack' = ReplaceFirst(rpn_stack, New)
    BY DEF Not, UnrefAndNew, Perform
  <1>2. New \in Structures /\ rpn_stack \in Seq(Structures)
    BY <1>1, Fresh, StackFacts
  <1>3. rpn_stack' = Computed(rpn_stack, Taking(rpn_stack, 1), New)
    BY <1>1, <1>2, ReplaceFirstComputed
  <1>4. args = [n \in 1..1 |-> OrZero(1 - n + 1)]
    <2>1. \A n \in 1..1 : n = 1 /\ 1 - n + 1 = 1
      OBVIOUS
    <2>2. \A n \in 1..1 : args[n] = OrZero(1 - n + 1)
      BY <2>1
    <2>3. QED
      BY <2>2
  <1> HIDE DEF args
  <1>5. Documented!Apply(1, args)
    <2>1. PICK k \in Nat : k = 1
      OBVIOUS
    <2>2. /\ rpn_stack' = Computed(rpn_stack, Taking(rpn_stack, k), New)
          /\ args = [n \in 1..k |-> OrZero(k - n + 1)]
      BY <1>3, <1>4, <2>1
    <2>3. Documented!Apply(k, args)
      BY <1>1, <2>2, SeenApply
    <2>4. QED
      BY <2>1, <2>3
  <1>6. Documented!Performed(Seen("not", 0, 0, args), args)
    BY <1>5 DEF Documented!Performed, Seen
  <1>7. QED
    BY <1>1, <1>6, SeenCall

LEMMA FunctionSeen ==
  ASSUME StackTypeOK, Owned, defined, Unused # {}, NEW n \in Nat, NEW thread,
         Called(Record("function", n, 0), Arguments(n), thread),
         rpn_stack' = Computed(rpn_stack, Taking(rpn_stack, n), New)
  PROVE  Documented!Next
  <1>1. Arguments(n) = [k \in 1..n |-> OrZero(n - k + 1)]
    BY DEF Arguments
  <1> DEFINE args == Arguments(n)
  <1> HIDE DEF args
  <1>2. args = [k \in 1..n |-> OrZero(n - k + 1)]
    BY <1>1 DEF args
  <1>3. Documented!Apply(n, args)
    BY <1>2, SeenApply
  <1>4. Documented!Performed(Seen("function", n, 0, args), args)
    BY <1>3 DEF Documented!Performed, Seen
  <1>5. Called(Record("function", n, 0), args, thread)
    BY DEF args
  <1>6. QED
    BY <1>4, <1>5, SeenCall

LEMMA AsyncFunctionSeen ==
  ASSUME StackTypeOK, Owned, defined, NEW n \in Arities, AsyncFunction(n)
  PROVE  Documented!Next
  <1>1. n \in Nat /\ Taken(n) = Taking(rpn_stack, n) /\ Taken(n) \in 0..Len(rpn_stack)
    BY TakenIs, RPNStackAssumption
  <1>2. /\ UnrefAndNew(First(Taken(n))) /\ Unused # {}
        /\ Called(Record("function", n, 0), Arguments(n), TRUE)
        /\ rpn_stack' = OperationFunction(rpn_stack, Taken(n), New)
    BY DEF AsyncFunction, UnrefAndNew, Perform
  <1>3. New \in Structures /\ rpn_stack \in Seq(Structures)
    BY <1>2, Fresh, StackFacts
  <1>4. rpn_stack' = Computed(rpn_stack, Taking(rpn_stack, n), New)
    BY <1>1, <1>2, <1>3, OperationFunctionComputed
  <1>5. QED
    BY <1>1, <1>2, <1>4, FunctionSeen

\* Where the synchronous variant follows its documentation it takes one
\* register at most.
LEMMA SyncFunctionSeen ==
  ASSUME StackTypeOK, Owned, defined, NEW n \in Arities, SyncFunction(n), FollowsDocumentation
  PROVE  Documented!Next
  <1>1. /\ n \in Nat /\ Taken(n) = Taking(rpn_stack, n) /\ Taken(n) \in 0..Len(rpn_stack)
        /\ Removed(n) \in 0..Len(rpn_stack) /\ (Taken(n) = 1 => Removed(n) = 0)
        /\ rpn_stack \in Seq(Structures) /\ Len(rpn_stack) \in Nat
    BY TakenIs, RemovedRange, StackFacts, RPNStackAssumption
  <1>2. /\ Unused # {} /\ Called(Record("function", n, 0), Arguments(n), FALSE)
        /\ rpn_stack' = IF Taken(n) = 0
                        THEN RPNStackEnter(DropRegisters(rpn_stack, Removed(n)), New)
                        ELSE setRPNRegister(DropRegisters(rpn_stack, Removed(n)), 1, New)
    BY DEF SyncFunction, UnrefAndNew
  <1>3. made'.name = "function" /\ made'.i = n /\ made'.thread = FALSE
    BY <1>2, SeenCall
  <1>4. Taken(n) \in {0, 1}
    <2>1. ~(Taken(n) > 1)
      BY <1>3 DEF FollowsDocumentation
    <2>2. QED
      BY <1>1, <2>1
  <1>5. Removed(n) = 0
    BY <1>1, <1>4 DEF Removed
  <1>6. DropRegisters(rpn_stack, 0) = rpn_stack
    <2>1. Len(rpn_stack) - 0 = Len(rpn_stack)
      BY <1>1
    <2>2. QED
      BY <1>1, <2>1, SubSeqFull DEF DropRegisters
  <1>7. PICK x \in Structures : x = New
    BY <1>2, Fresh
  <1>8. rpn_stack' = Computed(rpn_stack, Taken(n), New)
    <2>1. CASE Taken(n) = 0
      <3>1. rpn_stack' = RPNStackEnter(rpn_stack, x)
        BY <1>2, <1>5, <1>6, <1>7, <2>1
      <3>2. QED
        BY <1>1, <1>7, <2>1, <3>1, EnterComputed
    <2>2. CASE Taken(n) = 1
      <3>1. rpn_stack' = setRPNRegister(rpn_stack, 1, x)
        BY <1>2, <1>5, <1>6, <1>7, <2>2
      <3>2. rpn_stack # <<>>
        BY <1>1, <2>2, EmptySeq
      <3>3. QED
        BY <1>1, <1>7, <2>2, <3>1, <3>2, SetComputed
    <2>3. QED
      BY <1>4, <2>1, <2>2
  <1>9. QED
    BY <1>1, <1>2, <1>8, FunctionSeen
-----------------------------------------------------------------------------
LEMMA SeenInit ==
  ASSUME StackInit
  PROVE  Documented!Init
  <1>1. rpn_stack = <<>> /\ made = Made(Record("none", 0, 0), <<>>, FALSE)
    BY DEF StackInit
  <1>2. Reverse(rpn_stack) = <<>>
    <2>1. Reverse(<<>>) = <<>>
      BY DEF Reverse
    <2>2. QED
      BY <1>1, <2>1
  <1>3. made.name = "none" /\ made.i = 0 /\ made.j = 0 /\ made.args = <<>>
    BY <1>1 DEF Made, Record
  <1>4. QED
    BY <1>2, <1>3 DEF Documented!Init

LEMMA SeenNext ==
  ASSUME Inv, StackNext, FollowsDocumentation
  PROVE  Documented!Next
  <1>1. StackTypeOK /\ Owned
    BY DEF Inv
  <1>2. defined
    BY DEF StackNext, Enter, clearRPNStack, Set, SetNothing, Delete, Move, Binary, Not,
           AsyncFunction, SyncFunction, Called
  <1>3. CASE Enter
    BY <1>1, <1>2, <1>3, EnterSeen
  <1>4. CASE clearRPNStack
    BY <1>1, <1>4, ClearSeen
  <1>5. ASSUME NEW i \in Indices, Set(i)
        PROVE  Documented!Next
    BY <1>1, <1>2, <1>5, SetSeen
  <1>6. ASSUME NEW i \in Indices, SetNothing(i)
        PROVE  Documented!Next
    BY <1>1, <1>6, SetNothingSeen
  <1>7. ASSUME NEW i \in Indices, Delete(i)
        PROVE  Documented!Next
    BY <1>1, <1>7, DeleteSeen
  <1>8. ASSUME NEW i \in Indices, NEW j \in Indices, Move(i, j)
        PROVE  Documented!Next
    BY <1>1, <1>8, MoveSeen
  <1>9. ASSUME NEW op \in Operators, NEW async \in BOOLEAN, Binary(op, async)
        PROVE  Documented!Next
    BY <1>1, <1>2, <1>9, BinarySeen
  <1>10. ASSUME NEW logical \in BOOLEAN, NEW parsed \in BOOLEAN, NEW async \in BOOLEAN,
                Not(logical, parsed, async)
         PROVE  Documented!Next
    BY <1>1, <1>2, <1>10, NotSeen
  <1>11. ASSUME NEW n \in Arities, AsyncFunction(n)
         PROVE  Documented!Next
    BY <1>1, <1>2, <1>11, AsyncFunctionSeen
  <1>12. ASSUME NEW n \in Arities, SyncFunction(n)
         PROVE  Documented!Next
    BY <1>1, <1>2, <1>12, SyncFunctionSeen
  <1>13. QED
    BY <1>3, <1>4, <1>5, <1>6, <1>7, <1>8, <1>9, <1>10, <1>11, <1>12 DEF StackNext

\* Whatever was called before, and for every number of registers, a call that
\* is not one of those known to differ does what Calculator.h promises: the
\* registers keep their order, the first operand is the highest register, zeros
\* stand in for missing ones and the result comes first.
THEOREM Implements == StackSpec => ImplementsSpec
  <1>1. StackInit => Documented!Init
    BY SeenInit
  <1>2. Inv /\ [StackNext]_stackVars => [FollowsDocumentation => Documented!Next]_stackVars
    BY SeenNext
  <1>3. QED
    BY <1>1, <1>2, InvHolds, PTL DEF StackSpec, ImplementsSpec
==============================================================================
