--------------------------- MODULE MessagesProofs ---------------------------
(***************************************************************************)
(* Proofs about Messages, for every set of reports and every bound: type   *)
(* correctness, and that it implements MessageLog.                         *)
(*                                                                         *)
(* The queues are built by recursive functions; what is shown of them by   *)
(* induction uses the two lemmas below, over sets instead of predicates.   *)
(***************************************************************************)
EXTENDS Messages, TLAPS, SequenceTheorems, NaturalsInduction, WellFoundedInduction

(* Induction and recursion over 0..N.                                      *)

LEMMA LeastNumber ==
  ASSUME NEW T, T \subseteq Nat, T # {}
  PROVE  \E m \in T : \A y \in T : m <= y
  <1> DEFINE R == {p \in Nat \X Nat : p[1] < p[2]}
  <1>1. IsWellFoundedOn(R, Nat)
    BY NatLessThanWellFounded DEF OpToRel
  <1>2. PICK x \in T : \A y \in T : ~(<<y, x>> \in R)
    BY <1>1, WFMin
  <1>3. \A y \in T : x <= y
    <2> SUFFICES ASSUME NEW y \in T PROVE x <= y
      OBVIOUS
    <2>1. x \in Nat /\ y \in Nat
      OBVIOUS
    <2>2. (y < x) => <<y, x>> \in R
      BY <2>1
    <2> HIDE DEF R
    <2>3. QED
      BY <1>2, <2>1, <2>2
  <1>4. QED
    BY <1>3

LEMMA Induction ==
  ASSUME NEW P, 0 \in P, \A n \in Nat : n \in P => n + 1 \in P
  PROVE  Nat \subseteq P
  <1> DEFINE T == Nat \ P
  <1> SUFFICES ASSUME T # {} PROVE FALSE
    OBVIOUS
  <1>1. T \subseteq Nat
    OBVIOUS
  <1> HIDE DEF T
  <1>2. PICK m \in T : \A y \in T : m <= y
    BY <1>1, LeastNumber
  <1>3. m \in Nat /\ m # 0 /\ m \notin P
    BY <1>2 DEF T
  <1>4. m - 1 \in Nat /\ m - 1 \notin T
    BY <1>1, <1>2, <1>3
  <1>5. m - 1 \in P
    BY <1>4 DEF T
  <1>6. QED
    BY <1>3, <1>4, <1>5

\* What holds of 0, and of k when it holds of k - 1, holds of all up to N.
LEMMA InductionUpTo ==
  ASSUME NEW N \in Nat, NEW Q, 0 \in Q, \A k \in 1..N : k - 1 \in Q => k \in Q
  PROVE  \A k \in 0..N : k \in Q
  <1> DEFINE P == {k \in Nat : k <= N => k \in Q}
  <1>1. 0 \in P
    OBVIOUS
  <1>2. ASSUME NEW k \in Nat, k \in P PROVE k + 1 \in P
    <2> SUFFICES ASSUME k + 1 <= N PROVE k + 1 \in Q
      OBVIOUS
    <2>1. k \in Q /\ k + 1 \in 1..N /\ (k + 1) - 1 = k
      BY <1>2
    <2>2. PICK j \in 1..N : j = k + 1
      BY <2>1
    <2>3. QED
      BY <2>1, <2>2
  <1>3. Nat \subseteq P
    <2> HIDE DEF P
    <2> QED
      BY <1>1, <1>2, Induction
  <1>4. QED
    BY <1>3

\* g(0) is b, and its value at k what step F makes of the one at k - 1.
Solves(g, V, b, N, F) ==
    g \in [0..N -> V] /\ g[0] = b /\ \A k \in 1..N : g[k] = F[<<k, g[k - 1]>>]

LEMMA Recursion ==
  ASSUME NEW V, NEW b \in V, NEW N \in Nat, NEW F \in [(1..N) \X V -> V]
  PROVE  \E g : Solves(g, V, b, N, F)
  <1> DEFINE Good(n, g) == g[0] = b /\ \A k \in 1..n : g[k] = F[<<k, g[k - 1]>>]
             Q == {n \in Nat : \E g \in [0..n -> V] : Good(n, g)}
  <1>1. 0 \in Q
    <2>1. [k \in 0..0 |-> b] \in [0..0 -> V] /\ Good(0, [k \in 0..0 |-> b])
      OBVIOUS
    <2>2. QED
      BY <2>1
  <1>2. ASSUME NEW m \in 1..N, m - 1 \in Q
        PROVE  m \in Q
    <2>1. PICK n \in Nat : n = m - 1 /\ m = n + 1 /\ n \in Q
      BY <1>2
    <2> SUFFICES \E g \in [0..(n + 1) -> V] : Good(n + 1, g)
      BY <2>1
    <2>2. PICK g \in [0..n -> V] : Good(n, g)
      BY <2>1
    <2> DEFINE h == [k \in 0..(n + 1) |-> IF k <= n THEN g[k] ELSE F[<<n + 1, g[n]>>]]
    <2>3. <<n + 1, g[n]>> \in (1..N) \X V /\ F[<<n + 1, g[n]>>] \in V
      BY <2>1
    <2>4. h \in [0..(n + 1) -> V]
      BY <2>3
    <2>5. /\ \A k \in 0..n : h[k] = g[k]
          /\ h[n + 1] = F[<<n + 1, g[n]>>]
      OBVIOUS
    <2> HIDE DEF h
    <2>6. h[0] = b
      BY <2>2, <2>5
    <2>7. ASSUME NEW k \in 1..(n + 1)
          PROVE  h[k] = F[<<k, h[k - 1]>>]
      <3>1. CASE k = n + 1
        <4>1. k - 1 = n /\ n \in 0..n
          BY <3>1
        <4>2. QED
          BY <2>5, <3>1, <4>1
      <3>2. CASE k # n + 1
        <4>1. k \in 1..n /\ k \in 0..n /\ k - 1 \in 0..n
          BY <3>2
        <4>2. QED
          BY <2>2, <2>5, <4>1
      <3>3. QED
        BY <3>1, <3>2
    <2>8. QED
      BY <2>4, <2>6, <2>7
  <1>3. N \in Q
    <2> HIDE DEF Q
    <2>1. \A k \in 0..N : k \in Q
      BY <1>1, <1>2, InductionUpTo
    <2>2. QED
      BY <2>1
  <1>4. PICK g \in [0..N -> V] : Good(N, g)
    BY <1>3
  <1>5. Solves(g, V, b, N, F)
    BY <1>4 DEF Solves
  <1>6. QED
    BY <1>5

-----------------------------------------------------------------------------
(* What the recursive functions of Messages are.                           *)

Stops == Seq(Seq(Reports))

LEMMA GatheredParts ==
  ASSUME NEW m \in Seq(Reports), NEW s \in Stops
  PROVE  /\ Gathered(m, s) \in [0..Len(s) -> Seq(Reports)]
         /\ Gathered(m, s)[0] = m
         /\ \A l \in 1..Len(s) : Gathered(m, s)[l] = Gathered(m, s)[l - 1] \o s[l]
  <1>0. Len(s) \in Nat /\ \A l \in 1..Len(s) : s[l] \in Seq(Reports)
    BY DEF Stops
  <1>1. PICK N \in Nat : N = Len(s)
    BY <1>0
  <1>2. PICK V : V = Seq(Reports)
    OBVIOUS
  <1>3. PICK F \in [(1..N) \X V -> V] : \A k \in 1..N, x \in V : F[<<k, x>>] = x \o s[k]
    <2> DEFINE F == [p \in (1..N) \X V |-> p[2] \o s[p[1]]]
    <2>1. \A p \in (1..N) \X V : p[2] \o s[p[1]] \in V
      <3> SUFFICES ASSUME NEW p \in (1..N) \X V PROVE p[2] \o s[p[1]] \in V
        OBVIOUS
      <3>1. p[2] \in Seq(Reports) /\ s[p[1]] \in Seq(Reports)
        BY <1>0, <1>1, <1>2
      <3>2. QED
        BY <1>2, <3>1
    <2>2. F \in [(1..N) \X V -> V]
      BY <2>1
    <2>3. \A k \in 1..N, x \in V : F[<<k, x>>] = x \o s[k]
      OBVIOUS
    <2> HIDE DEF F
    <2>4. QED
      BY <2>2, <2>3
  <1>4. PICK g \in [0..N -> V] : g[0] = m /\ \A k \in 1..N : g[k] = F[<<k, g[k - 1]>>]
    <2>1. m \in V
      BY <1>2
    <2>2. \E g : Solves(g, V, m, N, F)
      BY <2>1, Recursion, Zenon
    <2>3. QED
      BY <2>2 DEF Solves
  <1>5. \A k \in 1..N : g[k] = g[k - 1] \o s[k]
    <2> SUFFICES ASSUME NEW k \in 1..N PROVE g[k] = g[k - 1] \o s[k]
      OBVIOUS
    <2>1. g[k - 1] \in V
      OBVIOUS
    <2>2. QED
      BY <1>3, <1>4, <2>1
  <1>6. g = [l \in 0..Len(s) |-> IF l = 0 THEN m ELSE g[l - 1] \o s[l]]
    <2>1. \A l \in 0..Len(s) : g[l] = IF l = 0 THEN m ELSE g[l - 1] \o s[l]
      <3>1. \A l \in 0..Len(s) : l # 0 => l \in 1..N
        BY <1>1
      <3>2. QED
        BY <1>4, <1>5, <3>1
    <2>2. QED
      BY <1>1, <2>1
  <1>7. Gathered(m, s) = [l \in 0..Len(s) |-> IF l = 0 THEN m ELSE Gathered(m, s)[l - 1] \o s[l]]
    BY <1>6, Zenon DEF Gathered
  <1>8. PICK h : h = Gathered(m, s)
    OBVIOUS
  <1>9. /\ h[0] = m
        /\ \A l \in 1..N : h[l] = h[l - 1] \o s[l]
        /\ h = [l \in 0..N |-> h[l]]
    <2>1. h = [l \in 0..N |-> IF l = 0 THEN m ELSE h[l - 1] \o s[l]]
      BY <1>1, <1>7, <1>8
    <2>2. 0 \in 0..N /\ \A l \in 1..N : l \in 0..N /\ l # 0
      OBVIOUS
    <2>3. \A l \in 0..N : h[l] = IF l = 0 THEN m ELSE h[l - 1] \o s[l]
      BY <2>1, Zenon
    <2>4. h = [l \in 0..N |-> h[l]]
      BY <2>1
    <2>5. QED
      BY <2>2, <2>3, <2>4
  <1>10. \A l \in 0..N : h[l] \in V
    <2> DEFINE Q == {l \in 0..N : h[l] \in V}
    <2>1. 0 \in Q
      BY <1>2, <1>9
    <2>2. ASSUME NEW k \in 1..N, k - 1 \in Q PROVE k \in Q
      <3>1. h[k - 1] \in Seq(Reports) /\ s[k] \in Seq(Reports)
        BY <1>0, <1>1, <1>2, <2>2
      <3>2. h[k] \in Seq(Reports)
        BY <1>9, <3>1, ConcatProperties, ZenonT(60)
      <3>3. QED
        BY <1>2, <3>2
    <2> HIDE DEF Q
    <2>3. \A k \in 0..N : k \in Q
      BY <2>1, <2>2, InductionUpTo
    <2>4. QED
      BY <2>3 DEF Q
  <1>11. QED
    BY <1>1, <1>2, <1>8, <1>9, <1>10

\* Up to n the gathered messages depend on the first n stops only.
LEMMA GatheredAgree ==
  ASSUME NEW m \in Seq(Reports), NEW s \in Stops, NEW t \in Stops,
         NEW n \in 0..Len(s), n <= Len(t), \A l \in 1..n : s[l] = t[l]
  PROVE  \A l \in 0..n : Gathered(m, s)[l] = Gathered(m, t)[l]
  <1> DEFINE Q == {l \in 0..n : Gathered(m, s)[l] = Gathered(m, t)[l]}
  <1>1. Len(s) \in Nat /\ Len(t) \in Nat /\ n \in Nat
    BY DEF Stops
  <1>2. 0 \in Q
    <2>1. Gathered(m, s)[0] = m /\ Gathered(m, t)[0] = m
      BY GatheredParts
    <2>2. QED
      BY <1>1, <2>1
  <1>3. ASSUME NEW k \in 1..n, k - 1 \in Q PROVE k \in Q
    <2>1. k \in 1..Len(s) /\ k \in 1..Len(t)
      BY <1>1
    <2>2. /\ Gathered(m, s)[k] = Gathered(m, s)[k - 1] \o s[k]
          /\ Gathered(m, t)[k] = Gathered(m, t)[k - 1] \o t[k]
      BY <2>1, GatheredParts
    <2>3. Gathered(m, s)[k - 1] = Gathered(m, t)[k - 1] /\ s[k] = t[k] /\ k \in 0..n
      BY <1>3
    <2>4. Gathered(m, s)[k] = Gathered(m, t)[k]
      BY <2>2, <2>3
    <2>5. QED
      BY <2>3, <2>4
  <1> HIDE DEF Q
  <1>4. \A l \in 0..n : l \in Q
    BY <1>1, <1>2, <1>3, InductionUpTo
  <1>5. QED
    BY <1>4 DEF Q

\* They begin with the messages, whatever these are.
LEMMA GatheredAfter ==
  ASSUME NEW m \in Seq(Reports), NEW s \in Stops
  PROVE  \A l \in 0..Len(s) : Gathered(m, s)[l] = m \o Gathered(<<>>, s)[l]
  <1> DEFINE Q == {l \in 0..Len(s) : Gathered(m, s)[l] = m \o Gathered(<<>>, s)[l]}
  <1>1. Len(s) \in Nat /\ <<>> \in Seq(Reports) /\ \A l \in 1..Len(s) : s[l] \in Seq(Reports)
    BY DEF Stops
  <1>2. PICK e \in Seq(Reports) : e = <<>>
    BY <1>1
  <1>3. Gathered(m, s)[0] = m /\ Gathered(e, s)[0] = e
    BY GatheredParts
  <1>4. 0 \in Q
    <2>1. m = m \o e
      BY <1>2, ConcatEmptySeq
    <2>2. QED
      BY <1>1, <1>2, <1>3, <2>1
  <1>5. ASSUME NEW k \in 1..Len(s), k - 1 \in Q PROVE k \in Q
    <2>1. k - 1 \in 0..Len(s)
      BY <1>1
    <2>2. /\ Gathered(m, s)[k] = Gathered(m, s)[k - 1] \o s[k]
          /\ Gathered(e, s)[k] = Gathered(e, s)[k - 1] \o s[k]
          /\ Gathered(e, s)[k - 1] \in Seq(Reports)
      BY <2>1, GatheredParts
    <2>3. (m \o Gathered(e, s)[k - 1]) \o s[k] = m \o (Gathered(e, s)[k - 1] \o s[k])
      <3>1. PICK g \in Seq(Reports) : g = Gathered(e, s)[k - 1]
        BY <2>2
      <3>2. PICK h \in Seq(Reports) : h = s[k]
        BY <1>1
      <3>3. (m \o g) \o h = m \o (g \o h)
        BY ONLY SMTT(30)
      <3>4. QED
        BY <3>1, <3>2, <3>3
    <2>4. Gathered(m, s)[k - 1] = m \o Gathered(e, s)[k - 1]
      BY <1>2, <1>5
    <2>5. Gathered(m, s)[k] = m \o Gathered(e, s)[k]
      BY <2>2, <2>3, <2>4
    <2>6. k \in 0..Len(s)
      BY <1>1
    <2>7. QED
      BY <1>2, <2>5, <2>6
  <1> HIDE DEF Q
  <1>6. \A l \in 0..Len(s) : l \in Q
    BY <1>1, <1>4, <1>5, InductionUpTo
  <1>7. QED
    BY <1>6 DEF Q

LEMMA TextInConcat ==
  ASSUME NEW a \in Seq(Reports), NEW b \in Seq(Reports), NEW x
  PROVE  HasText(a \o b, x) <=> HasText(a, x) \/ HasText(b, x)
  <1>1. /\ Len(a) \in Nat /\ Len(b) \in Nat /\ Len(a \o b) = Len(a) + Len(b)
        /\ DOMAIN a = 1..Len(a) /\ DOMAIN b = 1..Len(b) /\ DOMAIN (a \o b) = 1..Len(a \o b)
    OBVIOUS
  <1>2. \A i \in 1..Len(a) : i \in 1..Len(a \o b) /\ (a \o b)[i] = a[i]
    BY <1>1
  <1>3. \A i \in 1..Len(b) : Len(a) + i \in 1..Len(a \o b) /\ (a \o b)[Len(a) + i] = b[i]
    BY <1>1
  <1>4. \A i \in 1..Len(a \o b) : i \in 1..Len(a) \/ (i - Len(a) \in 1..Len(b) /\ (a \o b)[i] = b[i - Len(a)])
    BY <1>1
  <1>5. HasText(a, x) => HasText(a \o b, x)
    BY <1>1, <1>2 DEF HasText
  <1>6. HasText(b, x) => HasText(a \o b, x)
    BY <1>1, <1>3 DEF HasText
  <1>7. HasText(a \o b, x) => HasText(a, x) \/ HasText(b, x)
    BY <1>1, <1>2, <1>4 DEF HasText
  <1>8. QED
    BY <1>5, <1>6, <1>7

\* A text is among the gathered messages when it is among the messages or in
\* one of the stops.
LEMMA TextGathered ==
  ASSUME NEW m \in Seq(Reports), NEW s \in Stops, NEW x
  PROVE  \A n \in 0..Len(s) : Duplicate(x, n, m, s) <=> HasText(Gathered(m, s)[n], x)
  <1> DEFINE Q == {n \in 0..Len(s) : Duplicate(x, n, m, s) <=> HasText(Gathered(m, s)[n], x)}
  <1>1. Len(s) \in Nat /\ \A l \in 1..Len(s) : s[l] \in Seq(Reports)
    BY DEF Stops
  <1>2. 0 \in Q
    <2>1. Gathered(m, s)[0] = m
      BY GatheredParts
    <2>2. Duplicate(x, 0, m, s) <=> HasText(m, x)
      BY DEF Duplicate
    <2>3. QED
      BY <1>1, <2>1, <2>2
  <1>3. ASSUME NEW k \in 1..Len(s), k - 1 \in Q PROVE k \in Q
    <2>1. k - 1 \in 0..Len(s)
      BY <1>1
    <2>2. Gathered(m, s)[k] = Gathered(m, s)[k - 1] \o s[k] /\ Gathered(m, s)[k - 1] \in Seq(Reports)
      BY <2>1, GatheredParts
    <2>3. HasText(Gathered(m, s)[k], x) <=> HasText(Gathered(m, s)[k - 1], x) \/ HasText(s[k], x)
      BY <1>1, <2>2, TextInConcat
    <2>4. 1..k = (1..(k - 1)) \cup {k}
      BY <1>1
    <2>5. Duplicate(x, k, m, s) <=> Duplicate(x, k - 1, m, s) \/ HasText(s[k], x)
      BY <2>4 DEF Duplicate
    <2>6. QED
      BY <1>3, <2>3, <2>5
  <1> HIDE DEF Q
  <1>4. \A l \in 0..Len(s) : l \in Q
    BY <1>1, <1>2, <1>3, InductionUpTo
  <1>5. QED
    BY <1>4 DEF Q

-----------------------------------------------------------------------------
(* What adding one message, and several, does to the queues.               *)

TextsDiffer(seq) == \A i, k \in DOMAIN seq : seq[i].text = seq[k].text => i = k

\* The queues t after some additions to n stops, seen from the queues s.
Queues(s) == Seq(Reports) \X {t \in Stops : Len(t) = Len(s)}

LEMMA AppendOne ==
  ASSUME NEW log \in Seq(Reports), NEW x \in Reports, ~HasText(log, x), TextsDiffer(log)
  PROVE  TextsDiffer(Append(log, x))
  <1>1. /\ Len(log) \in Nat /\ DOMAIN log = 1..Len(log)
        /\ DOMAIN Append(log, x) = 1..(Len(log) + 1)
        /\ Append(log, x)[Len(log) + 1] = x
        /\ \A i \in 1..Len(log) : Append(log, x)[i] = log[i]
    OBVIOUS
  <1>2. \A i \in 1..(Len(log) + 1) : i \in 1..Len(log) \/ i = Len(log) + 1
    BY <1>1
  <1>3. QED
    BY <1>1, <1>2 DEF TextsDiffer, HasText

\* One message, to n open stops: a known text changes nothing, another one
\* comes last among what is gathered up to n.
LEMMA PutParts ==
  ASSUME NEW x \in Reports, NEW m \in Seq(Reports), NEW s \in Stops, NEW n \in 0..Len(s),
         NEW p, p = Put(x, n, m, s)
  PROVE  /\ p \in Queues(s)
         /\ \A l \in 1..Len(s) : l # n => p[2][l] = s[l]
         /\ \A l \in 0..(n - 1) : Gathered(p[1], p[2])[l] = Gathered(m, s)[l]
         /\ Gathered(p[1], p[2])[n] = IF HasText(Gathered(m, s)[n], x) THEN Gathered(m, s)[n]
                                      ELSE Append(Gathered(m, s)[n], x)
  <1>0. Len(s) \in Nat /\ \A l \in 1..Len(s) : s[l] \in Seq(Reports)
    BY DEF Stops
  <1>1. Duplicate(x, n, m, s) <=> HasText(Gathered(m, s)[n], x)
    BY TextGathered
  <1>2. CASE Duplicate(x, n, m, s)
    <2>1. p = <<m, s>>
      BY <1>2 DEF Put
    <2>2. p[1] = m /\ p[2] = s /\ p \in Queues(s)
      BY <2>1 DEF Queues
    <2>3. QED
      BY <1>1, <1>2, <2>2
  <1>3. CASE ~Duplicate(x, n, m, s) /\ n = 0
    <2>1. p = <<Append(m, x), s>>
      BY <1>3 DEF Put
    <2>2. p[1] = Append(m, x) /\ p[2] = s /\ Append(m, x) \in Seq(Reports)
      BY <2>1
    <2>3. p \in Queues(s)
      BY <2>1, <2>2 DEF Queues
    <2>4. Gathered(p[1], p[2])[0] = Append(m, x) /\ Gathered(m, s)[0] = m
      BY <2>2, GatheredParts
    <2>5. \A l \in 0..(n - 1) : FALSE
      BY <1>3
    <2>6. Gathered(p[1], p[2])[n] = Append(Gathered(m, s)[n], x)
      BY <1>3, <2>4
    <2>7. QED
      BY <1>1, <1>3, <2>2, <2>3, <2>5, <2>6
  <1>4. CASE ~Duplicate(x, n, m, s) /\ n # 0
    <2>1. PICK t : t = [s EXCEPT ![n] = Append(s[n], x)]
      OBVIOUS
    <2>2. p = <<m, t>> /\ n \in 1..Len(s)
      <3>1. n > 0 /\ n \in 1..Len(s)
        BY <1>0, <1>4
      <3>2. QED
        BY <1>4, <2>1, <3>1 DEF Put
    <2>3. p[1] = m /\ p[2] = t
      BY <2>2
    <2>4. /\ t \in Stops /\ Len(t) = Len(s)
          /\ t[n] = Append(s[n], x)
          /\ \A l \in 1..Len(s) : l # n => t[l] = s[l]
      <3>1. Append(s[n], x) \in Seq(Reports)
        BY <1>0, <2>2
      <3>2. QED
        BY <1>0, <2>1, <2>2, <3>1, ExceptSeq DEF Stops
    <2>5. p \in Queues(s)
      BY <2>2, <2>4 DEF Queues
    <2>6. \A l \in 0..(n - 1) : Gathered(m, t)[l] = Gathered(m, s)[l]
      <3>1. PICK k \in 0..Len(s) : k = n - 1
        BY <1>0, <2>2
      <3>2. \A l \in 1..k : s[l] = t[l]
        BY <1>0, <2>4, <3>1
      <3>3. \A l \in 0..k : Gathered(m, s)[l] = Gathered(m, t)[l]
        BY <1>0, <2>4, <3>2, GatheredAgree, SMTT(60)
      <3>4. QED
        BY <3>1, <3>3
    <2>7. Gathered(m, t)[n] = Append(Gathered(m, s)[n], x)
      <3>1. /\ Gathered(m, t)[n] = Gathered(m, t)[n - 1] \o t[n]
            /\ Gathered(m, s)[n] = Gathered(m, s)[n - 1] \o s[n]
            /\ Gathered(m, s)[n - 1] \in Seq(Reports)
        <4>1. n \in 1..Len(t) /\ n - 1 \in 0..Len(s)
          BY <1>0, <2>2, <2>4
        <4>2. QED
          BY <2>2, <2>4, <4>1, GatheredParts
      <3>2. PICK g \in Seq(Reports) : g = Gathered(m, s)[n - 1]
        BY <3>1
      <3>3. PICK h \in Seq(Reports) : h = s[n]
        BY <1>0, <2>2
      <3>4. g \o Append(h, x) = Append(g \o h, x)
        BY ONLY SMTT(30)
      <3>5. n - 1 \in 0..(n - 1)
        BY <1>0, <2>2
      <3>6. QED
        BY <2>4, <2>6, <3>1, <3>2, <3>3, <3>4, <3>5
    <2>8. QED
      BY <1>1, <1>4, <2>3, <2>4, <2>5, <2>6, <2>7
  <1>5. QED
    BY <1>2, <1>3, <1>4

LEMMA PutAllParts ==
  ASSUME NEW v \in Seq(Reports), NEW m \in Seq(Reports), NEW s \in Stops, NEW n \in 0..Len(s)
  PROVE  \E q \in [0..Len(v) -> Queues(s)] :
            /\ q[0] = <<m, s>> /\ PutAll(v, n, m, s) = q[Len(v)]
            /\ \A k \in 1..Len(v) : q[k] = Put(v[k], n, q[k - 1][1], q[k - 1][2])
  <1>0. Len(v) \in Nat /\ \A k \in 1..Len(v) : v[k] \in Reports
    OBVIOUS
  <1>1. PICK N \in Nat : N = Len(v)
    BY <1>0
  <1>2. PICK V : V = Queues(s)
    OBVIOUS
  <1>3. \A x \in Reports, p \in V : Put(x, n, p[1], p[2]) \in V
    <2> SUFFICES ASSUME NEW x \in Reports, NEW p \in V PROVE Put(x, n, p[1], p[2]) \in V
      OBVIOUS
    <2>1. PICK a \in Seq(Reports) : a = p[1]
      BY <1>2 DEF Queues
    <2>2. PICK t \in Stops : t = p[2] /\ Len(t) = Len(s)
      BY <1>2 DEF Queues
    <2>3. PICK r : r = Put(x, n, a, t)
      OBVIOUS
    <2>4. r \in Queues(t)
      BY <2>2, <2>3, PutParts
    <2>5. Queues(t) = Queues(s)
      BY <2>2 DEF Queues
    <2>6. QED
      BY <1>2, <2>1, <2>2, <2>3, <2>4, <2>5
  <1>4. PICK b \in V : b = <<m, s>>
    BY <1>2 DEF Queues
  <1>5. PICK F \in [(1..N) \X V -> V] : \A k \in 1..N, p \in V : F[<<k, p>>] = Put(v[k], n, p[1], p[2])
    <2> DEFINE F == [d \in (1..N) \X V |-> Put(v[d[1]], n, d[2][1], d[2][2])]
    <2>1. \A d \in (1..N) \X V : Put(v[d[1]], n, d[2][1], d[2][2]) \in V
      <3> SUFFICES ASSUME NEW d \in (1..N) \X V PROVE Put(v[d[1]], n, d[2][1], d[2][2]) \in V
        OBVIOUS
      <3>1. v[d[1]] \in Reports /\ d[2] \in V
        BY <1>0, <1>1
      <3>2. QED
        BY <1>3, <3>1
    <2>2. F \in [(1..N) \X V -> V]
      BY <2>1
    <2>3. \A k \in 1..N, p \in V : F[<<k, p>>] = Put(v[k], n, p[1], p[2])
      OBVIOUS
    <2> HIDE DEF F
    <2>4. QED
      BY <2>2, <2>3
  <1>6. PICK g : Solves(g, V, b, N, F)
    BY Recursion, Zenon
  <1>7. g \in [0..N -> V] /\ g[0] = b /\ \A k \in 1..N : g[k] = F[<<k, g[k - 1]>>]
    BY <1>6 DEF Solves
  <1>8. \A k \in 1..N : g[k] = Put(v[k], n, g[k - 1][1], g[k - 1][2])
    <2> SUFFICES ASSUME NEW k \in 1..N PROVE g[k] = Put(v[k], n, g[k - 1][1], g[k - 1][2])
      OBVIOUS
    <2>1. g[k - 1] \in V
      BY <1>7
    <2>2. QED
      BY <1>5, <1>7, <2>1
  <1>9. g = [k \in 0..Len(v) |-> IF k = 0 THEN <<m, s>> ELSE Put(v[k], n, g[k - 1][1], g[k - 1][2])]
    <2>1. \A k \in 0..Len(v) : k # 0 => k \in 1..N
      BY <1>1
    <2>2. \A k \in 0..Len(v) : g[k] = IF k = 0 THEN <<m, s>> ELSE Put(v[k], n, g[k - 1][1], g[k - 1][2])
      BY <1>4, <1>7, <1>8, <2>1
    <2>3. QED
      BY <1>1, <1>7, <2>2
  <1>10. PICK q : /\ q = [k \in 0..Len(v) |-> IF k = 0 THEN <<m, s>>
                                             ELSE Put(v[k], n, q[k - 1][1], q[k - 1][2])]
                  /\ PutAll(v, n, m, s) = q[Len(v)]
    BY <1>9, Zenon DEF PutAll
  <1>11. /\ q[0] = <<m, s>> /\ q = [k \in 0..N |-> q[k]]
         /\ \A k \in 1..N : q[k] = Put(v[k], n, q[k - 1][1], q[k - 1][2])
    <2>1. 0 \in 0..N /\ \A k \in 1..N : k \in 0..N /\ k # 0
      OBVIOUS
    <2>2. \A k \in 0..N : q[k] = IF k = 0 THEN <<m, s>> ELSE Put(v[k], n, q[k - 1][1], q[k - 1][2])
      BY <1>1, <1>10, Zenon
    <2>3. q = [k \in 0..N |-> q[k]]
      BY <1>1, <1>10
    <2>4. QED
      BY <2>1, <2>2, <2>3
  <1>12. \A k \in 0..N : q[k] \in V
    <2> DEFINE Q == {k \in 0..N : q[k] \in V}
    <2>1. 0 \in Q
      BY <1>4, <1>11, SMTT(60)
    <2>2. ASSUME NEW k \in 1..N, k - 1 \in Q PROVE k \in Q
      <3>1. q[k - 1] \in V /\ v[k] \in Reports
        BY <1>0, <1>1, <2>2
      <3>2. q[k] \in V
        BY <1>3, <1>11, <3>1
      <3>3. QED
        BY <3>2
    <2> HIDE DEF Q
    <2>3. \A k \in 0..N : k \in Q
      BY <2>1, <2>2, InductionUpTo
    <2>4. QED
      BY <2>3 DEF Q
  <1>13. q \in [0..N -> V]
    BY <1>11, <1>12
  <1>14. QED
    BY <1>1, <1>2, <1>10, <1>11, <1>13

-----------------------------------------------------------------------------
(* The client takes messages out of the first queue.                       *)

\* Sequence a holds some of the first k members of m, in their order.
PartOf(a, m, k) ==
    \E n \in 0..k : \E kept \in [1..n -> 1..k] :
        /\ \A i, j \in 1..n : i < j => kept[i] < kept[j]
        /\ a = [i \in 1..n |-> m[kept[i]]]

LEMMA PartGrows ==
  ASSUME NEW m \in Seq(Reports), NEW k \in 1..Len(m), NEW a, PartOf(a, m, k - 1)
  PROVE  PartOf(a, m, k) /\ PartOf(Append(a, m[k]), m, k)
  <1>0. Len(m) \in Nat /\ k \in Nat /\ k - 1 \in Nat /\ \A i \in 1..Len(m) : m[i] \in Reports
    OBVIOUS
  <1>1. PICK j \in Nat : j = k - 1 /\ k = j + 1
    BY <1>0
  <1>2. PICK n \in 0..j : \E kept \in [1..n -> 1..j] :
           /\ \A i, l \in 1..n : i < l => kept[i] < kept[l]
           /\ a = [i \in 1..n |-> m[kept[i]]]
    BY <1>1 DEF PartOf
  <1>3. PICK kept \in [1..n -> 1..j] :
           /\ \A i, l \in 1..n : i < l => kept[i] < kept[l]
           /\ a = [i \in 1..n |-> m[kept[i]]]
    BY <1>2
  <1>4. PartOf(a, m, k)
    <2>1. n \in 0..k /\ kept \in [1..n -> 1..k]
      BY <1>1
    <2>2. QED
      BY <1>3, <2>1 DEF PartOf
  <1>5. PICK more \in [1..(n + 1) -> 1..k] : more[n + 1] = k /\ \A i \in 1..n : more[i] = kept[i]
    <2> DEFINE more == [i \in 1..(n + 1) |-> IF i = n + 1 THEN k ELSE kept[i]]
    <2>1. \A i \in 1..(n + 1) : i # n + 1 => i \in 1..n /\ kept[i] \in 1..k
      BY <1>1
    <2>2. more \in [1..(n + 1) -> 1..k]
      BY <1>1, <2>1
    <2>3. more[n + 1] = k /\ \A i \in 1..n : more[i] = kept[i]
      OBVIOUS
    <2> HIDE DEF more
    <2>4. QED
      BY <2>2, <2>3
  <1>6. \A i, l \in 1..(n + 1) : i < l => more[i] < more[l]
    <2> SUFFICES ASSUME NEW i \in 1..(n + 1), NEW l \in 1..(n + 1), i < l PROVE more[i] < more[l]
      OBVIOUS
    <2>1. i \in 1..n /\ kept[i] \in 1..j /\ more[i] = kept[i]
      BY <1>5
    <2>2. CASE l = n + 1
      BY <1>1, <1>5, <2>1, <2>2
    <2>3. CASE l # n + 1
      <3>1. l \in 1..n
        BY <2>3
      <3>2. QED
        BY <1>3, <1>5, <2>1, <3>1
    <2>4. QED
      BY <2>2, <2>3
  <1>7. Append(a, m[k]) = [i \in 1..(n + 1) |-> m[more[i]]]
    <2>1. a \in Seq(Reports) /\ Len(a) = n
      <3>1. \A i \in 1..n : m[kept[i]] \in Reports
        BY <1>0, <1>1
      <3>2. a \in [1..n -> Reports]
        BY <1>3, <3>1
      <3>3. QED
        BY <3>2
    <2>2. DOMAIN Append(a, m[k]) = 1..(n + 1)
      BY <1>0, <2>1
    <2>3. \A i \in 1..(n + 1) : Append(a, m[k])[i] = m[more[i]]
      <3> SUFFICES ASSUME NEW i \in 1..(n + 1) PROVE Append(a, m[k])[i] = m[more[i]]
        OBVIOUS
      <3>1. CASE i = n + 1
        BY <1>0, <1>5, <2>1, <3>1
      <3>2. CASE i # n + 1
        <4>1. i \in 1..n
          BY <3>2
        <4>2. Append(a, m[k])[i] = a[i]
          BY <1>0, <2>1, <4>1
        <4>3. QED
          BY <1>3, <1>5, <4>1, <4>2
      <3>3. QED
        BY <3>1, <3>2
    <2>4. Append(a, m[k]) = [i \in 1..(n + 1) |-> Append(a, m[k])[i]]
      BY <1>0, <2>1, <2>2
    <2>5. QED
      BY <2>3, <2>4
  <1>8. PartOf(Append(a, m[k]), m, k)
    <2>1. n + 1 \in 0..k
      BY <1>1
    <2>2. QED
      BY <1>6, <1>7, <2>1 DEF PartOf
  <1>9. QED
    BY <1>4, <1>8

LEMMA CleanedIsPart ==
  ASSUME NEW m \in Seq(Reports), NEW skip \in Nat
  PROVE  PartOf(Cleaned(m, skip), m, Len(m))
  <1>0. Len(m) \in Nat /\ \A k \in 1..Len(m) : m[k] \in Reports
    OBVIOUS
  <1>1. PICK N \in Nat : N = Len(m)
    BY <1>0
  <1>2. PICK V : V = Seq(Reports)
    OBVIOUS
  <1>3. PICK b \in V : b = <<>>
    <2>1. <<>> \in V
      BY <1>2
    <2>2. QED
      BY <2>1
  <1>4. PICK F \in [(1..N) \X V -> V] :
           \A k \in 1..N, x \in V :
              F[<<k, x>>] = IF k > skip /\ m[k].wide THEN x ELSE Append(x, m[k])
    <2> DEFINE F == [d \in (1..N) \X V |-> IF d[1] > skip /\ m[d[1]].wide THEN d[2]
                                           ELSE Append(d[2], m[d[1]])]
    <2>1. \A d \in (1..N) \X V : d[2] \in V /\ Append(d[2], m[d[1]]) \in V
      BY <1>0, <1>1, <1>2
    <2>2. F \in [(1..N) \X V -> V]
      BY <2>1
    <2>3. \A k \in 1..N, x \in V :
             F[<<k, x>>] = IF k > skip /\ m[k].wide THEN x ELSE Append(x, m[k])
      OBVIOUS
    <2> HIDE DEF F
    <2>4. QED
      BY <2>2, <2>3
  <1>5. PICK g : Solves(g, V, b, N, F)
    BY Recursion, Zenon
  <1>6. g \in [0..N -> V] /\ g[0] = b /\ \A k \in 1..N : g[k] = F[<<k, g[k - 1]>>]
    BY <1>5 DEF Solves
  <1>7. \A k \in 1..N : g[k] = IF k > skip /\ m[k].wide THEN g[k - 1] ELSE Append(g[k - 1], m[k])
    <2> SUFFICES ASSUME NEW k \in 1..N
                 PROVE  g[k] = IF k > skip /\ m[k].wide THEN g[k - 1] ELSE Append(g[k - 1], m[k])
      OBVIOUS
    <2>1. g[k - 1] \in V
      BY <1>6
    <2>2. QED
      BY <1>4, <1>6, <2>1
  <1>8. g = [k \in 0..Len(m) |->
                IF k = 0 THEN <<>>
                ELSE IF k > skip /\ m[k].wide THEN g[k - 1] ELSE Append(g[k - 1], m[k])]
    <2>1. \A k \in 0..Len(m) : k # 0 => k \in 1..N
      BY <1>1
    <2>2. \A k \in 0..Len(m) :
             g[k] = IF k = 0 THEN <<>>
                    ELSE IF k > skip /\ m[k].wide THEN g[k - 1] ELSE Append(g[k - 1], m[k])
      BY <1>3, <1>6, <1>7, <2>1
    <2>3. QED
      BY <1>1, <1>6, <2>2
  <1>9. PICK q : /\ q = [k \in 0..Len(m) |->
                           IF k = 0 THEN <<>>
                           ELSE IF k > skip /\ m[k].wide THEN q[k - 1] ELSE Append(q[k - 1], m[k])]
                 /\ Cleaned(m, skip) = q[Len(m)]
    BY <1>8, Zenon DEF Cleaned
  <1>10. /\ q[0] = <<>>
         /\ \A k \in 1..N :
               q[k] = IF k > skip /\ m[k].wide THEN q[k - 1] ELSE Append(q[k - 1], m[k])
    <2>1. 0 \in 0..N /\ \A k \in 1..N : k \in 0..N /\ k # 0
      OBVIOUS
    <2>2. \A k \in 0..N :
             q[k] = IF k = 0 THEN <<>>
                    ELSE IF k > skip /\ m[k].wide THEN q[k - 1] ELSE Append(q[k - 1], m[k])
      BY <1>1, <1>9, Zenon
    <2>3. QED
      BY <2>1, <2>2
  <1>11. \A k \in 0..N : PartOf(q[k], m, k)
    <2> DEFINE Q == {k \in 0..N : PartOf(q[k], m, k)}
    <2>1. 0 \in Q
      <3>1. PICK f \in [1..0 -> 1..0] : TRUE
        <4>1. [i \in 1..0 |-> i] \in [1..0 -> 1..0]
          OBVIOUS
        <4>2. QED
          BY <4>1
      <3>2. q[0] = [i \in 1..0 |-> m[f[i]]]
        BY <1>10
      <3>3. 0 \in 0..0 /\ \A i, j \in 1..0 : i < j => f[i] < f[j]
        OBVIOUS
      <3>4. PartOf(q[0], m, 0)
        BY <3>2, <3>3 DEF PartOf
      <3>5. QED
        BY <3>4
    <2>2. ASSUME NEW k \in 1..N, k - 1 \in Q PROVE k \in Q
      <3>1. PICK a : a = q[k - 1] /\ PartOf(a, m, k - 1)
        BY <2>2
      <3>2. PartOf(a, m, k) /\ PartOf(Append(a, m[k]), m, k)
        BY <1>1, <3>1, PartGrows
      <3>3. q[k] = a \/ q[k] = Append(a, m[k])
        BY <1>10, <3>1
      <3>4. PartOf(q[k], m, k)
        BY <3>2, <3>3, Zenon
      <3>5. k \in 0..N
        OBVIOUS
      <3>6. QED
        BY <3>4, <3>5
    <2> HIDE DEF Q
    <2>3. \A k \in 0..N : k \in Q
      BY <2>1, <2>2, InductionUpTo
    <2>4. QED
      BY <2>3 DEF Q
  <1>12. QED
    BY <1>1, <1>9, <1>11

-----------------------------------------------------------------------------
(* The inductive invariant.                                                *)

\* The counts of a stop say how severe its worst message was.
CountsTellWorst ==
    \A l \in 1..disable_errors_ref :
        /\ stopped_errors_count[l] <= stopped_messages_count[l]
        /\ stopped_warnings_count[l] <= stopped_messages_count[l]
        /\ stopped_errors_count[l] > 0 <=> worst[l] = 3
        /\ stopped_warnings_count[l] > 0 => worst[l] >= 2
        /\ worst[l] = 2 => stopped_warnings_count[l] > 0
        /\ stopped_messages_count[l] > 0 <=> worst[l] > 0

Inv ==
    /\ TypeOK
    /\ worst \in [1..disable_errors_ref -> 0..3]
    /\ CountsTellWorst
    /\ TextsDiffer(Everything)

Vectors(S, n) == [1..n -> S]

LEMMA Vector ==
  ASSUME NEW S, NEW n \in Nat, NEW f, f \in Vectors(S, n)
  PROVE  f \in Seq(S) /\ Len(f) = n
  BY DEF Vectors

LEMMA NotEmpty ==
  ASSUME NEW S, NEW n \in Nat, n > 0, NEW f, f \in Vectors(S, n)
  PROVE  f # <<>>
  <1>1. f \in Seq(S) /\ Len(f) = n
    BY Vector
  <1>2. QED
    BY <1>1

\* The vector g is f with x at its end, or f without its end.
Longer(g, f, S, n, x) ==
    g \in Vectors(S, n + 1) /\ g[n + 1] = x /\ \A l \in 1..n : g[l] = f[l]
Shorter(g, f, S, n) ==
    g \in Vectors(S, n - 1) /\ \A l \in 1..(n - 1) : g[l] = f[l]

LEMMA Appended ==
  ASSUME NEW S, NEW n \in Nat, NEW f, f \in Vectors(S, n), NEW x \in S, NEW g, g = Append(f, x)
  PROVE  Longer(g, f, S, n, x)
  <1>1. f \in Seq(S) /\ Len(f) = n
    BY Vector
  <1>2. g \in Seq(S) /\ Len(g) = n + 1
    BY <1>1
  <1>3. g \in [1..(n + 1) -> S]
    BY <1>2, LenProperties, Zenon
  <1>4. QED
    BY <1>1, <1>3 DEF Longer, Vectors

LEMMA Fronted ==
  ASSUME NEW S, NEW n \in Nat, n > 0, NEW f, f \in Vectors(S, n), NEW g, g = Front(f)
  PROVE  Shorter(g, f, S, n)
  <1>1. f \in Seq(S) /\ Len(f) = n
    BY Vector
  <1>2. /\ g \in Seq(S) /\ Len(g) = n - 1
        /\ \A l \in 1..(n - 1) : g[l] = f[l]
    BY <1>1 DEF Front
  <1>3. g \in [1..(n - 1) -> S]
    BY <1>2, LenProperties, Zenon
  <1>4. QED
    BY <1>1, <1>2, <1>3 DEF Shorter, Vectors

LEMMA Shape ==
  ASSUME TypeOK
  PROVE  /\ disable_errors_ref \in Nat
         /\ messages \in Seq(Reports) /\ blocked \in Seq(Reports)
         /\ stopped_messages \in Stops
         /\ Len(stopped_messages) = disable_errors_ref
         /\ \A l \in 1..disable_errors_ref : stopped_messages[l] \in Seq(Reports)
  <1>1. PICK n \in Nat : n = disable_errors_ref
    BY MessagesAssumption DEF TypeOK
  <1>2. PICK S : S = Seq(Reports)
    OBVIOUS
  <1>3. PICK f \in [1..n -> S] : f = stopped_messages
    BY <1>1, <1>2 DEF TypeOK
  <1>4. f \in Seq(S) /\ Len(f) = n
    OBVIOUS
  <1>5. QED
    BY <1>1, <1>2, <1>3, <1>4 DEF TypeOK, Stops

\* And back.
LEMMA ShapeOfStops ==
  ASSUME NEW t \in Stops
  PROVE  t \in [1..Len(t) -> Seq(Reports)]
  BY DEF Stops

\* What the next state's queues are, seen as one log.
LEMMA Seen ==
  ASSUME NEW a, NEW t, messages' = a, stopped_messages' = t
  PROVE  /\ Everything' = Gathered(a, t)[Len(t)]
         /\ Beginnings' = [l \in DOMAIN t |-> Len(Gathered(a, t)[l - 1])]
  BY DEF Everything, Beginnings, Gathered

LEMMA SeenNow ==
  ASSUME NEW a, NEW t, messages = a, stopped_messages = t
  PROVE  /\ Everything = Gathered(a, t)[Len(t)]
         /\ Beginnings = [l \in DOMAIN t |-> Len(Gathered(a, t)[l - 1])]
  BY DEF Everything, Beginnings

\* Additions to the last of the open stops leave the beginnings alone.
LEMMA SameBeginnings ==
  ASSUME NEW a \in Seq(Reports), NEW t \in Stops, NEW m \in Seq(Reports), NEW s \in Stops,
         Len(t) = Len(s), \A l \in 0..(Len(s) - 1) : Gathered(a, t)[l] = Gathered(m, s)[l]
  PROVE  [l \in DOMAIN t |-> Len(Gathered(a, t)[l - 1])]
           = [l \in DOMAIN s |-> Len(Gathered(m, s)[l - 1])]
  <1>1. Len(s) \in Nat /\ DOMAIN t = 1..Len(s) /\ DOMAIN s = 1..Len(s)
    BY DEF Stops
  <1>2. \A l \in 1..Len(s) : l - 1 \in 0..(Len(s) - 1)
    BY <1>1
  <1>3. \A l \in 1..Len(s) : Len(Gathered(a, t)[l - 1]) = Len(Gathered(m, s)[l - 1])
    BY <1>2
  <1>4. QED
    BY <1>1, <1>3

\* A report goes to the log's end, or nowhere.
LEMMA PutIsReport ==
  ASSUME TypeOK, TextsDiffer(Everything), NEW x \in Reports,
         messages' = Put(x, disable_errors_ref, messages, stopped_messages)[1],
         stopped_messages' = Put(x, disable_errors_ref, messages, stopped_messages)[2]
  PROVE  /\ messages' \in Seq(Reports)
         /\ stopped_messages' \in [1..disable_errors_ref -> Seq(Reports)]
         /\ Everything' = IF HasText(Everything, x) THEN Everything ELSE Append(Everything, x)
         /\ Beginnings' = Beginnings /\ TextsDiffer(Everything')
  <1>1. PICK m \in Seq(Reports) : m = messages
    BY Shape
  <1>2. PICK s \in Stops : s = stopped_messages /\ Len(s) = disable_errors_ref
    BY Shape
  <1>3. PICK n \in 0..Len(s) : n = disable_errors_ref
    BY <1>2, Shape
  <1>4. PICK p : p = Put(x, n, m, s)
    OBVIOUS
  <1>5. /\ p \in Queues(s)
        /\ \A l \in 0..(n - 1) : Gathered(p[1], p[2])[l] = Gathered(m, s)[l]
        /\ Gathered(p[1], p[2])[n] = IF HasText(Gathered(m, s)[n], x) THEN Gathered(m, s)[n]
                                     ELSE Append(Gathered(m, s)[n], x)
    BY <1>4, PutParts
  <1>6. PICK a \in Seq(Reports), t \in Stops : a = p[1] /\ t = p[2] /\ Len(t) = n
    BY <1>2, <1>3, <1>5 DEF Queues
  <1>7. messages' = a /\ stopped_messages' = t
    BY <1>1, <1>2, <1>3, <1>4, <1>6
  <1>8. /\ Everything = Gathered(m, s)[n] /\ Everything' = Gathered(a, t)[n]
        /\ Beginnings = [l \in DOMAIN s |-> Len(Gathered(m, s)[l - 1])]
        /\ Beginnings' = [l \in DOMAIN t |-> Len(Gathered(a, t)[l - 1])]
    BY <1>1, <1>2, <1>3, <1>6, <1>7, Seen, SeenNow
  <1>9. Everything' = IF HasText(Everything, x) THEN Everything ELSE Append(Everything, x)
    BY <1>5, <1>6, <1>8
  <1>10. Beginnings' = Beginnings
    <2>1. n = Len(s) /\ \A l \in 0..(Len(s) - 1) : Gathered(a, t)[l] = Gathered(m, s)[l]
      BY <1>2, <1>3, <1>5, <1>6
    <2>2. Len(t) = Len(s)
      BY <1>6, <2>1
    <2>3. [l \in DOMAIN t |-> Len(Gathered(a, t)[l - 1])]
            = [l \in DOMAIN s |-> Len(Gathered(m, s)[l - 1])]
      BY ONLY <2>1, <2>2, SameBeginnings, a \in Seq(Reports), t \in Stops, m \in Seq(Reports), s \in Stops
    <2>4. QED
      BY <1>8, <2>3
  <1>11. stopped_messages' \in [1..disable_errors_ref -> Seq(Reports)]
    BY <1>3, <1>6, <1>7, ShapeOfStops
  <1>12. PICK log \in Seq(Reports) : log = Everything
    BY <1>3, <1>8, GatheredParts
  <1>13. TextsDiffer(Everything')
    <2>1. TextsDiffer(log)
      BY <1>12
    <2>2. CASE HasText(log, x)
      BY <1>9, <1>12, <2>1, <2>2
    <2>3. CASE ~HasText(log, x)
      <3>1. TextsDiffer(Append(log, x))
        BY <2>1, <2>3, AppendOne
      <3>2. QED
        BY <1>9, <1>12, <2>3, <3>1
    <2>4. QED
      BY <2>2, <2>3
  <1>14. QED
    BY <1>7, <1>9, <1>10, <1>11, <1>13

LEMMA MessageStep ==
  ASSUME Inv, NEW m \in Reports, Message(m)
  PROVE  Inv' /\ Log!Report(m)
  <1>1. PICK n \in 0..MaxStops : n = disable_errors_ref
    BY DEF Inv, TypeOK
  <1>2. /\ n \in Nat /\ MaxCount \in Nat /\ m.type \in Types
        /\ n > 0 => n \in 1..n
    BY <1>1, MessagesAssumption
  <1>3. /\ messages' \in Seq(Reports)
        /\ stopped_messages' \in [1..disable_errors_ref -> Seq(Reports)]
        /\ Everything' = IF HasText(Everything, m) THEN Everything ELSE Append(Everything, m)
        /\ Beginnings' = Beginnings /\ TextsDiffer(Everything')
    BY PutIsReport DEF Inv, Message
  <1>4. TypeOK'
    <2>1. /\ stopped_errors_count' \in [1..n -> 0..MaxCount]
          /\ stopped_warnings_count' \in [1..n -> 0..MaxCount]
          /\ stopped_messages_count' \in [1..n -> 0..MaxCount]
      <3>1. n > 0 => /\ stopped_messages_count[n] < MaxCount
                     /\ stopped_errors_count[n] <= stopped_messages_count[n]
                     /\ stopped_warnings_count[n] <= stopped_messages_count[n]
                     /\ stopped_messages_count[n] \in 0..MaxCount
                     /\ stopped_errors_count[n] \in 0..MaxCount
                     /\ stopped_warnings_count[n] \in 0..MaxCount
        BY <1>1, <1>2 DEF Inv, TypeOK, CountsTellWorst, Message
      <3>2. n > 0 => /\ stopped_messages_count[n] + 1 \in 0..MaxCount
                     /\ stopped_errors_count[n] + 1 \in 0..MaxCount
                     /\ stopped_warnings_count[n] + 1 \in 0..MaxCount
        BY <1>2, <3>1
      <3>3. QED
        BY <1>1, <1>2, <3>2 DEF Inv, TypeOK, Message, Increment
    <2>2. blocked' \in Seq(Reports) /\ disable_errors_ref' = n
      BY <1>1 DEF Inv, TypeOK, Message
    <2>3. QED
      BY <1>1, <1>3, <2>1, <2>2 DEF TypeOK
  <1>5. /\ worst' \in [1..disable_errors_ref' -> 0..3]
        /\ CountsTellWorst'
    <2>1. Severity[m.type] \in 1..3 /\ (Severity[m.type] = 3 <=> m.type = "error")
          /\ (Severity[m.type] = 2 <=> m.type = "warning")
      BY <1>2 DEF Types, Severity
    <2>2. disable_errors_ref' = n /\ worst \in [1..n -> 0..3]
      BY <1>1 DEF Inv, Message
    <2>3. worst' \in [1..n -> 0..3]
      BY <1>1, <1>2, <2>1, <2>2 DEF Message
    <2>4. ASSUME NEW l \in 1..n, l # n
          PROVE  /\ stopped_errors_count'[l] = stopped_errors_count[l]
                 /\ stopped_warnings_count'[l] = stopped_warnings_count[l]
                 /\ stopped_messages_count'[l] = stopped_messages_count[l]
                 /\ worst'[l] = worst[l]
      BY <1>1, <1>2, <2>2, <2>4 DEF Inv, TypeOK, Message, Increment
    <2>5. n > 0 => /\ stopped_errors_count'[n] = IF m.type = "error" THEN stopped_errors_count[n] + 1
                                                 ELSE stopped_errors_count[n]
                   /\ stopped_warnings_count'[n] = IF m.type = "warning" THEN stopped_warnings_count[n] + 1
                                                   ELSE stopped_warnings_count[n]
                   /\ stopped_messages_count'[n] = stopped_messages_count[n] + 1
                   /\ worst'[n] = IF Severity[m.type] > worst[n] THEN Severity[m.type] ELSE worst[n]
      BY <1>1, <1>2, <2>2 DEF Inv, TypeOK, Message, Increment
    <2>6. ASSUME NEW l \in 1..n
          PROVE  /\ stopped_errors_count[l] \in Nat /\ stopped_warnings_count[l] \in Nat
                 /\ stopped_messages_count[l] \in Nat /\ worst[l] \in 0..3
                 /\ stopped_errors_count[l] <= stopped_messages_count[l]
                 /\ stopped_warnings_count[l] <= stopped_messages_count[l]
                 /\ stopped_errors_count[l] > 0 <=> worst[l] = 3
                 /\ stopped_warnings_count[l] > 0 => worst[l] >= 2
                 /\ worst[l] = 2 => stopped_warnings_count[l] > 0
                 /\ stopped_messages_count[l] > 0 <=> worst[l] > 0
      BY <1>1, <2>2 DEF Inv, TypeOK, CountsTellWorst
    <2>7. ASSUME NEW l \in 1..n
          PROVE  /\ stopped_errors_count'[l] <= stopped_messages_count'[l]
                 /\ stopped_warnings_count'[l] <= stopped_messages_count'[l]
                 /\ stopped_errors_count'[l] > 0 <=> worst'[l] = 3
                 /\ stopped_warnings_count'[l] > 0 => worst'[l] >= 2
                 /\ worst'[l] = 2 => stopped_warnings_count'[l] > 0
                 /\ stopped_messages_count'[l] > 0 <=> worst'[l] > 0
      <3>1. CASE l # n
        BY <2>4, <2>6, <3>1
      <3>2. CASE l = n
        <4>1. PICK e \in Nat, w \in Nat, c \in Nat, v \in 0..3 :
                 /\ e = stopped_errors_count[n] /\ w = stopped_warnings_count[n]
                 /\ c = stopped_messages_count[n] /\ v = worst[n]
                 /\ e <= c /\ w <= c /\ (e > 0 <=> v = 3) /\ (w > 0 => v >= 2)
                 /\ (v = 2 => w > 0) /\ (c > 0 <=> v > 0)
          BY <2>6, <3>2
        <4>2. n > 0
          BY <1>2, <3>2
        <4>3. QED
          BY <2>1, <2>5, <3>2, <4>1, <4>2
      <3>3. QED
        BY <3>1, <3>2
    <2>8. QED
      BY <2>2, <2>3, <2>7 DEF CountsTellWorst
  <1>6. Log!Report(m)
    BY <1>3 DEF Log!Report, Log!Known, HasText, Message
  <1>7. QED
    BY <1>3, <1>4, <1>5, <1>6 DEF Inv

-----------------------------------------------------------------------------
(* Adding several messages.                                                *)

\* The queues q continue m and s, seen up to n stops.
Continues(q, m, s, n) ==
    /\ q \in Queues(s)
    /\ \A l \in 0..(n - 1) : Gathered(q[1], q[2])[l] = Gathered(m, s)[l]
    /\ TextsDiffer(Gathered(q[1], q[2])[n])
    /\ Len(Gathered(m, s)[n]) <= Len(Gathered(q[1], q[2])[n])
    /\ \A i \in 1..Len(Gathered(m, s)[n]) : Gathered(q[1], q[2])[n][i] = Gathered(m, s)[n][i]

\* The messages added, one after the other, to n open stops: the stops before
\* the last of them stay as they are, the log is continued, no text comes
\* twice.
LEMMA PutAllContinues ==
  ASSUME NEW v \in Seq(Reports), NEW m \in Seq(Reports), NEW s \in Stops, NEW n \in 0..Len(s),
         TextsDiffer(Gathered(m, s)[n]), NEW q, q = PutAll(v, n, m, s)
  PROVE  Continues(q, m, s, n)
  <1>0. Len(s) \in Nat /\ n \in Nat /\ Len(v) \in Nat /\ \A k \in 1..Len(v) : v[k] \in Reports
    BY DEF Stops
  <1>1. PICK r \in [0..Len(v) -> Queues(s)] :
           /\ r[0] = <<m, s>> /\ PutAll(v, n, m, s) = r[Len(v)]
           /\ \A k \in 1..Len(v) : r[k] = Put(v[k], n, r[k - 1][1], r[k - 1][2])
    BY PutAllParts
  <1>2. PICK G \in Seq(Reports) : G = Gathered(m, s)[n]
    BY GatheredParts
  <1> DEFINE Goes(p) ==
               /\ \A l \in 0..(n - 1) : Gathered(p[1], p[2])[l] = Gathered(m, s)[l]
               /\ TextsDiffer(Gathered(p[1], p[2])[n])
               /\ Len(G) <= Len(Gathered(p[1], p[2])[n])
               /\ \A i \in 1..Len(G) : Gathered(p[1], p[2])[n][i] = G[i]
             Q == {k \in 0..Len(v) : Goes(r[k])}
  <1>3. 0 \in Q
    <2>1. r[0][1] = m /\ r[0][2] = s
      BY <1>1
    <2>2. Goes(r[0])
      BY <1>2, <2>1
    <2> HIDE DEF Goes
    <2>3. QED
      BY <1>0, <2>2
  <1>4. ASSUME NEW k \in 1..Len(v), k - 1 \in Q PROVE k \in Q
    <2>1. PICK a \in Seq(Reports), t \in Stops : <<a, t>> = r[k - 1] /\ Len(t) = Len(s)
      <3>1. k - 1 \in 0..Len(v)
        BY <1>0
      <3>2. r[k - 1] \in Queues(s)
        BY <1>1, <3>1
      <3>3. QED
        BY <3>2 DEF Queues
    <2>2. a = r[k - 1][1] /\ t = r[k - 1][2]
      BY <2>1
    <2>3. PICK p : p = Put(v[k], n, a, t)
      OBVIOUS
    <2>4. r[k] = p
      BY <1>1, <2>2, <2>3
    <2>5. PICK x \in Reports : x = v[k]
      BY <1>0
    <2>6. /\ \A l \in 0..(n - 1) : Gathered(p[1], p[2])[l] = Gathered(a, t)[l]
          /\ Gathered(p[1], p[2])[n] = IF HasText(Gathered(a, t)[n], x) THEN Gathered(a, t)[n]
                                       ELSE Append(Gathered(a, t)[n], x)
      BY <2>1, <2>3, <2>5, PutParts
    <2>7. PICK log \in Seq(Reports) : log = Gathered(a, t)[n]
      BY <2>1, GatheredParts
    <2>8. /\ \A l \in 0..(n - 1) : Gathered(a, t)[l] = Gathered(m, s)[l]
          /\ TextsDiffer(log) /\ Len(G) <= Len(log) /\ \A i \in 1..Len(G) : log[i] = G[i]
      BY <1>4, <2>2, <2>7
    <2>9. PICK new : new = Gathered(p[1], p[2])[n]
      OBVIOUS
    <2>10. TextsDiffer(new) /\ Len(G) <= Len(new) /\ \A i \in 1..Len(G) : new[i] = G[i]
      <3>1. CASE HasText(log, x)
        BY <2>6, <2>7, <2>8, <2>9, <3>1
      <3>2. CASE ~HasText(log, x)
        <4>1. new = Append(log, x)
          BY <2>6, <2>7, <2>9, <3>2
        <4>2. TextsDiffer(Append(log, x))
          BY <2>8, <3>2, AppendOne
        <4>3. Len(log) \in Nat /\ Len(G) \in Nat /\ Len(new) = Len(log) + 1
              /\ \A i \in 1..Len(log) : new[i] = log[i]
          BY <4>1
        <4>4. QED
          BY <2>8, <4>1, <4>2, <4>3
      <3>3. QED
        BY <3>1, <3>2
    <2>11. Goes(p)
      BY <2>6, <2>8, <2>9, <2>10
    <2> HIDE DEF Goes
    <2>12. k \in 0..Len(v)
      BY <1>0
    <2>13. QED
      BY <2>4, <2>11, <2>12
  <1>5. \A k \in 0..Len(v) : k \in Q
    <2> HIDE DEF Q
    <2>1. QED
      BY <1>0, <1>3, <1>4, InductionUpTo
  <1>6. Goes(q) /\ q \in Queues(s)
    <2>1. Len(v) \in Q /\ q = r[Len(v)] /\ Len(v) \in 0..Len(v)
      BY <1>0, <1>1, <1>5
    <2> HIDE DEF Goes
    <2>2. QED
      BY <1>1, <2>1
  <1>7. QED
    BY <1>2, <1>6 DEF Continues

\* The queues q are m and s with v behind what is gathered of n stops.
Appends(q, v, m, s, n) ==
    /\ q \in Queues(s)
    /\ \A l \in 0..(n - 1) : Gathered(q[1], q[2])[l] = Gathered(m, s)[l]
    /\ Gathered(q[1], q[2])[n] = Gathered(m, s)[n] \o v

\* If the texts are new, all of them come to the log's end.
LEMMA PutAllAppends ==
  ASSUME NEW v \in Seq(Reports), NEW m \in Seq(Reports), NEW s \in Stops, NEW n \in 0..Len(s),
         TextsDiffer(Gathered(m, s)[n] \o v), NEW q, q = PutAll(v, n, m, s)
  PROVE  Appends(q, v, m, s, n)
  <1>0. Len(s) \in Nat /\ n \in Nat /\ Len(v) \in Nat /\ \A k \in 1..Len(v) : v[k] \in Reports
    BY DEF Stops
  <1>1. PICK r \in [0..Len(v) -> Queues(s)] :
           /\ r[0] = <<m, s>> /\ PutAll(v, n, m, s) = r[Len(v)]
           /\ \A k \in 1..Len(v) : r[k] = Put(v[k], n, r[k - 1][1], r[k - 1][2])
    BY PutAllParts
  <1>2. PICK G \in Seq(Reports) : G = Gathered(m, s)[n]
    BY GatheredParts
  <1>3. PICK w \in Seq(Reports) : w = G \o v
    <2>1. G \o v \in Seq(Reports)
      BY ConcatProperties
    <2>2. QED
      BY <2>1
  <1>4. /\ Len(G) \in Nat /\ Len(w) = Len(G) + Len(v) /\ TextsDiffer(w)
        /\ \A k \in 1..Len(v) : w[Len(G) + k] = v[k]
        /\ SubSeq(w, 1, Len(G)) = G /\ SubSeq(w, 1, Len(w)) = w
    BY <1>2, <1>3
  <1> DEFINE Holds(p, k) ==
               /\ \A l \in 0..(n - 1) : Gathered(p[1], p[2])[l] = Gathered(m, s)[l]
               /\ Gathered(p[1], p[2])[n] = SubSeq(w, 1, Len(G) + k)
             Q == {k \in 0..Len(v) : Holds(r[k], k)}
  <1>5. 0 \in Q
    <2>1. r[0][1] = m /\ r[0][2] = s /\ Len(G) + 0 = Len(G)
      BY <1>1, <1>4
    <2>2. Holds(r[0], 0)
      BY <1>2, <1>4, <2>1
    <2> HIDE DEF Holds
    <2>3. QED
      BY <1>0, <2>2
  <1>6. ASSUME NEW k \in 1..Len(v), k - 1 \in Q PROVE k \in Q
    <2>1. PICK a \in Seq(Reports), t \in Stops : <<a, t>> = r[k - 1] /\ Len(t) = Len(s)
      <3>1. k - 1 \in 0..Len(v)
        BY <1>0
      <3>2. r[k - 1] \in Queues(s)
        BY <1>1, <3>1
      <3>3. QED
        BY <3>2 DEF Queues
    <2>2. a = r[k - 1][1] /\ t = r[k - 1][2]
      BY <2>1
    <2>3. PICK p : p = Put(v[k], n, a, t)
      OBVIOUS
    <2>4. r[k] = p
      BY <1>1, <2>2, <2>3
    <2>5. PICK x \in Reports : x = v[k]
      BY <1>0
    <2>6. /\ \A l \in 0..(n - 1) : Gathered(p[1], p[2])[l] = Gathered(a, t)[l]
          /\ Gathered(p[1], p[2])[n] = IF HasText(Gathered(a, t)[n], x) THEN Gathered(a, t)[n]
                                       ELSE Append(Gathered(a, t)[n], x)
      BY <2>1, <2>3, <2>5, PutParts
    <2>7. PICK j \in Nat : j = Len(G) + (k - 1) /\ j + 1 = Len(G) + k /\ j < Len(w)
      <3>1. Len(G) + (k - 1) \in Nat /\ (Len(G) + (k - 1)) + 1 = Len(G) + k /\ Len(G) + (k - 1) < Len(w)
        BY <1>0, <1>4
      <3>2. QED
        BY <3>1
    <2>8. /\ \A l \in 0..(n - 1) : Gathered(a, t)[l] = Gathered(m, s)[l]
          /\ Gathered(a, t)[n] = SubSeq(w, 1, j)
      BY <1>6, <2>2, <2>7
    <2>9. w[j + 1] = x /\ j + 1 \in 1..Len(w)
      BY <1>4, <2>5, <2>7, SMTT(60)
    <2>10. ~HasText(SubSeq(w, 1, j), x)
      <3>1. /\ DOMAIN SubSeq(w, 1, j) = 1..j
            /\ \A i \in 1..j : SubSeq(w, 1, j)[i] = w[i] /\ i \in DOMAIN w /\ i # j + 1
        BY <2>7
      <3>2. j + 1 \in DOMAIN w
        BY <2>9
      <3>3. QED
        BY <1>4, <2>9, <3>1, <3>2 DEF HasText, TextsDiffer
    <2>11. Append(SubSeq(w, 1, j), x) = SubSeq(w, 1, j + 1)
      BY <2>7, <2>9
    <2>12. Gathered(p[1], p[2])[n] = SubSeq(w, 1, Len(G) + k)
      BY <2>6, <2>7, <2>8, <2>10, <2>11
    <2>13. Holds(p, k)
      BY <2>6, <2>8, <2>12
    <2> HIDE DEF Holds
    <2>14. k \in 0..Len(v)
      BY <1>0
    <2>15. QED
      BY <2>4, <2>13, <2>14
  <1>7. \A k \in 0..Len(v) : k \in Q
    <2> HIDE DEF Q
    <2>1. QED
      BY <1>0, <1>5, <1>6, InductionUpTo
  <1>8. Holds(q, Len(v)) /\ q \in Queues(s)
    <2> HIDE DEF Holds
    <2>1. q = r[Len(v)] /\ Len(v) \in 0..Len(v)
      BY <1>0, <1>1
    <2>2. Holds(r[Len(v)], Len(v))
      BY <1>7, <2>1
    <2>3. QED
      BY <1>1, <2>1, <2>2
  <1>9. QED
    BY <1>2, <1>3, <1>4, <1>8 DEF Appends

-----------------------------------------------------------------------------
(* The steps on the stops.                                                 *)

LEMMA BeginningsVector ==
  ASSUME TypeOK
  PROVE  /\ Beginnings \in [1..disable_errors_ref -> Nat]
         /\ \A l \in 1..disable_errors_ref :
               Beginnings[l] = Len(Gathered(messages, stopped_messages)[l - 1])
         /\ Everything = Gathered(messages, stopped_messages)[disable_errors_ref]
         /\ Everything \in Seq(Reports)
  <1>1. PICK m \in Seq(Reports) : m = messages
    BY Shape
  <1>2. PICK s \in Stops : s = stopped_messages /\ Len(s) = disable_errors_ref
    BY Shape
  <1>3. /\ Len(s) \in Nat /\ DOMAIN s = 1..Len(s)
        /\ \A l \in 0..Len(s) : Gathered(m, s)[l] \in Seq(Reports)
    <2>1. Len(s) \in Nat /\ DOMAIN s = 1..Len(s)
      BY DEF Stops
    <2>2. Gathered(m, s) \in [0..Len(s) -> Seq(Reports)]
      BY GatheredParts
    <2>3. QED
      BY <2>1, <2>2
  <1>4. /\ Everything = Gathered(m, s)[Len(s)]
        /\ Beginnings = [l \in 1..Len(s) |-> Len(Gathered(m, s)[l - 1])]
    <2>1. /\ Everything = Gathered(m, s)[Len(s)]
          /\ Beginnings = [l \in DOMAIN s |-> Len(Gathered(m, s)[l - 1])]
      BY <1>1, <1>2, SeenNow
    <2>2. QED
      BY <1>3, <2>1
  <1>5. \A l \in 1..Len(s) : Len(Gathered(m, s)[l - 1]) \in Nat
    <2> SUFFICES ASSUME NEW l \in 1..Len(s) PROVE Len(Gathered(m, s)[l - 1]) \in Nat
      OBVIOUS
    <2>1. l - 1 \in 0..Len(s)
      BY <1>3
    <2>2. Gathered(m, s)[l - 1] \in Seq(Reports)
      BY <1>3, <2>1
    <2>3. QED
      BY <2>2
  <1>6. Everything \in Seq(Reports)
    BY <1>3, <1>4
  <1>7. Beginnings \in [1..Len(s) -> Nat]
    BY <1>4, <1>5
  <1>8. QED
    BY <1>1, <1>2, <1>4, <1>6, <1>7

LEMMA BeginStep ==
  ASSUME Inv, beginTemporaryStopMessages
  PROVE  Inv' /\ Log!Begin
  <1>0. TypeOK
    BY DEF Inv
  <1>1. PICK n \in Nat : n = disable_errors_ref /\ n + 1 \in 0..MaxStops /\ disable_errors_ref' = n + 1
    BY <1>0, MessagesAssumption DEF TypeOK, beginTemporaryStopMessages
  <1>2. PICK m \in Seq(Reports) : m = messages
    BY <1>0, Shape
  <1>3. PICK s \in Stops : s = stopped_messages /\ Len(s) = n
    BY <1>0, <1>1, Shape
  <1>4. PICK e \in Seq(Reports) : e = <<>>
    <2>1. <<>> \in Seq(Reports)
      OBVIOUS
    <2>2. QED
      BY <2>1
  <1>5. PICK t \in Stops : /\ t = Append(s, e) /\ Len(t) = n + 1 /\ t[n + 1] = e
                           /\ \A l \in 1..n : s[l] = t[l]
    <2>1. PICK S : S = Seq(Reports)
      OBVIOUS
    <2>2. s \in Seq(S) /\ e \in S
      BY <2>1 DEF Stops
    <2>3. /\ Append(s, e) \in Seq(S) /\ Len(Append(s, e)) = n + 1 /\ Append(s, e)[n + 1] = e
          /\ \A l \in 1..n : s[l] = Append(s, e)[l]
      BY <1>3, <2>2
    <2>4. QED
      BY <2>1, <2>3 DEF Stops
  <1>6. messages' = m /\ stopped_messages' = t /\ asked' = asked /\ blocked' = blocked
    BY <1>2, <1>3, <1>4, <1>5 DEF beginTemporaryStopMessages
  <1>7. \A l \in 0..n : Gathered(m, s)[l] = Gathered(m, t)[l]
    <2>1. PICK k \in 0..Len(s) : k = n /\ k <= Len(t) /\ \A l \in 1..k : s[l] = t[l]
      <3>1. n \in 0..Len(s) /\ n <= Len(t)
        BY <1>3, <1>5
      <3>2. QED
        BY <1>5, <3>1
    <2>2. \A l \in 0..k : Gathered(m, s)[l] = Gathered(m, t)[l]
      BY <2>1, GatheredAgree
    <2>3. QED
      BY <2>1, <2>2
  <1>8. PICK log \in Seq(Reports) : log = Gathered(m, s)[n]
    <2>1. Gathered(m, s) \in [0..Len(s) -> Seq(Reports)]
      BY GatheredParts
    <2>2. n \in 0..Len(s)
      BY <1>3
    <2>3. QED
      BY <2>1, <2>2
  <1>9. Gathered(m, t)[n + 1] = log
    <2>1. n + 1 \in 1..Len(t) /\ (n + 1) - 1 = n /\ n \in 0..n
      BY <1>5
    <2>2. Gathered(m, t)[n + 1] = Gathered(m, t)[n] \o t[n + 1]
      <3>1. PICK k \in 1..Len(t) : k = n + 1
        BY <2>1
      <3>2. Gathered(m, t)[k] = Gathered(m, t)[k - 1] \o t[k]
        BY GatheredParts
      <3>3. QED
        BY <2>1, <3>1, <3>2
    <2>3. log \o e = log
      BY <1>4, ConcatEmptySeq
    <2>4. QED
      BY <1>5, <1>7, <1>8, <2>1, <2>2, <2>3
  <1>10. Everything' = log /\ Everything = log
    <2>1. Everything' = Gathered(m, t)[Len(t)]
      BY <1>6, Seen
    <2>2. Everything = Gathered(m, s)[Len(s)]
      BY <1>2, <1>3, SeenNow
    <2>3. QED
      BY <1>3, <1>5, <1>8, <1>9, <2>1, <2>2
  <1>11. Beginnings' = Append(Beginnings, Len(log))
    <2>1. PICK b \in [1..n -> Nat] : b = Beginnings /\ \A l \in 1..n : b[l] = Len(Gathered(m, s)[l - 1])
      BY <1>0, <1>1, <1>2, <1>3, BeginningsVector
    <2>2. PICK k \in Nat : k = Len(log)
      OBVIOUS
    <2>3. /\ Append(b, k) \in [1..(n + 1) -> Nat] /\ Append(b, k)[n + 1] = k
          /\ \A l \in 1..n : Append(b, k)[l] = b[l]
      <3>1. b \in Vectors(Nat, n)
        BY DEF Vectors
      <3>2. PICK g : g = Append(b, k)
        OBVIOUS
      <3>3. Longer(g, b, Nat, n, k)
        BY <3>1, <3>2, Appended
      <3>4. QED
        BY <3>2, <3>3 DEF Longer, Vectors
    <2>4. Beginnings' = [l \in 1..(n + 1) |-> Len(Gathered(m, t)[l - 1])]
      <3>1. DOMAIN t = 1..(n + 1)
        BY <1>5 DEF Stops
      <3>2. QED
        <4>1. Beginnings' = [l \in DOMAIN t |-> Len(Gathered(m, t)[l - 1])]
          BY ONLY <1>6, Seen
        <4>2. QED
          BY <3>1, <4>1
    <2>5. \A l \in 1..(n + 1) : Len(Gathered(m, t)[l - 1]) = Append(b, k)[l]
      <3> SUFFICES ASSUME NEW l \in 1..(n + 1) PROVE Len(Gathered(m, t)[l - 1]) = Append(b, k)[l]
        OBVIOUS
      <3>1. CASE l = n + 1
        <4>1. l - 1 = n /\ n \in 0..n
          BY <3>1
        <4>2. QED
          BY <1>7, <1>8, <2>2, <2>3, <3>1, <4>1
      <3>2. CASE l # n + 1
        <4>1. l \in 1..n /\ l - 1 \in 0..n
          BY <3>2
        <4>2. QED
          BY <1>7, <2>1, <2>3, <4>1
      <3>3. QED
        BY <3>1, <3>2
    <2>6. Beginnings' = Append(b, k)
      BY <2>3, <2>4, <2>5
    <2>7. QED
      BY <2>1, <2>2, <2>6
  <1>12. TypeOK' /\ worst' \in [1..(n + 1) -> 0..3] /\ CountsTellWorst'
    <2>1. MaxCount \in Nat /\ 0 \in 0..MaxCount /\ 0 \in 0..3
      BY MessagesAssumption
    <2>2. /\ stopped_errors_count' \in [1..(n + 1) -> 0..MaxCount]
          /\ stopped_errors_count'[n + 1] = 0
          /\ \A l \in 1..n : stopped_errors_count'[l] = stopped_errors_count[l]
      <3>1. PICK f \in Vectors(0..MaxCount, n) : f = stopped_errors_count
        BY <1>0, <1>1 DEF TypeOK, Vectors
      <3>2. PICK g : g = stopped_errors_count' /\ g = Append(f, 0)
        BY <3>1 DEF beginTemporaryStopMessages
      <3>3. Longer(g, f, 0..MaxCount, n, 0)
        BY <2>1, <3>2, Appended
      <3>4. QED
        BY <3>1, <3>2, <3>3 DEF Longer, Vectors
    <2>3. /\ stopped_warnings_count' \in [1..(n + 1) -> 0..MaxCount]
          /\ stopped_warnings_count'[n + 1] = 0
          /\ \A l \in 1..n : stopped_warnings_count'[l] = stopped_warnings_count[l]
      <3>1. PICK f \in Vectors(0..MaxCount, n) : f = stopped_warnings_count
        BY <1>0, <1>1 DEF TypeOK, Vectors
      <3>2. PICK g : g = stopped_warnings_count' /\ g = Append(f, 0)
        BY <3>1 DEF beginTemporaryStopMessages
      <3>3. Longer(g, f, 0..MaxCount, n, 0)
        BY <2>1, <3>2, Appended
      <3>4. QED
        BY <3>1, <3>2, <3>3 DEF Longer, Vectors
    <2>4. /\ stopped_messages_count' \in [1..(n + 1) -> 0..MaxCount]
          /\ stopped_messages_count'[n + 1] = 0
          /\ \A l \in 1..n : stopped_messages_count'[l] = stopped_messages_count[l]
      <3>1. PICK f \in Vectors(0..MaxCount, n) : f = stopped_messages_count
        BY <1>0, <1>1 DEF TypeOK, Vectors
      <3>2. PICK g : g = stopped_messages_count' /\ g = Append(f, 0)
        BY <3>1 DEF beginTemporaryStopMessages
      <3>3. Longer(g, f, 0..MaxCount, n, 0)
        BY <2>1, <3>2, Appended
      <3>4. QED
        BY <3>1, <3>2, <3>3 DEF Longer, Vectors
    <2>5. /\ worst' \in [1..(n + 1) -> 0..3] /\ worst'[n + 1] = 0
          /\ \A l \in 1..n : worst'[l] = worst[l]
      <3>1. PICK f \in Vectors(0..3, n) : f = worst
        BY <1>1 DEF Inv, Vectors
      <3>2. PICK g : g = worst' /\ g = Append(f, 0)
        BY <3>1 DEF beginTemporaryStopMessages
      <3>3. Longer(g, f, 0..3, n, 0)
        BY <2>1, <3>2, Appended
      <3>4. QED
        BY <3>1, <3>2, <3>3 DEF Longer, Vectors
    <2>6. stopped_messages' \in [1..(n + 1) -> Seq(Reports)]
      BY <1>5, <1>6, ShapeOfStops
    <2>7. TypeOK'
      BY <1>0, <1>1, <1>2, <1>6, <2>2, <2>3, <2>4, <2>6 DEF TypeOK
    <2>8. \A l \in 1..(n + 1) : l \in 1..n \/ l = n + 1
      OBVIOUS
    <2>9. CountsTellWorst'
      <3> SUFFICES ASSUME NEW l \in 1..(n + 1)
                   PROVE  /\ stopped_errors_count'[l] <= stopped_messages_count'[l]
                          /\ stopped_warnings_count'[l] <= stopped_messages_count'[l]
                          /\ stopped_errors_count'[l] > 0 <=> worst'[l] = 3
                          /\ stopped_warnings_count'[l] > 0 => worst'[l] >= 2
                          /\ worst'[l] = 2 => stopped_warnings_count'[l] > 0
                          /\ stopped_messages_count'[l] > 0 <=> worst'[l] > 0
        BY <1>1 DEF CountsTellWorst
      <3>1. CASE l \in 1..n
        BY <1>1, <2>2, <2>3, <2>4, <2>5, <3>1 DEF CountsTellWorst, Inv
      <3>2. CASE l = n + 1
        BY <2>2, <2>3, <2>4, <2>5, <3>2
      <3>3. QED
        BY <2>8, <3>1, <3>2
    <2>10. QED
      BY <2>5, <2>7, <2>9
  <1>13. Log!Begin
    BY <1>6, <1>10, <1>11 DEF Log!Begin
  <1>14. TextsDiffer(Everything)'
    BY <1>10 DEF Inv, TextsDiffer
  <1>15. QED
    BY <1>1, <1>12, <1>13, <1>14 DEF Inv

\* What the end of a stop does to the log, with its messages and without.
LEMMA EndLog ==
  ASSUME Inv, disable_errors_ref > 0, NEW release \in BOOLEAN, End(release)
  PROVE  /\ messages' \in Seq(Reports)
         /\ stopped_messages' \in [1..(disable_errors_ref - 1) -> Seq(Reports)]
         /\ Everything' = IF release THEN Everything ELSE SubSeq(Everything, 1, Last(Beginnings))
         /\ Beginnings' = Front(Beginnings)
         /\ TextsDiffer(Everything')
  <1>0. TypeOK
    BY DEF Inv
  <1>1. PICK n \in Nat : n = disable_errors_ref /\ n > 0
    BY <1>0, Shape
  <1>2. PICK j \in Nat : j = n - 1 /\ n = j + 1
    <2>1. n - 1 \in Nat /\ n = (n - 1) + 1
      BY <1>1
    <2>2. QED
      BY <2>1
  <1>3. PICK m \in Seq(Reports) : m = messages
    BY <1>0, Shape
  <1>4. PICK s \in Stops : s = stopped_messages /\ Len(s) = n
    BY <1>0, <1>1, Shape
  <1>5. PICK v \in Seq(Reports) : v = s[n]
    BY <1>0, <1>1, <1>4, Shape
  <1>6. PICK q : q = IF release THEN PutAll(v, j, m, s) ELSE <<m, s>>
    OBVIOUS
  <1>7. messages' = q[1] /\ stopped_messages' = Front(q[2])
    <2>1. messages' = (IF release THEN PutAll(v, n - 1, m, s) ELSE <<m, s>>)[1]
      BY <1>1, <1>3, <1>4, <1>5 DEF End
    <2>2. stopped_messages' = Front((IF release THEN PutAll(v, n - 1, m, s) ELSE <<m, s>>)[2])
      BY <1>1, <1>3, <1>4, <1>5 DEF End
    <2>3. QED
      BY <1>2, <1>6, <2>1, <2>2
  <1>8. /\ Gathered(m, s)[n] = Gathered(m, s)[j] \o v /\ Everything = Gathered(m, s)[n]
        /\ Gathered(m, s)[j] \in Seq(Reports)
    <2>1. PICK k \in 1..Len(s) : k = n
      BY <1>1, <1>4
    <2>2. Gathered(m, s)[k] = Gathered(m, s)[k - 1] \o s[k]
      BY GatheredParts
    <2>3. Everything = Gathered(m, s)[Len(s)]
      BY <1>3, <1>4, SeenNow
    <2>4. Gathered(m, s)[j] \in Seq(Reports)
      <3>1. Gathered(m, s) \in [0..Len(s) -> Seq(Reports)]
        BY GatheredParts
      <3>2. j \in 0..Len(s)
        BY <1>2, <1>4
      <3>3. QED
        BY <3>1, <3>2
    <2>5. QED
      BY <1>2, <1>4, <1>5, <2>1, <2>2, <2>3, <2>4
  <1>9. PICK G \in Seq(Reports) : G = Gathered(m, s)[j]
    BY <1>8
  <1>10. /\ q \in Queues(s)
         /\ \A l \in 0..(j - 1) : Gathered(q[1], q[2])[l] = Gathered(m, s)[l]
         /\ Gathered(q[1], q[2])[j] = IF release THEN Everything ELSE G
    <2>1. CASE release
      <3>1. PICK k \in 0..Len(s) : k = j
        BY <1>2, <1>4
      <3>2. TextsDiffer(Gathered(m, s)[k] \o v)
        BY <1>8, <3>1 DEF Inv
      <3>3. q = PutAll(v, k, m, s)
        BY <1>6, <2>1, <3>1
      <3>4. /\ q \in Queues(s)
            /\ \A l \in 0..(k - 1) : Gathered(q[1], q[2])[l] = Gathered(m, s)[l]
            /\ Gathered(q[1], q[2])[k] = Gathered(m, s)[k] \o v
        <4>1. Appends(q, v, m, s, k)
          BY <3>2, <3>3, PutAllAppends
        <4>2. QED
          BY <4>1 DEF Appends
      <3>5. QED
        BY <1>8, <2>1, <3>1, <3>4
    <2>2. CASE ~release
      <3>1. q = <<m, s>>
        BY <1>6, <2>2
      <3>2. q \in Queues(s) /\ q[1] = m /\ q[2] = s
        BY <3>1 DEF Queues
      <3>3. QED
        BY <1>9, <2>2, <3>2
    <2>3. QED
      BY <2>1, <2>2
  <1>11. PICK a \in Seq(Reports), u \in Stops : a = q[1] /\ u = q[2] /\ Len(u) = n
    BY <1>4, <1>10 DEF Queues
  <1>12. PICK t \in Stops : t = Front(u) /\ Len(t) = j /\ \A l \in 1..j : u[l] = t[l]
    <2>1. u \in Vectors(Seq(Reports), n)
      BY <1>11, ShapeOfStops DEF Vectors
    <2>2. PICK t : t = Front(u)
      OBVIOUS
    <2>3. Shorter(t, u, Seq(Reports), n)
      BY <1>1, <2>1, <2>2, Fronted
    <2>4. t \in Vectors(Seq(Reports), j) /\ \A l \in 1..j : u[l] = t[l]
      BY <1>2, <2>3 DEF Shorter
    <2>5. t \in Seq(Seq(Reports)) /\ Len(t) = j
      BY <2>4, Vector
    <2>6. QED
      BY <2>2, <2>4, <2>5 DEF Stops
  <1>13. messages' = a /\ stopped_messages' = t
    BY <1>7, <1>11, <1>12
  <1>14. \A l \in 0..j : Gathered(a, u)[l] = Gathered(a, t)[l]
    <2>1. PICK k \in 0..Len(u) : k = j /\ k <= Len(t) /\ \A l \in 1..k : u[l] = t[l]
      <3>1. j \in 0..Len(u) /\ j <= Len(t)
        BY <1>2, <1>11, <1>12
      <3>2. QED
        BY <1>12, <3>1
    <2>2. \A l \in 0..k : Gathered(a, u)[l] = Gathered(a, t)[l]
      BY <2>1, GatheredAgree
    <2>3. QED
      BY <2>1, <2>2
  <1>15. Everything' = IF release THEN Everything ELSE G
    <2>1. Everything' = Gathered(a, t)[Len(t)]
      BY <1>13, Seen
    <2>2. j \in 0..j
      OBVIOUS
    <2>3. QED
      BY <1>10, <1>11, <1>12, <1>14, <2>1, <2>2
  <1>16. PICK b \in [1..n -> Nat] : b = Beginnings /\ \A l \in 1..n : b[l] = Len(Gathered(m, s)[l - 1])
    BY <1>0, <1>1, <1>3, <1>4, BeginningsVector
  <1>17. Beginnings' = Front(Beginnings)
    <2>1. PICK f : f = Front(b)
      OBVIOUS
    <2>2. b \in Vectors(Nat, n)
      BY DEF Vectors
    <2>3. Shorter(f, b, Nat, n)
      BY <1>1, <2>1, <2>2, Fronted
    <2>4. f \in [1..j -> Nat] /\ \A l \in 1..j : f[l] = b[l]
      BY <1>2, <2>3 DEF Shorter, Vectors
    <2>5. Beginnings' = [l \in DOMAIN t |-> Len(Gathered(a, t)[l - 1])]
      BY <1>13, Seen
    <2>6. DOMAIN t = 1..j
      BY <1>12 DEF Stops
    <2>7. \A l \in 1..j : Len(Gathered(a, t)[l - 1]) = f[l]
      <3> SUFFICES ASSUME NEW l \in 1..j PROVE Len(Gathered(a, t)[l - 1]) = f[l]
        OBVIOUS
      <3>1. l - 1 \in 0..j /\ l - 1 \in 0..(j - 1) /\ l \in 1..n
        BY <1>2
      <3>2. Gathered(a, t)[l - 1] = Gathered(m, s)[l - 1]
        BY <1>10, <1>11, <1>14, <3>1
      <3>3. QED
        BY <1>16, <2>4, <3>1, <3>2
    <2>8. Beginnings' = f
      BY <2>4, <2>5, <2>6, <2>7
    <2>9. QED
      BY <1>16, <2>1, <2>8
  <1>18. SubSeq(Everything, 1, Last(Beginnings)) = G
    <2>1. Last(b) = b[n]
      <3>1. Len(b) = n
        OBVIOUS
      <3>2. QED
        BY <3>1 DEF Last
    <2>2. n \in 1..n
      BY <1>1
    <2>3. b[n] = Len(G)
      BY <1>2, <1>9, <1>16, <2>2
    <2>4. SubSeq(G \o v, 1, Len(G)) = G
      OBVIOUS
    <2>5. QED
      BY <1>8, <1>9, <1>16, <2>1, <2>3, <2>4
  <1>19. TextsDiffer(Everything')
    <2>1. CASE release
      BY <1>15, <2>1 DEF Inv
    <2>2. CASE ~release
      <3>1. TextsDiffer(G \o v)
        BY <1>8, <1>9 DEF Inv
      <3>2. TextsDiffer(G)
        <4>1. /\ Len(G) \in Nat /\ Len(v) \in Nat /\ DOMAIN G = 1..Len(G)
              /\ DOMAIN (G \o v) = 1..(Len(G) + Len(v))
              /\ \A i \in 1..Len(G) : (G \o v)[i] = G[i]
          OBVIOUS
        <4>2. \A i \in 1..Len(G) : i \in 1..(Len(G) + Len(v))
          BY <4>1
        <4>3. QED
          BY <3>1, <4>1, <4>2 DEF TextsDiffer
      <3>3. QED
        BY <1>15, <2>2, <3>2
    <2>3. QED
      BY <2>1, <2>2
  <1>20. stopped_messages' \in [1..(disable_errors_ref - 1) -> Seq(Reports)]
    <2>1. t \in [1..Len(t) -> Seq(Reports)]
      BY ShapeOfStops
    <2>2. QED
      BY <1>1, <1>2, <1>12, <1>13, <2>1
  <1>21. QED
    BY <1>13, <1>15, <1>17, <1>18, <1>19, <1>20

LEMMA EndKeepsInv ==
  ASSUME Inv, disable_errors_ref > 0, NEW release \in BOOLEAN, End(release),
         blocked' \in Seq(Reports)
  PROVE  Inv'
  <1>0. TypeOK
    BY DEF Inv
  <1>1. PICK n \in Nat : n = disable_errors_ref /\ n > 0 /\ n \in 0..MaxStops
    BY <1>0, Shape DEF TypeOK
  <1>2. PICK j \in Nat : j = n - 1 /\ n = j + 1
    <2>1. n - 1 \in Nat /\ n = (n - 1) + 1
      BY <1>1
    <2>2. QED
      BY <2>1
  <1>3. disable_errors_ref' = j /\ j \in 0..MaxStops
    BY <1>1, <1>2, MessagesAssumption DEF End
  <1>4. /\ messages' \in Seq(Reports)
        /\ stopped_messages' \in [1..j -> Seq(Reports)]
        /\ TextsDiffer(Everything')
    BY <1>1, <1>2, EndLog
  <1>5. /\ stopped_errors_count' \in [1..j -> 0..MaxCount]
        /\ \A l \in 1..j : stopped_errors_count'[l] = stopped_errors_count[l]
    <2>1. PICK f \in Vectors(0..MaxCount, n) : f = stopped_errors_count
      BY <1>0, <1>1 DEF TypeOK, Vectors
    <2>2. PICK g : g = stopped_errors_count' /\ g = Front(f)
      BY <2>1 DEF End
    <2>3. Shorter(g, f, 0..MaxCount, n)
      BY <1>1, <2>2, Fronted
    <2>4. QED
      BY <1>2, <2>1, <2>2, <2>3 DEF Shorter, Vectors
  <1>6. /\ stopped_warnings_count' \in [1..j -> 0..MaxCount]
        /\ \A l \in 1..j : stopped_warnings_count'[l] = stopped_warnings_count[l]
    <2>1. PICK f \in Vectors(0..MaxCount, n) : f = stopped_warnings_count
      BY <1>0, <1>1 DEF TypeOK, Vectors
    <2>2. PICK g : g = stopped_warnings_count' /\ g = Front(f)
      BY <2>1 DEF End
    <2>3. Shorter(g, f, 0..MaxCount, n)
      BY <1>1, <2>2, Fronted
    <2>4. QED
      BY <1>2, <2>1, <2>2, <2>3 DEF Shorter, Vectors
  <1>7. /\ stopped_messages_count' \in [1..j -> 0..MaxCount]
        /\ \A l \in 1..j : stopped_messages_count'[l] = stopped_messages_count[l]
    <2>1. PICK f \in Vectors(0..MaxCount, n) : f = stopped_messages_count
      BY <1>0, <1>1 DEF TypeOK, Vectors
    <2>2. PICK g : g = stopped_messages_count' /\ g = Front(f)
      BY <2>1 DEF End
    <2>3. Shorter(g, f, 0..MaxCount, n)
      BY <1>1, <2>2, Fronted
    <2>4. QED
      BY <1>2, <2>1, <2>2, <2>3 DEF Shorter, Vectors
  <1>8. worst' \in [1..j -> 0..3] /\ \A l \in 1..j : worst'[l] = worst[l]
    <2>1. PICK f \in Vectors(0..3, n) : f = worst
      BY <1>1 DEF Inv, Vectors
    <2>2. PICK g : g = worst' /\ g = Front(f)
      BY <2>1 DEF End
    <2>3. Shorter(g, f, 0..3, n)
      BY <1>1, <2>2, Fronted
    <2>4. QED
      BY <1>2, <2>1, <2>2, <2>3 DEF Shorter, Vectors
  <1>9. TypeOK'
    BY <1>3, <1>4, <1>5, <1>6, <1>7 DEF TypeOK
  <1>10. CountsTellWorst'
    <2>1. \A l \in 1..j : l \in 1..disable_errors_ref
      BY <1>1, <1>2
    <2>2. CountsTellWorst
      BY DEF Inv
    <2>3. QED
      BY <1>3, <1>5, <1>6, <1>7, <1>8, <2>1, <2>2 DEF CountsTellWorst
  <1>11. QED
    BY <1>3, <1>4, <1>8, <1>9, <1>10 DEF Inv

\* The end of a stop in the abstract log.
LEMMA EndIsLogged ==
  ASSUME Inv, disable_errors_ref > 0, NEW release \in BOOLEAN, End(release),
         asked' = IF release THEN "keep" ELSE "take back"
  PROVE  Log!End
  <1>1. PICK n \in Nat : n = disable_errors_ref /\ n > 0
    BY Shape DEF Inv
  <1>2. Beginnings # <<>>
    <2>1. Beginnings \in Vectors(Nat, n)
      BY <1>1, BeginningsVector DEF Inv, Vectors
    <2>2. QED
      BY <1>1, <2>1, NotEmpty
  <1>3. /\ Everything' = IF release THEN Everything ELSE SubSeq(Everything, 1, Last(Beginnings))
        /\ Beginnings' = Front(Beginnings)
    BY EndLog
  <1>4. /\ asked' \in {"keep", "take back"}
        /\ asked' = "keep" <=> release
    OBVIOUS
  <1>5. Everything' = IF asked' = "keep" THEN Everything
                      ELSE SubSeq(Everything, 1, Log!Last(Beginnings))
    BY <1>3, <1>4 DEF Last, Log!Last
  <1>6. Beginnings' = Log!Front(Beginnings)
    BY <1>3 DEF Front, Log!Front
  <1>7. QED
    BY <1>2, <1>4, <1>5, <1>6 DEF Log!End

LEMMA EndUnlessHarmlessStep ==
  ASSUME Inv, NEW type \in Types, EndUnlessHarmless(type)
  PROVE  Inv' /\ Log!End
  <1>1. PICK release \in BOOLEAN : release = Releases(type, disable_errors_ref)
    BY DEF Releases
  <1>2. /\ disable_errors_ref > 0 /\ End(release) /\ blocked' = blocked
        /\ asked' = IF Last(worst) >= Severity[type] THEN "keep" ELSE "take back"
    BY <1>1 DEF EndUnlessHarmless
  <1>3. release <=> Last(worst) >= Severity[type]
    <2>1. PICK n \in Nat : n = disable_errors_ref /\ n \in 1..n
      <3>1. PICK n \in Nat : n = disable_errors_ref
        BY Shape DEF Inv
      <3>2. n > 0
        BY <1>2, <3>1
      <3>3. n \in 1..n
        BY <3>2
      <3>4. QED
        BY <3>1, <3>3
    <2>2. PICK w \in 0..3 : w = worst[n]
      BY <2>1 DEF Inv
    <2>3. Last(worst) = w
      <3>1. Len(worst) = n
        BY <2>1 DEF Inv
      <3>2. QED
        BY <2>2, <3>1 DEF Last
    <2>4. /\ stopped_errors_count[n] > 0 <=> w = 3
          /\ stopped_warnings_count[n] > 0 => w >= 2
          /\ w = 2 => stopped_warnings_count[n] > 0
          /\ stopped_messages_count[n] > 0 <=> w > 0
      BY <2>1, <2>2 DEF Inv, CountsTellWorst
    <2>5. CASE type = "error"
      <3>1. Severity[type] = 3
        BY <2>5 DEF Severity
      <3>2. release <=> stopped_errors_count[n] > 0
        BY <1>1, <2>1, <2>5 DEF Releases
      <3>3. QED
        BY <2>2, <2>3, <2>4, <3>1, <3>2
    <2>6. CASE type = "warning"
      <3>1. Severity[type] = 2
        BY <2>6 DEF Severity
      <3>2. release <=> stopped_errors_count[n] > 0 \/ stopped_warnings_count[n] > 0
        BY <1>1, <2>1, <2>6 DEF Releases
      <3>3. QED
        BY <2>2, <2>3, <2>4, <3>1, <3>2
    <2>7. CASE type = "information"
      <3>1. Severity[type] = 1
        BY <2>7 DEF Severity
      <3>2. release <=> stopped_errors_count[n] > 0 \/ stopped_messages_count[n] > 0
        BY <1>1, <2>1, <2>7 DEF Releases
      <3>3. QED
        BY <2>2, <2>3, <2>4, <3>1, <3>2
    <2>8. QED
      BY <2>5, <2>6, <2>7 DEF Types
  <1>4. asked' = IF release THEN "keep" ELSE "take back"
    BY <1>2, <1>3
  <1>5. blocked' \in Seq(Reports)
    BY <1>2 DEF Inv, TypeOK
  <1>6. QED
    BY <1>2, <1>4, <1>5, EndKeepsInv, EndIsLogged

LEMMA EndEitherStep ==
  ASSUME Inv, NEW release \in BOOLEAN, NEW hand_over \in BOOLEAN, EndEither(release, hand_over)
  PROVE  Inv' /\ Log!End
  <1>1. /\ disable_errors_ref > 0 /\ End(release)
        /\ asked' = IF release THEN "keep" ELSE "take back"
        /\ blocked' = IF hand_over THEN stopped_messages[disable_errors_ref] ELSE blocked
    BY DEF EndEither
  <1>2. disable_errors_ref \in 1..disable_errors_ref
    <2>1. PICK n \in Nat : n = disable_errors_ref
      BY Shape DEF Inv
    <2>2. n > 0
      BY <1>1, <2>1
    <2>3. n \in 1..n
      BY <2>2
    <2>4. QED
      BY <2>1, <2>3
  <1>3. blocked' \in Seq(Reports)
    BY <1>1, <1>2 DEF Inv, TypeOK
  <1>4. QED
    BY <1>1, <1>3, EndKeepsInv, EndIsLogged

LEMMA AddBlockedStep ==
  ASSUME Inv, AddBlocked
  PROVE  Inv' /\ Log!Again
  <1>0. TypeOK
    BY DEF Inv
  <1>1. PICK m \in Seq(Reports), v \in Seq(Reports) : m = messages /\ v = blocked
    BY <1>0, Shape
  <1>2. PICK s \in Stops : s = stopped_messages /\ Len(s) = disable_errors_ref
    BY <1>0, Shape
  <1>3. PICK n \in 0..Len(s) : n = disable_errors_ref
    BY <1>0, <1>2, Shape
  <1>4. PICK q : q = PutAll(v, n, m, s)
    OBVIOUS
  <1>5. messages' = q[1] /\ stopped_messages' = q[2] /\ asked' = asked
    BY <1>1, <1>2, <1>3, <1>4 DEF AddBlocked
  <1>6. Everything = Gathered(m, s)[n]
    BY <1>1, <1>2, <1>3, SeenNow
  <1>7. Continues(q, m, s, n)
    <2>1. TextsDiffer(Gathered(m, s)[n])
      BY <1>6 DEF Inv
    <2>2. QED
      BY <1>4, <2>1, PutAllContinues
  <1>8. PICK a \in Seq(Reports), t \in Stops : a = q[1] /\ t = q[2] /\ Len(t) = Len(s)
    BY <1>7 DEF Continues, Queues
  <1>9. Everything' = Gathered(a, t)[n]
    BY <1>2, <1>3, <1>5, <1>8, Seen
  <1>10. PICK G \in Seq(Reports), H \in Seq(Reports) : G = Everything /\ H = Everything'
    <2>1. Gathered(m, s) \in [0..Len(s) -> Seq(Reports)] /\ Gathered(a, t) \in [0..Len(t) -> Seq(Reports)]
      BY GatheredParts
    <2>2. n \in 0..Len(t)
      BY <1>8
    <2>3. QED
      BY <1>6, <1>9, <2>1, <2>2
  <1>11. /\ TextsDiffer(H) /\ Len(G) <= Len(H) /\ \A i \in 1..Len(G) : H[i] = G[i]
    BY <1>6, <1>7, <1>8, <1>9, <1>10 DEF Continues
  <1>12. Beginnings' = Beginnings
    <2>1. \A l \in 0..(Len(s) - 1) : Gathered(a, t)[l] = Gathered(m, s)[l]
      BY <1>2, <1>3, <1>7, <1>8 DEF Continues
    <2>2. [l \in DOMAIN t |-> Len(Gathered(a, t)[l - 1])]
            = [l \in DOMAIN s |-> Len(Gathered(m, s)[l - 1])]
      <3>1. Len(t) = Len(s)
        BY <1>8
      <3>2. QED
        BY ONLY <2>1, <3>1, SameBeginnings, a \in Seq(Reports), t \in Stops, m \in Seq(Reports), s \in Stops
    <2>3. Beginnings' = [l \in DOMAIN t |-> Len(Gathered(a, t)[l - 1])]
      BY <1>5, <1>8, Seen
    <2>4. Beginnings = [l \in DOMAIN s |-> Len(Gathered(m, s)[l - 1])]
      BY <1>1, <1>2, SeenNow
    <2>5. QED
      BY <2>2, <2>3, <2>4
  <1>13. Log!Again
    <2>1. Log!IsPrefix(G, H)
      <3>1. Len(G) \in Nat /\ Len(H) \in Nat /\ SubSeq(G, 1, Len(G)) = G
        OBVIOUS
      <3>2. SubSeq(H, 1, Len(G)) = G
        BY <1>11, <3>1
      <3>3. QED
        BY <1>11, <3>1, <3>2 DEF Log!IsPrefix
    <2>2. \A i \in DOMAIN H : H[i] \in Reports
      OBVIOUS
    <2>3. \A i, k \in DOMAIN H : H[i].text = H[k].text => i = k
      BY <1>11 DEF TextsDiffer
    <2>4. QED
      BY <1>5, <1>10, <1>12, <2>1, <2>2, <2>3 DEF Log!Again
  <1>14. Inv'
    <2>1. /\ disable_errors_ref' = disable_errors_ref /\ blocked' = blocked /\ worst' = worst
          /\ stopped_errors_count' = stopped_errors_count
          /\ stopped_warnings_count' = stopped_warnings_count
          /\ stopped_messages_count' = stopped_messages_count
      BY DEF AddBlocked
    <2>2. stopped_messages' \in [1..disable_errors_ref -> Seq(Reports)]
      BY <1>2, <1>5, <1>8, ShapeOfStops
    <2>3. TypeOK'
      BY <1>0, <1>5, <1>8, <2>1, <2>2 DEF TypeOK
    <2>4. CountsTellWorst'
      BY <2>1 DEF CountsTellWorst, Inv
    <2>5. QED
      BY <1>10, <1>11, <2>1, <2>3, <2>4 DEF Inv
  <1>15. QED
    BY <1>13, <1>14

-----------------------------------------------------------------------------
(* The client's steps, and the forced stop.                                *)

LEMMA ConcatOf ==
  ASSUME NEW a \in Seq(Reports), NEW b \in Seq(Reports)
  PROVE  /\ Len(a) \in Nat /\ Len(b) \in Nat /\ Len(a \o b) = Len(a) + Len(b)
         /\ DOMAIN (a \o b) = 1..(Len(a) + Len(b))
         /\ \A i \in 1..Len(a) : (a \o b)[i] = a[i]
         /\ \A i \in 1..Len(b) : (a \o b)[Len(a) + i] = b[i]
  OBVIOUS

\* What can be read is the first queue, and the log begins with it.
LEMMA ReadableIsMessages ==
  ASSUME Inv
  PROVE  /\ Log!Readable = Len(messages)
         /\ Everything = messages \o Gathered(<<>>, stopped_messages)[disable_errors_ref]
         /\ Gathered(<<>>, stopped_messages)[disable_errors_ref] \in Seq(Reports)
  <1>0. TypeOK
    BY DEF Inv
  <1>1. PICK m \in Seq(Reports) : m = messages
    BY <1>0, Shape
  <1>2. PICK s \in Stops : s = stopped_messages /\ Len(s) = disable_errors_ref
    BY <1>0, Shape
  <1>3. PICK n \in 0..Len(s) : n = disable_errors_ref
    BY <1>0, <1>2, Shape
  <1>4. Everything = Gathered(m, s)[n] /\ Gathered(m, s)[0] = m
    <2>1. Everything = Gathered(m, s)[Len(s)]
      BY <1>1, <1>2, SeenNow
    <2>2. Gathered(m, s)[0] = m
      BY GatheredParts
    <2>3. QED
      BY <1>2, <1>3, <2>1, <2>2
  <1>5. Everything = m \o Gathered(<<>>, s)[n]
    BY <1>4, GatheredAfter
  <1>6. PICK e \in Seq(Reports) : e = <<>>
    <2>1. <<>> \in Seq(Reports)
      OBVIOUS
    <2>2. QED
      BY <2>1
  <1>7. Gathered(<<>>, s)[n] \in Seq(Reports)
    <2>1. Gathered(e, s) \in [0..Len(s) -> Seq(Reports)]
      BY GatheredParts
    <2>2. QED
      BY <1>6, <2>1
  <1>8. Log!Readable = Len(m)
    <2>1. CASE n = 0
      <3>1. Beginnings = <<>>
        <4>1. Beginnings \in [1..0 -> Nat]
          BY <1>0, <1>3, <2>1, BeginningsVector
        <4>2. QED
          BY <4>1
      <3>2. QED
        BY <1>4, <2>1, <3>1 DEF Log!Readable
    <2>2. CASE n # 0
      <3>1. PICK k \in Nat : k = n /\ k > 0 /\ 1 \in 1..k
        BY <1>2, <2>2, <1>3, <1>0, Shape
      <3>2. Beginnings \in Vectors(Nat, k) /\ Beginnings[1] = Len(Gathered(m, s)[0])
        BY <1>0, <1>1, <1>2, <1>3, <3>1, BeginningsVector DEF Vectors
      <3>3. Beginnings # <<>>
        BY <3>1, <3>2, NotEmpty
      <3>4. QED
        BY <1>4, <3>2, <3>3 DEF Log!Readable
    <2>3. QED
      BY <2>1, <2>2
  <1>9. QED
    BY <1>1, <1>2, <1>3, <1>5, <1>7, <1>8

LEMMA DropStep ==
  ASSUME Inv, PartOf(messages', messages, Len(messages)),
         UNCHANGED <<disable_errors_ref, stops, blocked, worst, asked>>
  PROVE  Inv' /\ Log!Drop
  <1>0. TypeOK
    BY DEF Inv
  <1>1. PICK m \in Seq(Reports) : m = messages
    BY <1>0, Shape
  <1>2. PICK s \in Stops : s = stopped_messages /\ Len(s) = disable_errors_ref
    BY <1>0, Shape
  <1>3. PICK j \in 0..Len(s) : j = disable_errors_ref
    BY <1>0, <1>2, Shape
  <1>4. PICK M \in Nat : M = Len(m)
    OBVIOUS
  <1>5. PICK n \in 0..M : \E kept \in [1..n -> 1..M] :
           /\ \A i, k \in 1..n : i < k => kept[i] < kept[k]
           /\ messages' = [i \in 1..n |-> m[kept[i]]]
    <2>1. PartOf(messages', m, M)
      BY <1>1, <1>4
    <2>2. QED
      BY <2>1 DEF PartOf
  <1>6. PICK kept \in [1..n -> 1..M] :
           /\ \A i, k \in 1..n : i < k => kept[i] < kept[k]
           /\ messages' = [i \in 1..n |-> m[kept[i]]]
    BY <1>5
  <1>7. PICK a \in Seq(Reports) : a = messages' /\ Len(a) = n /\ \A i \in 1..n : a[i] = m[kept[i]]
    <2>1. \A i \in 1..n : m[kept[i]] \in Reports
      BY <1>4
    <2>2. messages' \in [1..n -> Reports]
      BY <1>6, <2>1
    <2>3. messages' \in Seq(Reports) /\ Len(messages') = n
      BY <2>2
    <2>4. QED
      BY <1>6, <2>3
  <1>8. PICK R \in Seq(Reports) : R = Gathered(<<>>, s)[j]
    BY <1>2, <1>3, ReadableIsMessages
  <1>9. /\ messages' = a /\ stopped_messages' = s /\ disable_errors_ref' = disable_errors_ref
        /\ stopped_errors_count' = stopped_errors_count
        /\ stopped_warnings_count' = stopped_warnings_count
        /\ stopped_messages_count' = stopped_messages_count
        /\ blocked' = blocked /\ worst' = worst /\ asked' = asked
    BY <1>2, <1>7 DEF stops
  <1>10. Everything = m \o R /\ Everything' = a \o R /\ Log!Readable = M
    <2>1. Everything = m \o R /\ Log!Readable = M
      BY <1>1, <1>2, <1>3, <1>4, <1>8, ReadableIsMessages
    <2>2. Everything' = Gathered(a, s)[Len(s)]
      BY <1>9, Seen
    <2>3. Gathered(a, s)[j] = a \o R
      BY <1>8, GatheredAfter
    <2>4. QED
      BY <1>2, <1>3, <2>1, <2>2, <2>3
  <1>11. /\ Len(R) \in Nat /\ Len(m \o R) = M + Len(R) /\ Len(a \o R) = n + Len(R)
         /\ \A i \in 1..M : (m \o R)[i] = m[i]
         /\ \A i \in 1..n : (a \o R)[i] = a[i]
         /\ \A i \in 1..Len(R) : (m \o R)[M + i] = R[i] /\ (a \o R)[n + i] = R[i]
         /\ DOMAIN (m \o R) = 1..(M + Len(R)) /\ DOMAIN (a \o R) = 1..(n + Len(R))
    BY <1>4, <1>7, ConcatOf, ZenonT(60)
  <1>12. Everything' = [i \in 1..n |-> Everything[kept[i]]] \o SubSeq(Everything, M + 1, Len(Everything))
    <2>1. SubSeq(m \o R, M + 1, Len(m \o R)) = R
      BY <1>4, <1>11
    <2>2. a = [i \in 1..n |-> (m \o R)[kept[i]]]
      <3>1. \A i \in 1..n : (m \o R)[kept[i]] = m[kept[i]]
        BY <1>11
      <3>2. a = [i \in 1..n |-> m[kept[i]]]
        BY <1>6, <1>7
      <3>3. QED
        BY <3>1, <3>2
    <2>3. QED
      BY <1>10, <2>1, <2>2
  <1>13. Beginnings' = [l \in DOMAIN Beginnings |-> Beginnings[l] - (M - n)]
    <2>1. DOMAIN s = 1..Len(s) /\ Len(s) \in Nat
      BY DEF Stops
    <2>2. /\ Beginnings = [l \in 1..Len(s) |-> Len(Gathered(m, s)[l - 1])]
          /\ Beginnings' = [l \in 1..Len(s) |-> Len(Gathered(a, s)[l - 1])]
      <3>1. Beginnings = [l \in DOMAIN s |-> Len(Gathered(m, s)[l - 1])]
        BY <1>1, <1>2, SeenNow
      <3>2. Beginnings' = [l \in DOMAIN s |-> Len(Gathered(a, s)[l - 1])]
        BY <1>9, Seen
      <3>3. QED
        BY <2>1, <3>1, <3>2
    <2>3. \A l \in 1..Len(s) :
             Len(Gathered(a, s)[l - 1]) = Len(Gathered(m, s)[l - 1]) - (M - n)
      <3> SUFFICES ASSUME NEW l \in 1..Len(s)
                   PROVE  Len(Gathered(a, s)[l - 1]) = Len(Gathered(m, s)[l - 1]) - (M - n)
        OBVIOUS
      <3>1. PICK k \in 0..Len(s) : k = l - 1
        BY <2>1
      <3>2. PICK e \in Seq(Reports) : e = <<>>
        <4>1. <<>> \in Seq(Reports)
          OBVIOUS
        <4>2. QED
          BY <4>1
      <3>3. PICK r \in Seq(Reports) : r = Gathered(<<>>, s)[k]
        <4>1. Gathered(e, s) \in [0..Len(s) -> Seq(Reports)]
          BY GatheredParts
        <4>2. QED
          BY <3>2, <4>1
      <3>4. Gathered(m, s)[k] = m \o r /\ Gathered(a, s)[k] = a \o r
        BY <3>3, GatheredAfter
      <3>5. Len(m \o r) = M + Len(r) /\ Len(a \o r) = n + Len(r) /\ Len(r) \in Nat
        BY <1>4, <1>7, ConcatOf
      <3>6. n + Len(r) = M + Len(r) - (M - n)
        BY <3>5
      <3>7. QED
        BY <3>1, <3>4, <3>5, <3>6
    <2>4. QED
      BY <2>2, <2>3
  <1>14. Log!Drop
    <2>1. n \in 0..Log!Readable /\ kept \in [1..n -> 1..Log!Readable]
      BY <1>10
    <2>2. QED
      BY <1>6, <1>9, <1>10, <1>12, <1>13, <2>1 DEF Log!Drop
  <1>15. TextsDiffer(Everything')
    <2>1. TextsDiffer(m \o R)
      BY <1>10 DEF Inv
    <2> DEFINE From(i) == IF i <= n THEN kept[i] ELSE M + (i - n)
    <2>2. \A i \in 1..(n + Len(R)) :
             From(i) \in 1..(M + Len(R)) /\ (a \o R)[i] = (m \o R)[From(i)]
      <3> SUFFICES ASSUME NEW i \in 1..(n + Len(R))
                   PROVE  From(i) \in 1..(M + Len(R)) /\ (a \o R)[i] = (m \o R)[From(i)]
        OBVIOUS
      <3>1. CASE i <= n
        <4>1. i \in 1..n /\ kept[i] \in 1..M
          BY <3>1
        <4>2. QED
          BY <1>7, <1>11, <3>1, <4>1
      <3>2. CASE ~(i <= n)
        <4>1. i - n \in 1..Len(R) /\ n + (i - n) = i
          BY <1>11, <3>2
        <4>2. QED
          BY <1>11, <3>2, <4>1
      <3>3. QED
        BY <3>1, <3>2
    <2>3. \A i, k \in 1..(n + Len(R)) : From(i) = From(k) => i = k
      <3> SUFFICES ASSUME NEW i \in 1..(n + Len(R)), NEW k \in 1..(n + Len(R)), i < k
                   PROVE  From(i) # From(k)
        OBVIOUS
      <3>1. CASE k <= n
        BY <1>6, <3>1
      <3>2. CASE ~(k <= n) /\ i <= n
        <4>1. kept[i] \in 1..M /\ k - n \in 1..Len(R)
          BY <1>11, <3>2
        <4>2. QED
          BY <3>2, <4>1
      <3>3. CASE ~(k <= n) /\ ~(i <= n)
        BY <1>11, <3>3
      <3>4. QED
        BY <3>1, <3>2, <3>3
    <2> HIDE DEF From
    <2>4. TextsDiffer(a \o R)
      <3> SUFFICES ASSUME NEW i \in 1..(n + Len(R)), NEW k \in 1..(n + Len(R)),
                          (a \o R)[i].text = (a \o R)[k].text
                   PROVE  i = k
        BY <1>11 DEF TextsDiffer
      <3>1. (m \o R)[From(i)].text = (m \o R)[From(k)].text
        BY <2>2
      <3>2. From(i) \in DOMAIN (m \o R) /\ From(k) \in DOMAIN (m \o R)
        BY <1>11, <2>2
      <3>3. From(i) = From(k)
        BY <2>1, <3>1, <3>2 DEF TextsDiffer
      <3>4. QED
        BY <2>3, <3>3
    <2>5. QED
      BY <1>10, <2>4
  <1>16. TypeOK' /\ CountsTellWorst' /\ worst' \in [1..disable_errors_ref' -> 0..3]
    <2>1. TypeOK'
      BY <1>0, <1>2, <1>7, <1>9 DEF TypeOK
    <2>2. CountsTellWorst'
      BY <1>9 DEF CountsTellWorst, Inv
    <2>3. QED
      BY <1>9, <2>1, <2>2 DEF Inv
  <1>17. QED
    BY <1>14, <1>15, <1>16 DEF Inv

LEMMA NextMessageStep ==
  ASSUME Inv, nextMessage
  PROVE  Inv' /\ Log!Drop
  <1>1. PICK m \in Seq(Reports) : m = messages
    BY Shape DEF Inv
  <1>2. PICK M \in Nat : M = Len(m)
    OBVIOUS
  <1>3. m # <<>> /\ messages' = Tail(m) /\ M > 0
    BY <1>1, <1>2 DEF nextMessage
  <1>4. PartOf(messages', m, M)
    <2>1. PICK n \in 0..M : n = M - 1
      BY <1>3
    <2>2. PICK kept \in [1..n -> 1..M] : \A i \in 1..n : kept[i] = i + 1
      <3>1. [i \in 1..n |-> i + 1] \in [1..n -> 1..M]
        BY <2>1
      <3>2. QED
        BY <3>1
    <2>3. \A i, k \in 1..n : i < k => kept[i] < kept[k]
      BY <2>2
    <2>4. messages' = [i \in 1..n |-> m[kept[i]]]
      <3>1. Tail(m) = [i \in 1..n |-> m[i + 1]]
        <4>1. Tail(m) \in Seq(Reports) /\ Len(Tail(m)) = n
          BY <1>2, <1>3, <2>1
        <4>2. Tail(m) = [i \in 1..n |-> Tail(m)[i]]
          <5>1. PICK a : a = Tail(m)
            OBVIOUS
          <5>2. a \in [1..n -> Reports]
            BY <4>1, <5>1, LenProperties, Zenon
          <5>3. a = [i \in 1..n |-> a[i]]
            BY <5>2
          <5>4. QED
            BY <5>1, <5>3
        <4>3. \A i \in 1..n : Tail(m)[i] = m[i + 1]
          BY <1>2, <1>3, <2>1
        <4>4. QED
          BY <4>2, <4>3
      <3>2. QED
        BY <1>3, <2>2, <3>1
    <2>5. QED
      BY <2>3, <2>4 DEF PartOf
  <1>5. UNCHANGED <<disable_errors_ref, stops, blocked, worst, asked>>
    BY DEF nextMessage
  <1>6. PartOf(messages', messages, Len(messages))
    BY <1>1, <1>2, <1>4
  <1>7. QED
    BY <1>5, <1>6, DropStep

LEMMA ClearMessagesStep ==
  ASSUME Inv, clearMessages
  PROVE  Inv' /\ Log!Drop
  <1>1. PICK m \in Seq(Reports) : m = messages
    BY Shape DEF Inv
  <1>2. PICK M \in Nat : M = Len(m)
    OBVIOUS
  <1>3. PartOf(messages', m, M)
    <2>1. PICK n \in 0..M : n = 0
      OBVIOUS
    <2>2. PICK kept \in [1..n -> 1..M] : kept = [i \in 1..n |-> i]
      <3>1. [i \in 1..n |-> i] \in [1..n -> 1..M]
        BY <2>1
      <3>2. QED
        BY <3>1
    <2>3. messages' = [i \in 1..n |-> m[kept[i]]]
      BY <2>1 DEF clearMessages
    <2>4. \A i, k \in 1..n : i < k => kept[i] < kept[k]
      BY <2>1
    <2>5. QED
      BY <2>3, <2>4 DEF PartOf
  <1>4. UNCHANGED <<disable_errors_ref, stops, blocked, worst, asked>>
    BY DEF clearMessages
  <1>5. PartOf(messages', messages, Len(messages))
    BY <1>1, <1>2, <1>3
  <1>6. QED
    BY <1>4, <1>5, DropStep

LEMMA CleanMessagesStep ==
  ASSUME Inv, NEW first \in Nat, cleanMessages(first)
  PROVE  Inv' /\ Log!Drop
  <1>1. PICK m \in Seq(Reports) : m = messages
    BY Shape DEF Inv
  <1>2. PICK skip \in Nat : skip = IF first > 0 THEN first - 1 ELSE 0
    <2>1. (IF first > 0 THEN first - 1 ELSE 0) \in Nat
      OBVIOUS
    <2>2. QED
      BY <2>1
  <1>3. messages' = Cleaned(m, skip)
    BY <1>1, <1>2 DEF cleanMessages
  <1>4. PartOf(messages', messages, Len(messages))
    BY <1>1, <1>3, CleanedIsPart
  <1>5. UNCHANGED <<disable_errors_ref, stops, blocked, worst, asked>>
    BY DEF cleanMessages
  <1>6. QED
    BY <1>4, <1>5, DropStep

LEMMA ForcedStopStep ==
  ASSUME Inv, ForcedStop
  PROVE  Inv' /\ Log!ForcedStop(Forced)
  <1>0. TypeOK /\ Forced \in Reports
    BY MessagesAssumption DEF Inv
  <1>1. PICK m \in Seq(Reports) : m = messages
    BY <1>0, Shape
  <1>2. PICK e \in Stops : e = <<>> /\ Len(e) = 0
    <2>1. <<>> \in Stops /\ Len(<<>>) = 0
      BY DEF Stops
    <2>2. QED
      BY <2>1
  <1>3. PICK p : p = Put(Forced, 0, m, e)
    OBVIOUS
  <1>4. /\ p \in Queues(e)
        /\ Gathered(p[1], p[2])[0] = IF HasText(Gathered(m, e)[0], Forced) THEN Gathered(m, e)[0]
                                     ELSE Append(Gathered(m, e)[0], Forced)
    <2>1. PICK n \in 0..Len(e) : n = 0
      BY <1>2
    <2>2. p = Put(Forced, n, m, e)
      BY <1>3, <2>1
    <2>3. /\ p \in Queues(e)
          /\ Gathered(p[1], p[2])[n] = IF HasText(Gathered(m, e)[n], Forced) THEN Gathered(m, e)[n]
                                       ELSE Append(Gathered(m, e)[n], Forced)
      BY <1>0, <2>2, PutParts
    <2>4. QED
      BY <2>1, <2>3
  <1>5. PICK a \in Seq(Reports), t \in Stops : a = p[1] /\ t = p[2]
    BY <1>4 DEF Queues
  <1>6. a = IF HasText(m, Forced) THEN m ELSE Append(m, Forced)
    <2>1. Gathered(a, t)[0] = a /\ Gathered(m, e)[0] = m
      BY GatheredParts
    <2>2. QED
      BY <1>4, <1>5, <2>1
  <1>7. /\ messages' = a /\ stopped_messages' = e /\ disable_errors_ref' = 0
        /\ stopped_errors_count' = <<>> /\ stopped_warnings_count' = <<>>
        /\ stopped_messages_count' = <<>> /\ worst' = <<>>
        /\ blocked' = blocked /\ asked' = asked
    BY <1>1, <1>2, <1>3, <1>5 DEF ForcedStop
  <1>8. Everything' = a /\ Beginnings' = <<>>
    <2>1. Everything' = Gathered(a, e)[0]
      BY <1>2, <1>7, Seen
    <2>2. Gathered(a, e)[0] = a
      BY GatheredParts
    <2>3. Beginnings' = [l \in DOMAIN e |-> Len(Gathered(a, e)[l - 1])]
      BY <1>7, Seen
    <2>4. DOMAIN e = {}
      BY <1>2
    <2>5. QED
      BY <2>1, <2>2, <2>3, <2>4
  <1>9. PICK R \in Seq(Reports) : Everything = m \o R /\ Log!Readable = Len(m)
    BY <1>1, ReadableIsMessages
  <1>10. SubSeq(Everything, 1, Log!Readable) = m
    <2>1. SubSeq(m \o R, 1, Len(m)) = m
      OBVIOUS
    <2>2. QED
      BY <1>9, <2>1
  <1>11. Log!ForcedStop(Forced)
    BY <1>6, <1>7, <1>8, <1>10 DEF Log!ForcedStop, HasText
  <1>12. TextsDiffer(a)
    <2>1. TextsDiffer(m)
      <3>1. TextsDiffer(m \o R)
        BY <1>9 DEF Inv
      <3>2. /\ DOMAIN m = 1..Len(m) /\ \A i \in 1..Len(m) : i \in DOMAIN (m \o R) /\ (m \o R)[i] = m[i]
        OBVIOUS
      <3>3. QED
        BY <3>1, <3>2 DEF TextsDiffer
    <2>2. CASE HasText(m, Forced)
      BY <1>6, <2>1, <2>2
    <2>3. CASE ~HasText(m, Forced)
      BY <1>0, <1>6, <2>1, <2>3, AppendOne
    <2>4. QED
      BY <2>2, <2>3
  <1>13. TypeOK'
    <2>1. e \in [1..0 -> Seq(Reports)]
      BY <1>2, ShapeOfStops
    <2>2. <<>> \in [1..0 -> 0..MaxCount] /\ 0 \in 0..MaxStops
      BY MessagesAssumption
    <2>3. messages' \in Seq(Reports) /\ blocked' \in Seq(Reports)
      BY <1>0, <1>7 DEF TypeOK
    <2>4. /\ disable_errors_ref' = 0 /\ stopped_messages' = e
          /\ stopped_errors_count' = <<>> /\ stopped_warnings_count' = <<>>
          /\ stopped_messages_count' = <<>>
      BY <1>7
    <2>5. QED
      BY <2>1, <2>2, <2>3, <2>4 DEF TypeOK
  <1>14. worst' \in [1..disable_errors_ref' -> 0..3]
    <2>1. <<>> \in [1..0 -> 0..3]
      OBVIOUS
    <2>2. QED
      BY <1>7, <2>1
  <1>15. CountsTellWorst'
    BY <1>7 DEF CountsTellWorst
  <1>16. QED
    BY <1>8, <1>11, <1>12, <1>13, <1>14, <1>15 DEF Inv

-----------------------------------------------------------------------------
(* The theorems.                                                           *)

LEMMA InitInv == Init => Inv /\ Log!Init
  <1> SUFFICES ASSUME Init PROVE Inv /\ Log!Init
    OBVIOUS
  <1>1. PICK e \in Stops : e = <<>> /\ Len(e) = 0
    <2>1. <<>> \in Stops /\ Len(<<>>) = 0
      BY DEF Stops
    <2>2. QED
      BY <2>1
  <1>2. PICK m \in Seq(Reports) : m = <<>>
    <2>1. <<>> \in Seq(Reports)
      OBVIOUS
    <2>2. QED
      BY <2>1
  <1>3. /\ messages = m /\ stopped_messages = e /\ disable_errors_ref = 0
        /\ stopped_errors_count = <<>> /\ stopped_warnings_count = <<>>
        /\ stopped_messages_count = <<>> /\ worst = <<>> /\ blocked = <<>>
        /\ asked = "nothing"
    BY <1>1, <1>2 DEF Init
  <1>4. Everything = <<>> /\ Beginnings = <<>>
    <2>1. Everything = Gathered(m, e)[0]
      BY <1>1, <1>3, SeenNow
    <2>2. Gathered(m, e)[0] = m
      BY GatheredParts
    <2>3. Beginnings = [l \in DOMAIN e |-> Len(Gathered(m, e)[l - 1])]
      BY <1>3, SeenNow
    <2>4. DOMAIN e = {}
      BY <1>1
    <2>5. QED
      BY <1>2, <2>1, <2>2, <2>3, <2>4
  <1>5. TypeOK
    <2>1. e \in [1..0 -> Seq(Reports)]
      BY <1>1, ShapeOfStops
    <2>2. <<>> \in [1..0 -> 0..MaxCount] /\ 0 \in 0..MaxStops
      BY MessagesAssumption
    <2>3. messages \in Seq(Reports) /\ blocked \in Seq(Reports)
      BY <1>3
    <2>4. QED
      BY <1>3, <2>1, <2>2, <2>3 DEF TypeOK
  <1>6. worst \in [1..disable_errors_ref -> 0..3]
    <2>1. <<>> \in [1..0 -> 0..3]
      OBVIOUS
    <2>2. QED
      BY <1>3, <2>1
  <1>7. CountsTellWorst
    BY <1>3 DEF CountsTellWorst
  <1>8. TextsDiffer(Everything)
    BY <1>4 DEF TextsDiffer
  <1>9. Log!Init
    BY <1>3, <1>4 DEF Log!Init
  <1>10. QED
    BY <1>5, <1>6, <1>7, <1>8, <1>9 DEF Inv

LEMMA StutterStep ==
  ASSUME Inv, UNCHANGED vars
  PROVE  Inv' /\ UNCHANGED <<Everything, Beginnings, asked>>
  <1>1. /\ messages' = messages /\ stopped_messages' = stopped_messages
        /\ disable_errors_ref' = disable_errors_ref /\ blocked' = blocked
        /\ stopped_errors_count' = stopped_errors_count
        /\ stopped_warnings_count' = stopped_warnings_count
        /\ stopped_messages_count' = stopped_messages_count
        /\ worst' = worst /\ asked' = asked
    BY DEF vars, stops
  <1>2. Everything' = Everything /\ Beginnings' = Beginnings
    BY <1>1, Seen DEF Everything, Beginnings
  <1>3. TypeOK'
    BY <1>1 DEF Inv, TypeOK
  <1>4. CountsTellWorst'
    BY <1>1 DEF Inv, CountsTellWorst
  <1>5. QED
    BY <1>1, <1>2, <1>3, <1>4 DEF Inv

LEMMA NextStep ==
  Inv /\ [Next]_vars => Inv' /\ [Log!Next]_<<Everything, Beginnings, asked>>
  <1> SUFFICES ASSUME Inv, [Next]_vars
               PROVE  Inv' /\ [Log!Next]_<<Everything, Beginnings, asked>>
    OBVIOUS
  <1>1. ASSUME NEW m \in Reports, Message(m) PROVE Inv' /\ Log!Next
    BY <1>1, MessageStep DEF Log!Next
  <1>2. CASE beginTemporaryStopMessages
    BY <1>2, BeginStep DEF Log!Next
  <1>3. ASSUME NEW type \in Types, EndUnlessHarmless(type) PROVE Inv' /\ Log!Next
    BY <1>3, EndUnlessHarmlessStep DEF Log!Next
  <1>4. ASSUME NEW release \in BOOLEAN, NEW hand_over \in BOOLEAN, EndEither(release, hand_over)
        PROVE  Inv' /\ Log!Next
    BY <1>4, EndEitherStep DEF Log!Next
  <1>5. CASE AddBlocked
    BY <1>5, AddBlockedStep DEF Log!Next
  <1>6. CASE nextMessage
    BY <1>6, NextMessageStep DEF Log!Next
  <1>7. CASE clearMessages
    BY <1>7, ClearMessagesStep DEF Log!Next
  <1>8. ASSUME NEW first \in 0..Cardinality(Reports), cleanMessages(first) PROVE Inv' /\ Log!Next
    <2>1. first \in Nat
      OBVIOUS
    <2>2. QED
      BY <1>8, <2>1, CleanMessagesStep DEF Log!Next
  <1>9. CASE ForcedStop
    <2>1. Inv' /\ Log!ForcedStop(Forced) /\ Forced \in Reports
      BY <1>9, ForcedStopStep, MessagesAssumption
    <2>2. QED
      BY <2>1 DEF Log!Next
  <1>10. CASE UNCHANGED vars
    BY <1>10, StutterStep
  <1>11. QED
    BY <1>1, <1>2, <1>3, <1>4, <1>5, <1>6, <1>7, <1>8, <1>9, <1>10 DEF Next

LEMMA InvHolds == Spec => []Inv
  BY InitInv, NextStep, PTL DEF Spec

\* The vectors of the stops have one entry per open stop, always.
THEOREM Typing == Spec => []TypeOK
  <1>1. Inv => TypeOK
    BY DEF Inv
  <1>2. QED
    BY <1>1, InvHolds, PTL

\* Stops are savepoints of one log: every report, release, hand-over, cleaning
\* and forced stop is a step of MessageLog or none.
THEOREM Implements == Spec => ImplementsLog
  BY InitInv, NextStep, InvHolds, PTL DEF Spec, ImplementsLog, Log!Spec
=============================================================================
