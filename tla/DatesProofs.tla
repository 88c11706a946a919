---------------------------- MODULE DatesProofs ----------------------------
(***************************************************************************)
(* The dates and times of QalculateDateTime, for every date, amount and    *)
(* time zone.  They rest on the days of the Gregorian calendar.  The       *)
(* carries and the walks over leap seconds are loops that come to an end   *)
(* (Loop), and each round of them keeps the day, or the clock, that is     *)
(* meant (LoopKeeps).                                                      *)
(***************************************************************************)
EXTENDS CalendarsProofs, Dates, FiniteSetTheorems

------------------------------------------------------------------------------
(* Loops *)

(* Loops.  A loop over S goes on with F until it is done, and has B then; each
   round makes a number smaller. *)
Loop(S, V, Done, B, F, mu) ==
  /\ Done \subseteq S /\ B \in [S -> V] /\ F \in [S -> S] /\ mu \in [S -> Nat]
  /\ \A t \in S \ Done : mu[F[t]] < mu[t]

Runs(g, S, Done, B, F) == \A t \in S : g[t] = IF t \in Done THEN B[t] ELSE g[F[t]]

(* A set of numbers that is not empty has a least one. *)
LEMMA LeastNumber ==
  ASSUME NEW T, T \subseteq Nat, T # {}
  PROVE  \E m \in T : \A y \in T : m <= y
<1> DEFINE R == {p \in Nat \X Nat : p[1] < p[2]}
<1>1. IsWellFoundedOn(R, Nat)
  BY NatLessThanWellFounded DEF OpToRel
<1>2. PICK x \in T : \A y \in T : ~(<<y, x>> \in R)
  BY <1>1, WFMin
<1>3. \A y \in T : x <= y
  <2> SUFFICES ASSUME NEW y \in T PROVE x <= y
    OBVIOUS
  <2>1. x \in Nat /\ y \in Nat
    OBVIOUS
  <2>2. (y < x) => <<y, x>> \in R
    BY <2>1
  <2> HIDE DEF R
  <2> QED BY <1>2, <2>1, <2>2
<1> QED BY <1>3

(* What is kept by every round and holds of B at the end holds of the result. *)
Kept(I, S, Done, F) == I \subseteq S /\ \A t \in I \ Done : F[t] \in I
Ends(I, Done, B, Q) == \A t \in I \cap Done : B[t] \in Q
Gives(g, I, Q) == \A t \in I : g[t] \in Q

(* A loop that keeps I, and has Q of what ends it there, gives Q on all of I. *)
LEMMA LoopKeeps ==
  ASSUME NEW S, NEW V, NEW Done, NEW B, NEW F, NEW mu, Loop(S, V, Done, B, F, mu),
         NEW g, Runs(g, S, Done, B, F),
         NEW I, Kept(I, S, Done, F), NEW Q, Ends(I, Done, B, Q)
  PROVE  Gives(g, I, Q)
<1> USE DEF Kept, Ends
<1> SUFFICES ASSUME NEW u \in I, g[u] \notin Q PROVE FALSE
  BY DEF Gives
<1>1. PICK T : T = {mu[t] : t \in {v \in I : g[v] \notin Q}}
  OBVIOUS
<1>2. T \subseteq Nat /\ T # {}
  BY <1>1 DEF Loop
<1>3. PICK k \in T : \A j \in T : k <= j
  BY <1>2, LeastNumber
<1>4. PICK t \in I : mu[t] = k /\ g[t] \notin Q
  BY <1>1
<1>5. t \in S /\ t \notin Done
  BY <1>4 DEF Runs
<1>6. F[t] \in I /\ mu[F[t]] < k /\ g[F[t]] = g[t]
  BY <1>4, <1>5 DEF Loop, Runs
<1>7. mu[F[t]] \in T
  BY <1>1, <1>4, <1>6
<1>8. k \in Nat /\ mu[F[t]] \in Nat
  BY <1>2, <1>7
<1> QED BY <1>3, <1>6, <1>7, <1>8

(* Two that run as the loop agree. *)
RunsTo(g, S, Done, B, F, mu, n) ==
  \A t \in S : mu[t] <= n => g[t] = IF t \in Done THEN B[t] ELSE g[F[t]]

(* Functions that run as the loop, each up to a measure, agree up to both. *)
LEMMA LoopsAgree ==
  ASSUME NEW S, NEW V, NEW Done, NEW B, NEW F, NEW mu, Loop(S, V, Done, B, F, mu),
         NEW n \in Nat, NEW g, RunsTo(g, S, Done, B, F, mu, n),
         NEW k \in Nat, NEW h, RunsTo(h, S, Done, B, F, mu, k)
  PROVE  \A t \in S : mu[t] <= n /\ mu[t] <= k => g[t] = h[t]
<1> DEFINE D == {t \in S : mu[t] <= n /\ mu[t] <= k /\ g[t] # h[t]}
<1> SUFFICES ASSUME D # {} PROVE FALSE
  OBVIOUS
<1>1. PICK T : T = {mu[t] : t \in D}
  OBVIOUS
<1>2. T \subseteq Nat /\ T # {}
  BY <1>1 DEF Loop
<1>3. PICK m \in T : \A j \in T : m <= j
  BY <1>2, LeastNumber
<1>4. PICK t \in D : mu[t] = m
  BY <1>1
<1>5. t \in S /\ mu[t] <= n /\ mu[t] <= k /\ g[t] # h[t]
  BY <1>4
<1>6. /\ g[t] = IF t \in Done THEN B[t] ELSE g[F[t]]
      /\ h[t] = IF t \in Done THEN B[t] ELSE h[F[t]]
  BY <1>5 DEF RunsTo
<1>7. t \notin Done /\ g[F[t]] # h[F[t]]
  BY <1>5, <1>6
<1>8. F[t] \in S /\ mu[F[t]] \in Nat /\ mu[t] \in Nat /\ mu[F[t]] < mu[t]
  BY <1>5, <1>7 DEF Loop
<1>9. mu[F[t]] <= n /\ mu[F[t]] <= k
  BY <1>5, <1>8
<1>10. F[t] \in D
  BY <1>7, <1>8, <1>9
<1>11. mu[F[t]] \in T
  BY <1>1, <1>10
<1> QED BY <1>3, <1>4, <1>8, <1>11

(* There is a function that runs as the loop: rounds come down to an end. *)
LEMMA LoopRuns ==
  ASSUME NEW S, NEW V, NEW Done, NEW B, NEW F, NEW mu, Loop(S, V, Done, B, F, mu)
  PROVE  \E g \in [S -> V] : Runs(g, S, Done, B, F)
<1> DEFINE P(n) == \E g \in [S -> V] : RunsTo(g, S, Done, B, F, mu, n)
<1>1. P(0)
  <2>1. \A t \in S : mu[t] <= 0 => t \in Done
    <3> SUFFICES ASSUME NEW t \in S, mu[t] <= 0, t \notin Done PROVE FALSE
      OBVIOUS
    <3>1. mu[F[t]] < mu[t] /\ mu[F[t]] \in Nat /\ mu[t] \in Nat
      BY DEF Loop
    <3> QED BY <3>1
  <2>2. B \in [S -> V]
    BY DEF Loop
  <2>3. RunsTo(B, S, Done, B, F, mu, 0)
    BY <2>1 DEF RunsTo
  <2> QED BY <2>2, <2>3
<1>2. ASSUME NEW n \in Nat, P(n)
      PROVE  P(n + 1)
  <2>1. PICK g \in [S -> V] : RunsTo(g, S, Done, B, F, mu, n)
    BY <1>2
  <2>2. PICK h : h = [t \in S |-> IF mu[t] <= n THEN g[t]
                                  ELSE IF t \in Done THEN B[t] ELSE g[F[t]]]
    OBVIOUS
  <2>3. h \in [S -> V]
    BY <2>1, <2>2 DEF Loop
  <2>4. ASSUME NEW t \in S, mu[t] <= n + 1
        PROVE  h[t] = IF t \in Done THEN B[t] ELSE h[F[t]]
    <3>1. mu[t] \in Nat
      BY DEF Loop
    <3>2. CASE t \in Done
      BY <2>1, <2>2, <3>2 DEF RunsTo
    <3>3. CASE t \notin Done
      <4>1. F[t] \in S /\ mu[F[t]] \in Nat /\ mu[F[t]] < mu[t]
        BY <3>3 DEF Loop
      <4>2. mu[F[t]] <= n
        BY <2>4, <3>1, <4>1
      <4>3. h[F[t]] = g[F[t]]
        BY <2>2, <4>1, <4>2
      <4>4. h[t] = g[F[t]]
        BY <2>1, <2>2, <3>3 DEF RunsTo
      <4> QED BY <3>3, <4>3, <4>4
    <3> QED BY <3>2, <3>3
  <2>5. RunsTo(h, S, Done, B, F, mu, n + 1)
    BY <2>4 DEF RunsTo
  <2> QED BY <2>3, <2>5
<1>3. \A n \in Nat : P(n)
  <2> DEFINE T == {n \in Nat : ~P(n)}
  <2> SUFFICES ASSUME T # {} PROVE FALSE
    OBVIOUS
  <2>1. T \subseteq Nat
    OBVIOUS
  <2>2. PICK m \in T : \A j \in T : m <= j
    <3> HIDE DEF T
    <3> QED BY <2>1, LeastNumber
  <2>3. m \in Nat /\ ~P(m)
    BY <2>2
  <2>4. m # 0
    BY <1>1, <2>3
  <2>5. PICK n \in Nat : m = n + 1
    BY <2>3, <2>4
  <2>6. P(n)
    <3>1. n \notin T
      BY <2>2, <2>5
    <3> QED BY <3>1
  <2> QED BY <1>2, <2>3, <2>5, <2>6
<1>4. PICK G : G = [n \in Nat |-> CHOOSE g \in [S -> V] : RunsTo(g, S, Done, B, F, mu, n)]
  OBVIOUS
<1>5. ASSUME NEW n \in Nat
      PROVE  G[n] \in [S -> V] /\ RunsTo(G[n], S, Done, B, F, mu, n)
  <2>1. P(n)
    BY <1>3
  <2>2. G[n] = CHOOSE g \in [S -> V] : RunsTo(g, S, Done, B, F, mu, n)
    BY <1>4
  <2> QED BY <2>1, <2>2, Zenon
<1>6. PICK w : w = [t \in S |-> G[mu[t]][t]]
  OBVIOUS
<1>7. \A t \in S : mu[t] \in Nat /\ w[t] = G[mu[t]][t]
  BY <1>6 DEF Loop
<1>8. w \in [S -> V]
  BY <1>5, <1>6, <1>7
<1>9. ASSUME NEW t \in S
      PROVE  w[t] = IF t \in Done THEN B[t] ELSE w[F[t]]
  <2>1. PICK n \in Nat : n = mu[t]
    BY <1>7
  <2>2. G[n][t] = IF t \in Done THEN B[t] ELSE G[n][F[t]]
    BY <1>5, <2>1 DEF RunsTo
  <2>3. CASE t \in Done
    BY <1>7, <2>1, <2>2, <2>3
  <2>4. CASE t \notin Done
    <3>1. F[t] \in S /\ mu[F[t]] < mu[t]
      BY <2>4 DEF Loop
    <3>2. PICK k \in Nat : k = mu[F[t]] /\ k <= n
      BY <1>7, <2>1, <3>1
    <3>3. RunsTo(G[n], S, Done, B, F, mu, n) /\ RunsTo(G[k], S, Done, B, F, mu, k)
      BY <1>5
    <3>4. G[n][F[t]] = G[k][F[t]]
      BY <3>1, <3>2, <3>3, LoopsAgree
    <3> QED BY <1>7, <2>1, <2>2, <2>4, <3>1, <3>2, <3>4
  <2> QED BY <2>3, <2>4
<1>10. Runs(w, S, Done, B, F)
  BY <1>9 DEF Runs
<1> QED BY <1>8, <1>10

------------------------------------------------------------------------------
(* Days, months and years are added to a date *)

(* The first day of a month of the Gregorian calendar. *)
Start(y, m) == gregorian_to_fixed(y, m, 1)

Next12(y, m, z, n) == \/ m = 12 /\ z = y + 1 /\ n = 1
                      \/ m # 12 /\ z = y /\ n = m + 1

(* What a month has to do with its first day: its length, that of its year, the
   month after it, and its other days. *)
LEMMA Starts28 ==
  ASSUME NEW y \in Int, NEW m \in 1..12
  PROVE  /\ daysPerMonth(m, y) \in 28..31 /\ Start(y, m) \in Int
         /\ daysPerYear(y) = IF isLeapYear(y) THEN 366 ELSE 365
         /\ \A z \in Int, n \in 1..12 :
              Next12(y, m, z, n) => Start(z, n) = Start(y, m) + daysPerMonth(m, y)
         /\ \A d \in Int : gregorian_to_fixed(y, m, d) = Start(y, m) + d - 1
<1>1. PICK leap \in BOOLEAN : leap = isLeapYear(y)
  BY January
<1>2. daysPerMonth(m, y) = BeforeMonth(m + 1, leap) - BeforeMonth(m, leap)
  BY <1>1, SMT DEF daysPerMonth, BeforeMonth, quotient
<1>3. daysPerMonth(m, y) \in 28..31
  BY <1>1, SMT DEF daysPerMonth
<1>4. \A k \in 1..13 : gregorian_to_fixed(y, k, 1) = gregorian_to_fixed(y, 1, 1) + BeforeMonth(k, leap)
  BY <1>1, GregorianMonths
<1>5. /\ gregorian_to_fixed(y, 1, 1) \in Int
      /\ gregorian_to_fixed(y + 1, 1, 1) = gregorian_to_fixed(y, 1, 1) + (IF leap THEN 366 ELSE 365)
  BY <1>1, Januaries
<1>6. /\ \A k \in 1..13 : BeforeMonth(k, leap) \in Int
      /\ BeforeMonth(1, leap) = 0 /\ BeforeMonth(13, leap) = IF leap THEN 366 ELSE 365
  BY MonthsOfYear
<1>7. Start(y, m) = gregorian_to_fixed(y, 1, 1) + BeforeMonth(m, leap) /\ Start(y, m) \in Int
  BY <1>4, <1>5, <1>6 DEF Start
<1>8. ASSUME NEW z \in Int, NEW n \in 1..12,
             Next12(y, m, z, n)
      PROVE  Start(z, n) = Start(y, m) + daysPerMonth(m, y)
  <2>1. CASE m # 12
    <3>1. Start(y, n) = gregorian_to_fixed(y, 1, 1) + BeforeMonth(n, leap) /\ BeforeMonth(n, leap) \in Int
      BY <1>4, <1>6 DEF Start
    <3> QED BY <1>2, <1>5, <1>6, <1>7, <1>8, <2>1, <3>1 DEF Next12
  <2>2. CASE m = 12
    <3>1. gregorian_to_fixed(z, 1, 1) = gregorian_to_fixed(y, 1, 1) + (IF leap THEN 366 ELSE 365)
      BY <1>5, <1>8, <2>2 DEF Next12
    <3>2. BeforeMonth(m + 1, leap) = IF leap THEN 366 ELSE 365
      BY <1>6, <2>2
    <3>3. n = 1
      BY <1>8, <2>2 DEF Next12
    <3> QED BY <1>2, <1>5, <1>6, <1>7, <3>1, <3>2, <3>3 DEF Start
  <2> QED BY <2>1, <2>2
<1>10. \A d \in Int : gregorian_to_fixed(y, m, d) = Start(y, m) + d - 1
  BY <1>1, SMT DEF gregorian_to_fixed, Start, BeforeMonth, quotient
<1>11. daysPerYear(y) = IF isLeapYear(y) THEN 366 ELSE 365
  BY DEF daysPerYear
<1> QED BY <1>3, <1>7, <1>8, <1>10, <1>11

(* A month begins where the one before it ends. *)
LEMMA NextStarts ==
  ASSUME NEW y \in Int, NEW m \in 1..12, NEW z \in Int, NEW n \in 1..12,
         Next12(y, m, z, n)
  PROVE  /\ daysPerMonth(m, y) \in 28..31 /\ Start(y, m) \in Int
         /\ Start(z, n) = Start(y, m) + daysPerMonth(m, y)
  BY Starts28

(* The days of years: of one from a month on, of 400 and of 40000. *)
LEMMA YearsOn ==
  ASSUME NEW y \in Int, NEW m \in 1..12
  PROVE  /\ Start(y + 1, m) = Start(y, m) + daysPerYear(IF m <= 2 THEN y ELSE y + 1)
         /\ Start(y + 400, m) = Start(y, m) + 146097
         /\ Start(y + 40000, m) = Start(y, m) + 14609700
         /\ daysPerYear(y) \in {365, 366}
<1>1. ASSUME NEW z \in Int
      PROVE  Start(z, m) = 365 * (z - 1) + (z - 1) \div 4 - (z - 1) \div 100 + (z - 1) \div 400 + 1
               + BeforeMonth(m, isLeapYear(z))
  BY January, GregorianMonths, SMT DEF Start
<1>2. \A z \in Int : isLeapYear(z) \in BOOLEAN
  BY January
<1>3. \A leap \in BOOLEAN : BeforeMonth(m, leap) = BeforeMonth(m, FALSE) + IF leap /\ m > 2 THEN 1 ELSE 0
  BY SMT DEF BeforeMonth, quotient
<1>4. BeforeMonth(m, FALSE) \in Int
  BY SMT DEF BeforeMonth, quotient
<1>5. PICK b \in Int : b = BeforeMonth(m, FALSE)
  BY <1>4
<1>6. \A z \in Int :
        Start(z, m) = 365 * (z - 1) + (z - 1) \div 4 - (z - 1) \div 100 + (z - 1) \div 400 + 1
               + b + (IF isLeapYear(z) /\ m > 2 THEN 1 ELSE 0)
  <2> SUFFICES ASSUME NEW z \in Int
               PROVE  Start(z, m) = 365 * (z - 1) + (z - 1) \div 4 - (z - 1) \div 100 + (z - 1) \div 400
                        + 1 + b + (IF isLeapYear(z) /\ m > 2 THEN 1 ELSE 0)
    OBVIOUS
  <2>1. PICK leap \in BOOLEAN : leap = isLeapYear(z)
    BY <1>2
  <2>2. BeforeMonth(m, leap) = b + IF leap /\ m > 2 THEN 1 ELSE 0
    BY <1>3, <1>5
  <2>3. BeforeMonth(m, isLeapYear(z)) = BeforeMonth(m, leap)
    BY <2>1, Zenon
  <2>4. PICK j \in Int : j = BeforeMonth(m, isLeapYear(z)) /\ j = b + IF leap /\ m > 2 THEN 1 ELSE 0
    BY <2>2, <2>3
  <2>5. Start(z, m) = 365 * (z - 1) + (z - 1) \div 4 - (z - 1) \div 100 + (z - 1) \div 400 + 1 + j
    BY <1>1, <2>4, ZenonT(60)
  <2> QED BY <2>1, <2>4, <2>5, SMT
<1>7. \A z \in Int : isLeapYear(z) <=> z % 4 = 0 /\ (z % 100 # 0 \/ z % 400 = 0)
  BY DEF isLeapYear
<1>8. \A z \in Int : daysPerYear(z) = IF isLeapYear(z) THEN 366 ELSE 365
  BY DEF daysPerYear
<1>9. PICK u \in Int : u = y + 1
  OBVIOUS
<1>10. Start(u, m) = Start(y, m) + daysPerYear(IF m <= 2 THEN y ELSE u)
  <2>1. /\ Start(u, m) = 365 * y + y \div 4 - y \div 100 + y \div 400 + 1
               + b + (IF isLeapYear(u) /\ m > 2 THEN 1 ELSE 0)
        /\ Start(y, m) = 365 * (y - 1) + (y - 1) \div 4 - (y - 1) \div 100 + (y - 1) \div 400 + 1
               + b + (IF isLeapYear(y) /\ m > 2 THEN 1 ELSE 0)
    <3>1. u - 1 = y
      BY <1>9
    <3> QED BY <1>6, <3>1
  <2>2. /\ y \div 4 = (y - 1) \div 4 + (IF y % 4 = 0 THEN 1 ELSE 0)
        /\ y \div 100 = (y - 1) \div 100 + (IF y % 100 = 0 THEN 1 ELSE 0)
        /\ y \div 400 = (y - 1) \div 400 + (IF y % 400 = 0 THEN 1 ELSE 0)
    BY SMT
  <2>3. /\ y % 400 = 0 => y % 100 = 0
        /\ y % 100 = 0 => y % 4 = 0
    BY SMT
  <2>4. isLeapYear(y) <=> y % 4 = 0 /\ (y % 100 # 0 \/ y % 400 = 0)
    BY <1>7
  <2>5. /\ daysPerYear(y) = IF isLeapYear(y) THEN 366 ELSE 365
        /\ daysPerYear(u) = IF isLeapYear(u) THEN 366 ELSE 365
        /\ isLeapYear(u) \in BOOLEAN /\ isLeapYear(y) \in BOOLEAN
    BY <1>2, <1>8
  <2>6. (y \div 4) - (y \div 100) + (y \div 400)
          = ((y - 1) \div 4) - ((y - 1) \div 100) + ((y - 1) \div 400) + IF isLeapYear(y) THEN 1 ELSE 0
    BY <2>2, <2>3, <2>4, SMT
  <2> QED BY <2>1, <2>5, <2>6, SMT
<1>11. Start(y + 400, m) = Start(y, m) + 146097
  <2>1. PICK v \in Int : v = y + 400
    OBVIOUS
  <2>2. /\ v % 4 = y % 4 /\ v % 100 = y % 100 /\ v % 400 = y % 400
        /\ (v - 1) \div 4 = (y - 1) \div 4 + 100
        /\ (v - 1) \div 100 = (y - 1) \div 100 + 4
        /\ (v - 1) \div 400 = (y - 1) \div 400 + 1
    BY <2>1, SMT
  <2>3. isLeapYear(v) <=> isLeapYear(y)
    BY <1>7, <2>2
  <2>4. PICK k \in {0, 1} : /\ k = IF isLeapYear(v) /\ m > 2 THEN 1 ELSE 0
                           /\ k = IF isLeapYear(y) /\ m > 2 THEN 1 ELSE 0
    BY <2>3
  <2>5. /\ Start(v, m) = 365 * (v - 1) + (v - 1) \div 4 - (v - 1) \div 100 + (v - 1) \div 400 + 1
               + b + k
        /\ Start(y, m) = 365 * (y - 1) + (y - 1) \div 4 - (y - 1) \div 100 + (y - 1) \div 400 + 1
               + b + k
    BY <1>6, <2>4
  <2> QED BY <2>1, <2>2, <2>5, SMT
<1>12. Start(y + 40000, m) = Start(y, m) + 14609700
  <2>1. PICK v \in Int : v = y + 40000
    OBVIOUS
  <2>2. /\ v % 4 = y % 4 /\ v % 100 = y % 100 /\ v % 400 = y % 400
        /\ (v - 1) \div 4 = (y - 1) \div 4 + 10000
        /\ (v - 1) \div 100 = (y - 1) \div 100 + 400
        /\ (v - 1) \div 400 = (y - 1) \div 400 + 100
    BY <2>1, SMT
  <2>3. isLeapYear(v) <=> isLeapYear(y)
    BY <1>7, <2>2
  <2>4. PICK k \in {0, 1} : /\ k = IF isLeapYear(v) /\ m > 2 THEN 1 ELSE 0
                           /\ k = IF isLeapYear(y) /\ m > 2 THEN 1 ELSE 0
    BY <2>3
  <2>5. /\ Start(v, m) = 365 * (v - 1) + (v - 1) \div 4 - (v - 1) \div 100 + (v - 1) \div 400 + 1
               + b + k
        /\ Start(y, m) = 365 * (y - 1) + (y - 1) \div 4 - (y - 1) \div 100 + (y - 1) \div 400 + 1
               + b + k
    BY <1>6, <2>4
  <2> QED BY <2>1, <2>2, <2>5, SMT
<1>13. daysPerYear(y) \in {365, 366}
  BY <1>8
<1> QED BY <1>9, <1>10, <1>11, <1>12, <1>13

(* A round of the carries keeps the day, and comes nearer to its month. *)
DayNumber(t) == Start(t[1], t[2]) + t[3] - 1

CarriedBack(y, m, d, z, n, e) ==
  /\ CarryBack(<<y, m, d>>) = <<z, n, e>>
  /\ Start(z, n) + e = Start(y, m) + d
  /\ e > d /\ e <= daysPerMonth(n, z)

(* CarryBack: the same day, later in its month than before. *)
LEMMA CarryBackKeeps ==
  ASSUME NEW y \in Int, NEW m \in 1..12, NEW d \in Int, d < 1
  PROVE  \E z \in Int, n \in 1..12, e \in Int : CarriedBack(y, m, d, z, n, e)
<1>1. PICK length \in {365, 366} : length = daysPerYear(IF m <= 2 THEN y - 1 ELSE y)
  <2>1. PICK x \in Int : x = IF m <= 2 THEN y - 1 ELSE y
    OBVIOUS
  <2> QED BY <2>1, YearsOn
<1>2. CASE d <= -14609700
  <2>1. PICK z \in Int : z = y - 40000 /\ y = z + 40000
    OBVIOUS
  <2>2. Start(y, m) = Start(z, m) + 14609700
    BY <2>1, YearsOn
  <2>3. CarryBack(<<y, m, d>>) = <<z, m, d + 14609700>>
    BY <1>1, <1>2, <2>1, SMT DEF CarryBack
  <2>4. Start(z, m) \in Int /\ daysPerMonth(m, z) \in 28..31
    BY Starts28
  <2>5. PICK e \in Int : e = d + 14609700
    OBVIOUS
  <2>6. Start(z, m) + e = Start(y, m) + d /\ e > d /\ e <= daysPerMonth(m, z)
    BY <1>2, <2>2, <2>4, <2>5
  <2> QED BY <2>3, <2>5, <2>6 DEF CarriedBack
<1>3. CASE d > -14609700 /\ d <= -146097
  <2>1. PICK z \in Int : z = y - 400 /\ y = z + 400
    OBVIOUS
  <2>2. Start(y, m) = Start(z, m) + 146097
    BY <2>1, YearsOn
  <2>3. CarryBack(<<y, m, d>>) = <<z, m, d + 146097>>
    BY <1>1, <1>3, <2>1, SMT DEF CarryBack
  <2>4. Start(z, m) \in Int /\ daysPerMonth(m, z) \in 28..31
    BY Starts28
  <2>5. PICK e \in Int : e = d + 146097
    OBVIOUS
  <2>6. Start(z, m) + e = Start(y, m) + d /\ e > d /\ e <= daysPerMonth(m, z)
    BY <1>3, <2>2, <2>4, <2>5
  <2> QED BY <2>3, <2>5, <2>6 DEF CarriedBack
<1>4. CASE d > -146097 /\ d <= -length
  <2>1. PICK z \in Int : z = y - 1 /\ y = z + 1
    OBVIOUS
  <2>2. Start(y, m) = Start(z, m) + length
    <3>1. Start(z + 1, m) = Start(z, m) + daysPerYear(IF m <= 2 THEN z ELSE z + 1)
      BY YearsOn
    <3> QED BY <1>1, <2>1, <3>1
  <2>3. CarryBack(<<y, m, d>>) = <<z, m, d + length>>
    BY <1>1, <1>4, <2>1, SMT DEF CarryBack
  <2>4. Start(z, m) \in Int /\ daysPerMonth(m, z) \in 28..31
    BY Starts28
  <2>5. PICK e \in Int : e = d + length
    OBVIOUS
  <2>6. Start(z, m) + e = Start(y, m) + d /\ e > d /\ e <= daysPerMonth(m, z)
    BY <1>1, <1>4, <2>2, <2>4, <2>5
  <2> QED BY <2>3, <2>5, <2>6 DEF CarriedBack
<1>5. CASE d > -length
  <2>1. PICK z \in Int, n \in 1..12 : /\ z = (IF m = 1 THEN y - 1 ELSE y)
                                      /\ n = (IF m = 1 THEN 12 ELSE m - 1)
    OBVIOUS
  <2>2. /\ daysPerMonth(n, z) \in 28..31 /\ Start(z, n) \in Int
        /\ Start(y, m) = Start(z, n) + daysPerMonth(n, z)
    <3>1. Next12(z, n, y, m)
      BY <2>1 DEF Next12
    <3> QED BY <3>1, NextStarts
  <2>4. PICK e \in Int : e = d + daysPerMonth(n, z)
    BY <2>2
  <2>5. CarryBack(<<y, m, d>>) = <<z, n, e>>
    <3>1. CarryBack(<<y, m, d>>)
            = (IF m = 1 THEN <<y - 1, 12>> ELSE <<y, m - 1>>)
                \o <<d + daysPerMonth((IF m = 1 THEN <<y - 1, 12>> ELSE <<y, m - 1>>)[2],
                                      (IF m = 1 THEN <<y - 1, 12>> ELSE <<y, m - 1>>)[1])>>
      BY <1>1, <1>5, SMT DEF CarryBack
    <3>2. (IF m = 1 THEN <<y - 1, 12>> ELSE <<y, m - 1>>) = <<z, n>>
      BY <2>1
    <3>3. CarryBack(<<y, m, d>>) = <<z, n>> \o <<d + daysPerMonth(n, z)>>
      BY <3>1, <3>2
    <3> QED BY <2>4, <3>3
  <2>6. Start(z, n) + e = Start(y, m) + d /\ e > d /\ e <= daysPerMonth(n, z)
    BY <1>1, <1>5, <2>2, <2>4
  <2> QED BY <2>5, <2>6 DEF CarriedBack
<1> QED BY <1>1, <1>2, <1>3, <1>4, <1>5

CarriedOn(y, m, d, z, n, e) ==
  /\ CarryOn(<<y, m, d>>) = <<z, n, e>>
  /\ Start(z, n) + e = Start(y, m) + d
  /\ e < d /\ e >= 1

(* CarryOn: the same day, with fewer days to go. *)
LEMMA CarryOnKeeps ==
  ASSUME NEW y \in Int, NEW m \in 1..12, NEW d \in Int, d > daysPerMonth(m, y)
  PROVE  \E z \in Int, n \in 1..12, e \in Int : CarriedOn(y, m, d, z, n, e)
<1>1. PICK length \in {365, 366} : length = daysPerYear(IF m <= 2 THEN y ELSE y + 1)
  <2>1. PICK x \in Int : x = IF m <= 2 THEN y ELSE y + 1
    OBVIOUS
  <2> QED BY <2>1, YearsOn
<1>2. CASE d > 14609700
  <2>1. PICK z \in Int : z = y + 40000
    OBVIOUS
  <2>2. Start(z, m) = Start(y, m) + 14609700
    BY <2>1, YearsOn
  <2>3. CarryOn(<<y, m, d>>) = <<z, m, d - 14609700>>
    BY <1>1, <1>2, <2>1, SMT DEF CarryOn
  <2>4. Start(y, m) \in Int
    BY Starts28
  <2>5. PICK e \in Int : e = d - 14609700
    OBVIOUS
  <2>6. Start(z, m) + e = Start(y, m) + d /\ e < d /\ e >= 1
    BY <1>2, <2>2, <2>4, <2>5
  <2> QED BY <2>3, <2>5, <2>6 DEF CarriedOn
<1>3. CASE d <= 14609700 /\ d > 146097
  <2>1. PICK z \in Int : z = y + 400
    OBVIOUS
  <2>2. Start(z, m) = Start(y, m) + 146097
    BY <2>1, YearsOn
  <2>3. CarryOn(<<y, m, d>>) = <<z, m, d - 146097>>
    BY <1>1, <1>3, <2>1, SMT DEF CarryOn
  <2>4. Start(y, m) \in Int
    BY Starts28
  <2>5. PICK e \in Int : e = d - 146097
    OBVIOUS
  <2>6. Start(z, m) + e = Start(y, m) + d /\ e < d /\ e >= 1
    BY <1>3, <2>2, <2>4, <2>5
  <2> QED BY <2>3, <2>5, <2>6 DEF CarriedOn
<1>4. CASE d <= 146097 /\ d > length
  <2>1. PICK z \in Int : z = y + 1
    OBVIOUS
  <2>2. Start(z, m) = Start(y, m) + length
    <3>1. Start(y + 1, m) = Start(y, m) + daysPerYear(IF m <= 2 THEN y ELSE y + 1)
      BY YearsOn
    <3> QED BY <1>1, <2>1, <3>1
  <2>3. CarryOn(<<y, m, d>>) = <<z, m, d - length>>
    BY <1>1, <1>4, <2>1, SMT DEF CarryOn
  <2>4. Start(y, m) \in Int
    BY Starts28
  <2>5. PICK e \in Int : e = d - length
    OBVIOUS
  <2>6. Start(z, m) + e = Start(y, m) + d /\ e < d /\ e >= 1
    BY <1>1, <1>4, <2>2, <2>4, <2>5
  <2> QED BY <2>3, <2>5, <2>6 DEF CarriedOn
<1>5. CASE d <= length
  <2>1. PICK z \in Int, n \in 1..12 : /\ z = (IF m = 12 THEN y + 1 ELSE y)
                                      /\ n = (IF m = 12 THEN 1 ELSE m + 1)
    OBVIOUS
  <2>2. /\ daysPerMonth(m, y) \in 28..31 /\ Start(y, m) \in Int
        /\ Start(z, n) = Start(y, m) + daysPerMonth(m, y)
    <3>1. Next12(y, m, z, n)
      BY <2>1 DEF Next12
    <3> QED BY <3>1, NextStarts
  <2>4. PICK e \in Int : e = d - daysPerMonth(m, y)
    BY <2>2
  <2>5. CarryOn(<<y, m, d>>) = <<z, n, e>>
    <3>1. CarryOn(<<y, m, d>>)
            = (IF m = 12 THEN <<y + 1, 1>> ELSE <<y, m + 1>>) \o <<d - daysPerMonth(m, y)>>
      BY <1>1, <1>5, SMT DEF CarryOn
    <3>2. (IF m = 12 THEN <<y + 1, 1>> ELSE <<y, m + 1>>) = <<z, n>>
      BY <2>1
    <3> QED BY <2>4, <3>1, <3>2
  <2>6. Start(z, n) + e = Start(y, m) + d /\ e < d /\ e >= 1
    BY <2>2, <2>4
  <2> QED BY <2>5, <2>6 DEF CarriedOn
<1> QED BY <1>1, <1>2, <1>3, <1>4, <1>5

(* The functions for earlier and later days run as loops. *)

(* A member of MonthDays, by its year, month and day. *)
LEMMA MonthDaysParts ==
  ASSUME NEW t \in MonthDays
  PROVE  t[1] \in Int /\ t[2] \in 1..12 /\ t[3] \in Int /\ t = <<t[1], t[2], t[3]>>
  BY DEF MonthDays

IsDay(u, z, n, e) == u = <<z, n, e>> /\ u[1] = z /\ u[2] = n /\ u[3] = e

(* A year, a month and a day make a member of MonthDays. *)
LEMMA MonthDay ==
  ASSUME NEW z \in Int, NEW n \in 1..12, NEW e \in Int
  PROVE  \E u \in MonthDays : IsDay(u, z, n, e)
<1>1. <<z, n, e>> \in MonthDays
  BY DEF MonthDays
<1>2. PICK u \in MonthDays : u = <<z, n, e>>
  BY <1>1, Zenon
<1> QED BY <1>2 DEF IsDay

BackDone == {t \in MonthDays : t[3] >= 1}
BackRound == [t \in MonthDays |-> IF t[3] >= 1 THEN t ELSE CarryBack(t)]
OnDone == {t \in MonthDays : t[3] <= daysPerMonth(t[2], t[1])}
OnRound == [t \in MonthDays |-> IF t[3] <= daysPerMonth(t[2], t[1]) THEN t ELSE CarryOn(t)]
Itself == [t \in MonthDays |-> t]

(* The rounds of CarryBack are a loop: days that are missing get fewer. *)
LEMMA BackLoop ==
  \E mu : Loop(MonthDays, MonthDays, BackDone, Itself, BackRound, mu)
<1>1. PICK mu : mu = [t \in MonthDays |-> IF t[3] >= 1 THEN 0 ELSE 1 - t[3]]
  OBVIOUS
<1>2. mu \in [MonthDays -> Nat]
  <2> SUFFICES ASSUME NEW t \in MonthDays PROVE (IF t[3] >= 1 THEN 0 ELSE 1 - t[3]) \in Nat
    BY <1>1
  <2>1. t[3] \in Int
    BY MonthDaysParts
  <2> QED BY <2>1
<1>3. ASSUME NEW t \in MonthDays, t \notin BackDone
      PROVE  BackRound[t] \in MonthDays /\ mu[BackRound[t]] < mu[t]
  <2>1. PICK y \in Int, m \in 1..12, d \in Int : t = <<y, m, d>>
    BY MonthDaysParts
  <2>2. d < 1 /\ t[3] = d
    BY <1>3, <2>1 DEF BackDone
  <2>3. PICK z \in Int, n \in 1..12, e \in Int : CarriedBack(y, m, d, z, n, e)
    BY <2>2, CarryBackKeeps
  <2>4. BackRound[t] = CarryBack(t)
    BY <2>2 DEF BackRound
  <2>5. CarryBack(t) = <<z, n, e>> /\ e > d
    BY <2>1, <2>3 DEF CarriedBack
  <2>60. PICK u \in MonthDays : IsDay(u, z, n, e)
    BY MonthDay
  <2>6. u = <<z, n, e>> /\ u[1] = z /\ u[2] = n /\ u[3] = e
    BY <2>60 DEF IsDay
  <2>7. mu[u] = (IF e >= 1 THEN 0 ELSE 1 - e) /\ mu[t] = 1 - d
    BY <1>1, <2>2, <2>6
  <2> QED BY <2>2, <2>4, <2>5, <2>6, <2>7
<1>4. BackRound \in [MonthDays -> MonthDays]
  <2>1. ASSUME NEW t \in MonthDays PROVE BackRound[t] \in MonthDays
    <3>1. CASE t \in BackDone
      BY <3>1 DEF BackDone, BackRound
    <3> QED BY <1>3, <3>1
  <2> QED BY <2>1 DEF BackRound
<1>5. Itself \in [MonthDays -> MonthDays] /\ BackDone \subseteq MonthDays
  BY DEF Itself, BackDone
<1> QED BY <1>2, <1>3, <1>4, <1>5 DEF Loop

(* The rounds of CarryOn are a loop: days that are too many get fewer. *)
LEMMA OnLoop ==
  \E mu : Loop(MonthDays, MonthDays, OnDone, Itself, OnRound, mu)
<1>1. PICK mu : mu = [t \in MonthDays |-> IF t[3] >= 1 THEN t[3] ELSE 0]
  OBVIOUS
<1>2. mu \in [MonthDays -> Nat]
  <2> SUFFICES ASSUME NEW t \in MonthDays PROVE (IF t[3] >= 1 THEN t[3] ELSE 0) \in Nat
    BY <1>1
  <2>1. t[3] \in Int
    BY MonthDaysParts
  <2> QED BY <2>1
<1>3. ASSUME NEW t \in MonthDays, t \notin OnDone
      PROVE  OnRound[t] \in MonthDays /\ mu[OnRound[t]] < mu[t]
  <2>1. PICK y \in Int, m \in 1..12, d \in Int : t = <<y, m, d>>
    BY MonthDaysParts
  <2>2. t[1] = y /\ t[2] = m /\ t[3] = d
    BY <2>1
  <2>10. ~(d <= daysPerMonth(m, y))
    BY <1>3, <2>2 DEF OnDone
  <2>11. daysPerMonth(m, y) \in 28..31
    BY Starts28
  <2>8. ~(d <= daysPerMonth(m, y)) /\ daysPerMonth(m, y) \in 28..31
    BY <2>10, <2>11
  <2>9. d > daysPerMonth(m, y) /\ d > 28
    BY <2>8
  <2>3. PICK z \in Int, n \in 1..12, e \in Int : CarriedOn(y, m, d, z, n, e)
    BY <2>9, CarryOnKeeps
  <2>4. OnRound[t] = CarryOn(t)
    BY <2>2, <2>8 DEF OnRound
  <2>5. CarryOn(t) = <<z, n, e>> /\ e < d /\ e >= 1
    BY <2>1, <2>3 DEF CarriedOn
  <2>60. PICK u \in MonthDays : IsDay(u, z, n, e)
    BY MonthDay
  <2>6. u = <<z, n, e>> /\ u[1] = z /\ u[2] = n /\ u[3] = e
    BY <2>60 DEF IsDay
  <2>7. mu[u] = e /\ mu[t] = d
    BY <1>1, <2>2, <2>5, <2>6, <2>9
  <2> QED BY <2>4, <2>5, <2>6, <2>7
<1>4. OnRound \in [MonthDays -> MonthDays]
  <2>1. ASSUME NEW t \in MonthDays PROVE OnRound[t] \in MonthDays
    <3>1. CASE t \in OnDone
      BY <3>1 DEF OnDone, OnRound
    <3> QED BY <1>3, <3>1
  <2> QED BY <2>1 DEF OnRound
<1>5. Itself \in [MonthDays -> MonthDays] /\ OnDone \subseteq MonthDays
  BY DEF Itself, OnDone
<1> QED BY <1>2, <1>3, <1>4, <1>5 DEF Loop

(* EarlierDay is defined by that loop. *)
LEMMA EarlierDayRuns == Runs(EarlierDay, MonthDays, BackDone, Itself, BackRound)
<1>1. PICK g \in [MonthDays -> MonthDays] : Runs(g, MonthDays, BackDone, Itself, BackRound)
  BY BackLoop, LoopRuns
<1>2. g = [t \in MonthDays |-> IF t[3] >= 1 THEN t ELSE g[CarryBack(t)]]
  <2>1. \A t \in MonthDays : g[t] = IF t[3] >= 1 THEN t ELSE g[CarryBack(t)]
    BY <1>1 DEF Runs, BackDone, Itself, BackRound
  <2> QED BY <1>1, <2>1
<1>3. EarlierDay = [t \in MonthDays |-> IF t[3] >= 1 THEN t ELSE EarlierDay[CarryBack(t)]]
  BY <1>2, Zenon DEF EarlierDay
<1>4. \A t \in MonthDays : EarlierDay[t] = IF t[3] >= 1 THEN t ELSE EarlierDay[CarryBack(t)]
  BY <1>3
<1> QED BY <1>4 DEF Runs, BackDone, Itself, BackRound

(* LaterDay is defined by that loop. *)
LEMMA LaterDayRuns == Runs(LaterDay, MonthDays, OnDone, Itself, OnRound)
<1>1. PICK g \in [MonthDays -> MonthDays] : Runs(g, MonthDays, OnDone, Itself, OnRound)
  BY OnLoop, LoopRuns
<1>2. g = [t \in MonthDays |-> IF t[3] <= daysPerMonth(t[2], t[1]) THEN t ELSE g[CarryOn(t)]]
  <2>1. \A t \in MonthDays : g[t] = IF t[3] <= daysPerMonth(t[2], t[1]) THEN t ELSE g[CarryOn(t)]
    BY <1>1 DEF Runs, OnDone, Itself, OnRound
  <2> QED BY <1>1, <2>1
<1>3. LaterDay = [t \in MonthDays |-> IF t[3] <= daysPerMonth(t[2], t[1]) THEN t ELSE LaterDay[CarryOn(t)]]
  BY <1>2, Zenon DEF LaterDay
<1>4. \A t \in MonthDays :
        LaterDay[t] = IF t[3] <= daysPerMonth(t[2], t[1]) THEN t ELSE LaterDay[CarryOn(t)]
  BY <1>3
<1> QED BY <1>4 DEF Runs, OnDone, Itself, OnRound

(* The day found is the one meant, and one that its month has. *)
DaysFound(x) == {t \in MonthDays : /\ Start(t[1], t[2]) + t[3] - 1 = x
                                   /\ t[3] >= 1 /\ t[3] <= daysPerMonth(t[2], t[1])}

(* From a day before the end of the month EarlierDay finds the same day in the
   month that has it. *)
LEMMA EarlierDayFound ==
  ASSUME NEW y \in Int, NEW m \in 1..12, NEW d \in Int, d <= daysPerMonth(m, y)
  PROVE  EarlierDay[<<y, m, d>>] \in DaysFound(Start(y, m) + d - 1)
<1>1. PICK x \in Int : x = Start(y, m) + d - 1
  <2>1. Start(y, m) \in Int
    BY Starts28
  <2> QED BY <2>1
<1>2. PICK I : I = {t \in MonthDays : /\ Start(t[1], t[2]) + t[3] - 1 = x
                                      /\ t[3] <= daysPerMonth(t[2], t[1])}
  OBVIOUS
<1>3. I \subseteq MonthDays
  BY <1>2
<1>4. ASSUME NEW t \in I \ BackDone
      PROVE  BackRound[t] \in I
  <2>0. t \in MonthDays
    BY <1>2
  <2>1. PICK a \in Int, b \in 1..12, c \in Int : t = <<a, b, c>>
    BY <2>0, MonthDaysParts
  <2>2. c < 1 /\ t[3] = c /\ t[1] = a /\ t[2] = b
    BY <1>2, <2>1 DEF BackDone
  <2>3. PICK z \in Int, n \in 1..12, e \in Int : CarriedBack(a, b, c, z, n, e)
    BY <2>2, CarryBackKeeps
  <2>4. BackRound[t] = CarryBack(t)
    BY <2>0, <2>2 DEF BackRound
  <2>5. CarryBack(t) = <<z, n, e>> /\ Start(z, n) + e = Start(a, b) + c /\ e <= daysPerMonth(n, z)
    BY <2>1, <2>3 DEF CarriedBack
  <2>6. Start(a, b) + c - 1 = x
    BY <1>2, <2>2
  <2>7. Start(a, b) \in Int /\ Start(z, n) \in Int
    BY Starts28
  <2>8. Start(z, n) + e - 1 = x
    BY <2>5, <2>6, <2>7
  <2>90. PICK u \in MonthDays : IsDay(u, z, n, e)
    BY MonthDay
  <2>9. u = <<z, n, e>> /\ u[1] = z /\ u[2] = n /\ u[3] = e
    BY <2>90 DEF IsDay
  <2>10. u \in I
    BY <1>2, <2>5, <2>8, <2>9
  <2> QED BY <2>4, <2>5, <2>9, <2>10
<1>5. ASSUME NEW t \in I \cap BackDone
      PROVE  Itself[t] \in DaysFound(x)
  BY <1>2 DEF BackDone, Itself, DaysFound
<1>60. PICK t \in MonthDays : IsDay(t, y, m, d)
  BY MonthDay
<1>6. t = <<y, m, d>> /\ t[1] = y /\ t[2] = m /\ t[3] = d
  BY <1>60 DEF IsDay
<1>7. t \in I
  BY <1>1, <1>2, <1>6
<1>8. PICK mu : Loop(MonthDays, MonthDays, BackDone, Itself, BackRound, mu)
  BY BackLoop
<1>9. PICK Q : Q = DaysFound(x)
  OBVIOUS
<1>11. Kept(I, MonthDays, BackDone, BackRound)
  BY <1>3, <1>4 DEF Kept
<1>12. Ends(I, BackDone, Itself, Q)
  BY <1>5, <1>9 DEF Ends
<1>13. Runs(EarlierDay, MonthDays, BackDone, Itself, BackRound)
  BY EarlierDayRuns
<1>14. Gives(EarlierDay, I, Q)
  BY <1>8, <1>11, <1>12, <1>13, LoopKeeps
<1>10. \A v \in I : EarlierDay[v] \in Q
  BY <1>14 DEF Gives
<1> QED BY <1>1, <1>6, <1>7, <1>9, <1>10

(* From a day after the beginning of the month LaterDay finds the same day in the
   month that has it. *)
LEMMA LaterDayFound ==
  ASSUME NEW y \in Int, NEW m \in 1..12, NEW d \in Int, d >= 1
  PROVE  LaterDay[<<y, m, d>>] \in DaysFound(Start(y, m) + d - 1)
<1>1. PICK x \in Int : x = Start(y, m) + d - 1
  <2>1. Start(y, m) \in Int
    BY Starts28
  <2> QED BY <2>1
<1>2. PICK I : I = {t \in MonthDays : Start(t[1], t[2]) + t[3] - 1 = x /\ t[3] >= 1}
  OBVIOUS
<1>3. I \subseteq MonthDays
  BY <1>2
<1>4. ASSUME NEW t \in I \ OnDone
      PROVE  OnRound[t] \in I
  <2>0. t \in MonthDays
    BY <1>2
  <2>1. PICK a \in Int, b \in 1..12, c \in Int : t = <<a, b, c>>
    BY <2>0, MonthDaysParts
  <2>2. t[3] = c /\ t[1] = a /\ t[2] = b
    BY <2>1
  <2>13. ~(c <= daysPerMonth(b, a))
    BY <1>4, <2>0, <2>2 DEF OnDone
  <2>14. daysPerMonth(b, a) \in 28..31
    BY Starts28
  <2>11. ~(c <= daysPerMonth(b, a)) /\ daysPerMonth(b, a) \in 28..31
    BY <2>13, <2>14
  <2>12. c > daysPerMonth(b, a)
    BY <2>11
  <2>3. PICK z \in Int, n \in 1..12, e \in Int : CarriedOn(a, b, c, z, n, e)
    BY <2>12, CarryOnKeeps
  <2>4. OnRound[t] = CarryOn(t)
    BY <2>0, <2>2, <2>11 DEF OnRound
  <2>5. CarryOn(t) = <<z, n, e>> /\ Start(z, n) + e = Start(a, b) + c /\ e >= 1
    BY <2>1, <2>3 DEF CarriedOn
  <2>6. Start(a, b) + c - 1 = x
    BY <1>2, <2>2
  <2>7. Start(a, b) \in Int /\ Start(z, n) \in Int
    BY Starts28
  <2>8. Start(z, n) + e - 1 = x
    BY <2>5, <2>6, <2>7
  <2>90. PICK u \in MonthDays : IsDay(u, z, n, e)
    BY MonthDay
  <2>9. u = <<z, n, e>> /\ u[1] = z /\ u[2] = n /\ u[3] = e
    BY <2>90 DEF IsDay
  <2>10. u \in I
    BY <1>2, <2>5, <2>8, <2>9
  <2> QED BY <2>4, <2>5, <2>9, <2>10
<1>5. ASSUME NEW t \in I \cap OnDone
      PROVE  Itself[t] \in DaysFound(x)
  BY <1>2 DEF OnDone, Itself, DaysFound
<1>60. PICK t \in MonthDays : IsDay(t, y, m, d)
  BY MonthDay
<1>6. t = <<y, m, d>> /\ t[1] = y /\ t[2] = m /\ t[3] = d
  BY <1>60 DEF IsDay
<1>7. t \in I
  BY <1>1, <1>2, <1>6
<1>8. PICK mu : Loop(MonthDays, MonthDays, OnDone, Itself, OnRound, mu)
  BY OnLoop
<1>9. PICK Q : Q = DaysFound(x)
  OBVIOUS
<1>11. Kept(I, MonthDays, OnDone, OnRound)
  BY <1>3, <1>4 DEF Kept
<1>12. Ends(I, OnDone, Itself, Q)
  BY <1>5, <1>9 DEF Ends
<1>13. Runs(LaterDay, MonthDays, OnDone, Itself, OnRound)
  BY LaterDayRuns
<1>14. Gives(LaterDay, I, Q)
  BY <1>8, <1>11, <1>12, <1>13, LoopKeeps
<1>10. \A v \in I : LaterDay[v] \in Q
  BY <1>14 DEF Gives
<1> QED BY <1>1, <1>6, <1>7, <1>9, <1>10

SameTime(a, b) == a.hour = b.hour /\ a.min = b.min /\ a.sec = b.sec

(* A date, by its fields. *)
LEMMA Fields ==
  ASSUME NEW dt, IsValid(dt)
  PROVE  /\ dt \in DateTimes
         /\ dt.year \in Int /\ dt.month \in 1..12 /\ dt.day \in 1..31
         /\ dt.hour \in 0..23 /\ dt.min \in 0..59 /\ dt.sec \in 0..60
         /\ dt.day <= daysPerMonth(dt.month, dt.year)
  BY DEF IsValid, ValidDates, DateTimes

OnDay(dt, y, m, d) == [dt EXCEPT !.year = y, !.month = m, !.day = d]

IsOnDay(e, dt, y, m, d) ==
  e \in DateTimes /\ SameTime(e, dt) /\ e.year = y /\ e.month = m /\ e.day = d

(* Another day and the same time is another date with these fields. *)
LEMMA OtherDay ==
  ASSUME NEW dt \in DateTimes, NEW y \in Int, NEW m \in 1..12, NEW d \in 1..31
  PROVE  IsOnDay(OnDay(dt, y, m, d), dt, y, m, d)
  BY DEF DateTimes, SameTime, OnDay, IsOnDay

(* The number of a date is that of the first of its month, and its day. *)
LEMMA FixedStart ==
  ASSUME NEW dt, IsValid(dt)
  PROVE  Fixed(dt) = Start(dt.year, dt.month) + dt.day - 1 /\ Fixed(dt) \in Int
<1>1. PICK y \in Int, m \in 1..12, d \in Int : y = dt.year /\ m = dt.month /\ d = dt.day
  BY Fields
<1>2. gregorian_to_fixed(y, m, d) = Start(y, m) + d - 1 /\ Start(y, m) \in Int
  BY Starts28
<1> QED BY <1>1, <1>2 DEF Fixed

(* e is n days after dt, at the same time of day. *)
DaysAfter(e, dt, n) == IsValid(e) /\ Fixed(e) = Fixed(dt) + n /\ SameTime(e, dt)

(* addDays moves a date by n days, whichever way it carries. *)
LEMMA AddDaysIsExact ==
  ASSUME NEW dt, IsValid(dt), NEW n \in Int
  PROVE  DaysAfter(addDays(dt, n), dt, n)
<1>1. PICK y \in Int, m \in 1..12, d \in 1..31 : y = dt.year /\ m = dt.month /\ d = dt.day
  BY Fields
<1>2. d <= daysPerMonth(m, y) /\ dt \in DateTimes
  BY <1>1, Fields
<1>3. daysPerMonth(m, y) \in 28..31 /\ Start(y, m) \in Int
  BY Starts28
<1>4. CASE n = 0
  <2>1. addDays(dt, n) = dt
    BY <1>4 DEF addDays
  <2> QED BY <1>4, <2>1, FixedStart DEF DaysAfter, SameTime
<1>5. CASE n # 0
  <2>1. PICK k \in Int : k = d + n
    OBVIOUS
  <2>2. PICK t : t = IF n < 0 THEN EarlierDay[<<y, m, k>>] ELSE LaterDay[<<y, m, k>>]
    OBVIOUS
  <2>3. addDays(dt, n) = [dt EXCEPT !.year = t[1], !.month = t[2], !.day = t[3]]
    BY <1>1, <1>5, <2>1, <2>2 DEF addDays
  <2>4. PICK x \in Int : x = Start(y, m) + k - 1
    BY <1>3
  <2>5. t \in DaysFound(x)
    <3>1. CASE n < 0
      <4>1. k <= daysPerMonth(m, y)
        BY <1>2, <1>3, <2>1, <3>1
      <4>2. EarlierDay[<<y, m, k>>] \in DaysFound(Start(y, m) + k - 1)
        BY <4>1, EarlierDayFound
      <4> QED BY <2>2, <2>4, <3>1, <4>2
    <3>2. CASE ~(n < 0)
      <4>1. k >= 1
        BY <1>2, <1>3, <2>1, <3>2
      <4>2. LaterDay[<<y, m, k>>] \in DaysFound(Start(y, m) + k - 1)
        BY <4>1, LaterDayFound
      <4> QED BY <2>2, <2>4, <3>2, <4>2
    <3> QED BY <3>1, <3>2
  <2>6. PICK a \in Int, b \in 1..12, c \in Int : a = t[1] /\ b = t[2] /\ c = t[3]
    <3>1. t \in MonthDays
      BY <2>5 DEF DaysFound
    <3> QED BY <3>1, MonthDaysParts
  <2>7. Start(a, b) + c - 1 = x /\ c >= 1 /\ c <= daysPerMonth(b, a)
    BY <2>5, <2>6 DEF DaysFound
  <2>8. daysPerMonth(b, a) \in 28..31 /\ Start(a, b) \in Int
    BY Starts28
  <2>9. c \in 1..31
    BY <2>7, <2>8
  <2>10. PICK e : e = OnDay(dt, a, b, c)
    OBVIOUS
  <2>11. addDays(dt, n) = e
    BY <2>3, <2>6, <2>10 DEF OnDay
  <2>12. e \in DateTimes /\ SameTime(e, dt) /\ e.year = a /\ e.month = b /\ e.day = c
    <3>1. IsOnDay(OnDay(dt, a, b, c), dt, a, b, c)
      BY <1>2, <2>9, OtherDay
    <3> QED BY <2>10, <3>1 DEF IsOnDay
  <2>13. IsValid(e)
    BY <2>7, <2>12 DEF IsValid, ValidDates
  <2>14. Fixed(e) = Start(a, b) + c - 1
    BY <2>12, <2>13, FixedStart
  <2>15. Fixed(dt) = Start(y, m) + d - 1
    BY <1>1, FixedStart
  <2>16. Fixed(e) = Fixed(dt) + n
    BY <1>3, <2>1, <2>4, <2>7, <2>14, <2>15
  <2> QED BY <2>11, <2>12, <2>13, <2>16 DEF DaysAfter
<1> QED BY <1>4, <1>5

(* Carried keeps the day that was meant. *)
LEMMA CarriedIsExact ==
  ASSUME NEW dt \in DateTimes
  PROVE  /\ IsValid(Carried(dt)) /\ SameTime(Carried(dt), dt)
         /\ Fixed(Carried(dt)) = gregorian_to_fixed(dt.year, dt.month, dt.day)
<1>1. PICK y \in Int, m \in 1..12, d \in 1..31 : y = dt.year /\ m = dt.month /\ d = dt.day
  BY DEF DateTimes
<1>2. PICK length \in 28..31 : length = daysPerMonth(m, y)
  BY Starts28
<1>3. CASE d <= length
  <2>1. Carried(dt) = dt
    BY <1>1, <1>2, <1>3 DEF Carried
  <2>2. IsValid(dt)
    BY <1>1, <1>2, <1>3 DEF IsValid, ValidDates
  <2> QED BY <2>1, <2>2 DEF Fixed, SameTime
<1>4. CASE d > length
  <2>1. PICK z \in Int, n \in 1..12 : /\ z = (IF m = 12 THEN y + 1 ELSE y)
                                      /\ n = (IF m = 12 THEN 1 ELSE m + 1)
    OBVIOUS
  <2>2. PICK c \in 1..31 : c = d - length /\ c <= 3
    BY <1>2, <1>4
  <2>3. PICK e : e = OnDay(dt, z, n, c)
    OBVIOUS
  <2>4. Carried(dt) = e
    <3>1. Carried(dt) = [dt EXCEPT !.day = dt.day - length,
                      !.month = IF dt.month = 12 THEN 1 ELSE dt.month + 1,
                      !.year = IF dt.month = 12 THEN dt.year + 1 ELSE dt.year]
      BY <1>1, <1>2, <1>4 DEF Carried, DateTimes
    <3>2. Carried(dt) = [dt EXCEPT !.day = c, !.month = n, !.year = z]
      BY <1>1, <2>1, <2>2, <3>1
    <3> QED BY <2>3, <3>2 DEF DateTimes, OnDay
  <2>5. e \in DateTimes /\ SameTime(e, dt) /\ e.year = z /\ e.month = n /\ e.day = c
    <3>1. IsOnDay(OnDay(dt, z, n, c), dt, z, n, c)
      BY OtherDay
    <3> QED BY <2>3, <3>1 DEF IsOnDay
  <2>6. daysPerMonth(n, z) \in 28..31
    BY Starts28
  <2>7. IsValid(e)
    BY <2>2, <2>5, <2>6 DEF IsValid, ValidDates
  <2>8. Next12(y, m, z, n)
    BY <2>1 DEF Next12
  <2>9. Start(z, n) = Start(y, m) + length /\ Start(y, m) \in Int
    BY <1>2, <2>8, NextStarts
  <2>10. Fixed(e) = Start(z, n) + c - 1
    BY <2>5, <2>7, FixedStart
  <2>13. d \in Int
    OBVIOUS
  <2>11. gregorian_to_fixed(y, m, d) = Start(y, m) + d - 1
    BY <2>13, Starts28
  <2>12. Fixed(e) = gregorian_to_fixed(y, m, d)
    BY <2>2, <2>9, <2>10, <2>11
  <2> QED BY <1>1, <2>4, <2>5, <2>7, <2>12
<1> QED BY <1>2, <1>3, <1>4

(* C division, and its remainder, which has the sign of the dividend. *)
LEMMA RemainderIs ==
  ASSUME NEW n \in Int, NEW d \in {7, 12, 24, 60}
  PROVE  /\ Truncated(n, d) \in Int /\ Remainder(n, d) \in Int
         /\ n = d * Truncated(n, d) + Remainder(n, d)
         /\ Remainder(n, d) > -d /\ Remainder(n, d) < d
         /\ n >= 0 => Remainder(n, d) >= 0 /\ Truncated(n, d) >= 0
         /\ n <= 0 => Remainder(n, d) <= 0 /\ Truncated(n, d) <= 0
<1>1. CASE d = 7
  BY <1>1, SMT DEF Remainder, Truncated
<1>2. CASE d = 12
  BY <1>2, SMT DEF Remainder, Truncated
<1>3. CASE d = 24
  BY <1>3, SMT DEF Remainder, Truncated
<1>4. CASE d = 60
  BY <1>4, SMT DEF Remainder, Truncated
<1> QED BY <1>1, <1>2, <1>3, <1>4

(* C division by the months of a year, the hours of a day and 60. *)
LEMMA RemainderOf ==
  ASSUME NEW n \in Int
  PROVE  /\ \E q \in Int, r \in Int : /\ q = Truncated(n, 12) /\ r = Remainder(n, 12)
                                      /\ n = 12 * q + r /\ r > -12 /\ r < 12
         /\ \E q \in Int, r \in Int : /\ q = Truncated(n, 24) /\ r = Remainder(n, 24)
                                      /\ n = 24 * q + r /\ r > -24 /\ r < 24
         /\ \E q \in Int, r \in Int : /\ q = Truncated(n, 60) /\ r = Remainder(n, 60)
                                      /\ n = 60 * q + r /\ r > -60 /\ r < 60
<1>1. PICK a \in {7, 12, 24, 60}, b \in {7, 12, 24, 60}, c \in {7, 12, 24, 60} :
        a = 12 /\ b = 24 /\ c = 60
  OBVIOUS
<1>2. /\ Truncated(n, a) \in Int /\ Remainder(n, a) \in Int
      /\ n = a * Truncated(n, a) + Remainder(n, a)
      /\ Remainder(n, a) > -a /\ Remainder(n, a) < a
  BY RemainderIs, ZenonT(60)
<1>3. /\ Truncated(n, b) \in Int /\ Remainder(n, b) \in Int
      /\ n = b * Truncated(n, b) + Remainder(n, b)
      /\ Remainder(n, b) > -b /\ Remainder(n, b) < b
  BY RemainderIs, ZenonT(60)
<1>4. /\ Truncated(n, c) \in Int /\ Remainder(n, c) \in Int
      /\ n = c * Truncated(n, c) + Remainder(n, c)
      /\ Remainder(n, c) > -c /\ Remainder(n, c) < c
  BY RemainderIs, ZenonT(60)
<1> QED BY <1>1, <1>2, <1>3, <1>4

(* e is a date as many months after dt, in its month or carried into the next. *)
MonthsAfter(e, dt, n) ==
  /\ IsValid(e) /\ SameTime(e, dt)
  /\ \E y \in Int, m \in 1..12 : /\ 12 * y + m - 1 = 12 * dt.year + dt.month - 1 + n
                                 /\ Fixed(e) = gregorian_to_fixed(y, m, dt.day)

(* A date put into another month and carried is as many months later. *)
LEMMA CarriedMonths ==
  ASSUME NEW dt, IsValid(dt), NEW n \in Int, NEW y \in Int, NEW m \in 1..12,
         12 * y + m - 1 = 12 * dt.year + dt.month - 1 + n
  PROVE  MonthsAfter(Carried(OnDay(dt, y, m, dt.day)), dt, n)
<1>1. PICK d \in 1..31 : d = dt.day
  BY Fields
<1>2. PICK e : e = OnDay(dt, y, m, d)
  OBVIOUS
<1>3. IsOnDay(e, dt, y, m, d)
  BY <1>2, Fields, OtherDay
<1>4. e \in DateTimes /\ SameTime(e, dt) /\ e.year = y /\ e.month = m /\ e.day = d
  BY <1>3 DEF IsOnDay
<1>5. /\ IsValid(Carried(e)) /\ SameTime(Carried(e), e)
      /\ Fixed(Carried(e)) = gregorian_to_fixed(y, m, d)
  BY <1>4, CarriedIsExact
<1>6. SameTime(Carried(e), dt)
  BY <1>4, <1>5 DEF SameTime
<1> QED BY <1>1, <1>2, <1>5, <1>6 DEF MonthsAfter

(* addMonths and addYears move a date by months and years. *)
LEMMA AddMonthsIsExact ==
  ASSUME NEW dt, IsValid(dt), NEW n \in Int
  PROVE  MonthsAfter(addMonths(dt, n), dt, n)
<1>1. PICK a \in Int, b \in 1..12, d \in 1..31 : a = dt.year /\ b = dt.month /\ d = dt.day
  BY Fields
<1>11. b \in Int
  OBVIOUS
<1>2. dt \in DateTimes
  BY Fields
<1>3. PICK q \in Int, r \in Int : /\ q = Truncated(n, 12) /\ r = Remainder(n, 12)
                                  /\ n = 12 * q + r /\ r > -12 /\ r < 12
  BY RemainderOf
<1>12. n = 12 * q + r /\ r > -12 /\ r < 12
  BY <1>3
<1>4. PICK carry \in Int : carry = IF b + r > 12 THEN 1 ELSE IF b + r < 1 THEN -1 ELSE 0
  OBVIOUS
<1>10. (b + r) - 12 * carry \in 1..12
  <2>1. \/ carry = 1 /\ b + r > 12
        \/ carry = -1 /\ b + r < 1
        \/ carry = 0 /\ b + r >= 1 /\ b + r <= 12
    BY <1>4, <1>11
  <2> QED BY <1>11, <1>12, <2>1
<1>5. PICK y \in Int, m \in 1..12 : y = a + q + carry /\ m = (b + r) - 12 * carry
  BY <1>3, <1>4, <1>10
<1>6. addMonths(dt, n) = Carried([dt EXCEPT !.year = dt.year + q + carry, !.month = (b + r) - 12 * carry])
  <2>1. PICK k \in Int : k = dt.month + Remainder(n, 12) /\ k = b + r
    BY <1>1, <1>3, <1>11
  <2>2. carry = IF k > 12 THEN 1 ELSE IF k < 1 THEN -1 ELSE 0
    BY <1>4, <2>1
  <2>3. addMonths(dt, n)
          = Carried([dt EXCEPT !.year = dt.year + Truncated(n, 12) + carry, !.month = k - 12 * carry])
    BY <2>1, <2>2 DEF addMonths
  <2>4. Truncated(n, 12) = q
    BY <1>3
  <2>5. k = b + r
    BY <2>1
  <2> QED BY <2>3, <2>4, <2>5, Zenon
<1>7. [dt EXCEPT !.year = dt.year + q + carry, !.month = (b + r) - 12 * carry] = OnDay(dt, y, m, dt.day)
  BY <1>1, <1>2, <1>5 DEF OnDay, DateTimes
<1>8. 12 * y + m - 1 = 12 * dt.year + dt.month - 1 + n
  <2>1. 12 * y + m - 1 = 12 * a + b - 1 + n
    BY <1>5, <1>11, <1>12
  <2> QED BY <1>1, <2>1
<1>9. MonthsAfter(Carried(OnDay(dt, y, m, dt.day)), dt, n)
  BY <1>8, CarriedMonths
<1> QED BY <1>6, <1>7, <1>9

(* addYears moves a date by twelve months a year. *)
LEMMA AddYearsIsExact ==
  ASSUME NEW dt, IsValid(dt), NEW n \in Int
  PROVE  MonthsAfter(addYears(dt, n), dt, 12 * n)
<1>1. PICK a \in Int, m \in 1..12, d \in 1..31 : a = dt.year /\ m = dt.month /\ d = dt.day
  BY Fields
<1>2. dt \in DateTimes
  BY Fields
<1>3. PICK y \in Int, k \in Int : y = a + n /\ k = 12 * n
  OBVIOUS
<1>4. addYears(dt, n) = Carried(OnDay(dt, y, m, dt.day))
  <2>1. [dt EXCEPT !.year = dt.year + n] = OnDay(dt, y, m, dt.day)
    BY <1>1, <1>2, <1>3 DEF OnDay, DateTimes
  <2>2. addYears(dt, n) = Carried([dt EXCEPT !.year = dt.year + n])
    BY DEF addYears
  <2> QED BY <2>1, <2>2
<1>5. 12 * y + m - 1 = 12 * dt.year + dt.month - 1 + k
  BY <1>1, <1>3
<1>6. MonthsAfter(Carried(OnDay(dt, y, m, dt.day)), dt, k)
  BY <1>5, CarriedMonths
<1> QED BY <1>3, <1>4, <1>6

(* The clock of a date. *)
AtTime(dt, h, min, s) == [dt EXCEPT !.hour = h, !.min = min, !.sec = s]

IsAtTime(e, dt, h, min, s) ==
  /\ IsValid(e) /\ Fixed(e) = Fixed(dt)
  /\ e.year = dt.year /\ e.month = dt.month /\ e.day = dt.day
  /\ e.hour = h /\ e.min = min /\ e.sec = s

(* Another time on the same day is a date with these fields. *)
LEMMA OtherTime ==
  ASSUME NEW dt, IsValid(dt), NEW h \in 0..23, NEW min \in 0..59, NEW s \in 0..60
  PROVE  IsAtTime(AtTime(dt, h, min, s), dt, h, min, s)
<1>1. PICK e : e = AtTime(dt, h, min, s)
  OBVIOUS
<1>2. /\ e \in DateTimes /\ e.year = dt.year /\ e.month = dt.month /\ e.day = dt.day
      /\ e.hour = h /\ e.min = min /\ e.sec = s
  <2>1. dt \in DateTimes
    BY Fields
  <2> QED BY <1>1, <2>1 DEF DateTimes, AtTime
<1>3. IsValid(e)
  BY <1>2, Fields DEF IsValid, ValidDates
<1> QED BY <1>1, <1>2, <1>3 DEF IsAtTime, Fixed

(* e is n minutes after dt, and in second s. *)
MinutesAfter(e, dt, n, s) ==
  IsValid(e) /\ MinutesUTC(e) = MinutesUTC(dt) + n /\ e.sec = s

(* The minutes of a date are a number. *)
LEMMA MinutesOf ==
  ASSUME NEW dt, IsValid(dt)
  PROVE  /\ MinutesUTC(dt) = 1440 * (Fixed(dt) - Start(2000, 1)) + 60 * dt.hour + dt.min - Zone
         /\ MinutesUTC(dt) \in Int /\ Start(2000, 1) \in Int
<1>1. PICK y \in Int, m \in 1..12 : y = 2000 /\ m = 1
  OBVIOUS
<1>2. Start(y, m) \in Int
  BY Starts28
<1>3. Zone \in Int
  BY DatesAssumption
<1>4. Fixed(dt) \in Int /\ dt.hour \in Int /\ dt.min \in Int
  BY Fields, FixedStart
<1> QED BY <1>1, <1>2, <1>3, <1>4 DEF MinutesUTC, Start

SecondWithout(dt, remove) == IF remove /\ dt.sec >= 60 THEN dt.sec - 1 ELSE dt.sec

CarryOf(x, k) == IF x >= k THEN 1 ELSE IF x < 0 THEN -1 ELSE 0

MinutesCarry(dt, n, x, carry, hours, z, over) ==
  /\ x = dt.min + Remainder(n, 60) /\ carry = CarryOf(x, 60)
  /\ hours = Truncated(n, 60) + carry
  /\ z = dt.hour + Remainder(hours, 24) /\ over = CarryOf(z, 24)

AfterCarry(dt, remove, x, carry, hours, z, over) ==
  addDays([dt EXCEPT !.sec = IF remove /\ dt.sec >= 60 THEN dt.sec - 1 ELSE dt.sec,
                     !.min = x - 60 * carry, !.hour = z - 24 * over],
          Truncated(hours, 24) + over)

(* PlainMinutes, by the carries that it makes. *)
LEMMA PlainMinutesBy ==
  ASSUME NEW dt, NEW n, NEW remove, NEW x, NEW carry, NEW hours, NEW z, NEW over,
         MinutesCarry(dt, n, x, carry, hours, z, over)
  PROVE  PlainMinutes(dt, n, remove) = AfterCarry(dt, remove, x, carry, hours, z, over)
  BY DEF PlainMinutes, CarryOf, MinutesCarry, AfterCarry

(* Its carries into the hour and the day make n minutes. *)
LEMMA PlainMinutesIsExact ==
  ASSUME NEW dt, IsValid(dt), NEW n \in Int, NEW remove \in BOOLEAN
  PROVE  MinutesAfter(PlainMinutes(dt, n, remove), dt, n, SecondWithout(dt, remove))
<1>1. PICK h \in 0..23, mi \in 0..59, s \in 0..60 : h = dt.hour /\ mi = dt.min /\ s = dt.sec
  BY Fields
<1>20. h \in Int /\ mi \in Int
  OBVIOUS
<1>2. PICK q \in Int, r \in Int : /\ q = Truncated(n, 60) /\ r = Remainder(n, 60)
                                  /\ n = 60 * q + r /\ r > -60 /\ r < 60
  BY RemainderOf
<1>22. n = 60 * q + r /\ r > -60 /\ r < 60
  BY <1>2
<1>3. PICK carry \in Int : carry = IF mi + r >= 60 THEN 1 ELSE IF mi + r < 0 THEN -1 ELSE 0
  OBVIOUS
<1>4. PICK hours \in Int : hours = q + carry
  OBVIOUS
<1>5. PICK p \in Int, t \in Int : /\ p = Truncated(hours, 24) /\ t = Remainder(hours, 24)
                                  /\ hours = 24 * p + t /\ t > -24 /\ t < 24
  BY RemainderOf
<1>23. hours = 24 * p + t /\ t > -24 /\ t < 24
  BY <1>5
<1>6. PICK over \in Int : over = IF h + t >= 24 THEN 1 ELSE IF h + t < 0 THEN -1 ELSE 0
  OBVIOUS
<1>7. PICK k \in Int : k = p + over
  OBVIOUS
<1>8. PICK b \in 0..23, c \in 0..59 : b = (h + t) - 24 * over /\ c = (mi + r) - 60 * carry
  <2>1. \/ carry = 1 /\ mi + r >= 60
        \/ carry = -1 /\ mi + r < 0
        \/ carry = 0 /\ mi + r >= 0 /\ mi + r < 60
    BY <1>3, <1>20
  <2>2. (mi + r) - 60 * carry \in 0..59
    BY <1>20, <1>22, <2>1
  <2>3. \/ over = 1 /\ h + t >= 24
        \/ over = -1 /\ h + t < 0
        \/ over = 0 /\ h + t >= 0 /\ h + t < 24
    BY <1>6, <1>20
  <2>4. (h + t) - 24 * over \in 0..23
    BY <1>20, <1>23, <2>3
  <2> QED BY <2>2, <2>4
<1>21. b \in Int /\ c \in Int
  OBVIOUS
<1>9. PICK w \in 0..60 : w = SecondWithout(dt, remove)
  BY <1>1 DEF SecondWithout
<1>10. PlainMinutes(dt, n, remove) = addDays(AtTime(dt, b, c, w), k)
  <2>1. PlainMinutes(dt, n, remove) =
          addDays([dt EXCEPT !.sec = IF remove /\ dt.sec >= 60 THEN dt.sec - 1 ELSE dt.sec,
                             !.min = (mi + r) - 60 * carry, !.hour = (h + t) - 24 * over], p + over)
    <3>1. mi + r = dt.min + Remainder(n, 60) /\ q = Truncated(n, 60)
      BY <1>1, <1>2
    <3>2. h + t = dt.hour + Remainder(hours, 24) /\ p = Truncated(hours, 24)
      BY <1>1, <1>5
    <3>3. PICK x \in Int, z \in Int : /\ x = dt.min + Remainder(n, 60) /\ x = mi + r
                                     /\ z = dt.hour + Remainder(hours, 24) /\ z = h + t
      BY <1>20, <3>1, <3>2
    <3>4. carry = CarryOf(x, 60)
      BY <1>3, <3>3 DEF CarryOf
    <3>5. hours = Truncated(n, 60) + carry
      BY <1>4, <3>1
    <3>6. over = CarryOf(z, 24)
      BY <1>6, <3>3 DEF CarryOf
    <3>9. x = dt.min + Remainder(n, 60) /\ z = dt.hour + Remainder(hours, 24)
      BY <3>3
    <3>7. PlainMinutes(dt, n, remove) =
            addDays([dt EXCEPT !.sec = IF remove /\ dt.sec >= 60 THEN dt.sec - 1 ELSE dt.sec,
                               !.min = x - 60 * carry, !.hour = z - 24 * over],
                    Truncated(hours, 24) + over)
      <4>1. MinutesCarry(dt, n, x, carry, hours, z, over)
        BY <3>4, <3>5, <3>6, <3>9 DEF MinutesCarry
      <4>2. PlainMinutes(dt, n, remove) = AfterCarry(dt, remove, x, carry, hours, z, over)
        BY <4>1, PlainMinutesBy
      <4> QED BY <4>2, Zenon DEF AfterCarry
    <3>8. x = mi + r /\ z = h + t /\ Truncated(hours, 24) = p
      BY <3>2, <3>3
    <3> QED BY <3>7, <3>8, Zenon
  <2>2. PlainMinutes(dt, n, remove) = addDays([dt EXCEPT !.sec = w, !.min = c, !.hour = b], k)
    BY <1>7, <1>8, <1>9, <2>1 DEF SecondWithout
  <2>3. [dt EXCEPT !.sec = w, !.min = c, !.hour = b] = AtTime(dt, b, c, w)
    BY Fields DEF AtTime, DateTimes
  <2> QED BY <2>2, <2>3
<1>11. PICK u : u = AtTime(dt, b, c, w)
  OBVIOUS
<1>12. IsValid(u) /\ Fixed(u) = Fixed(dt) /\ u.hour = b /\ u.min = c /\ u.sec = w
  <2>1. IsAtTime(AtTime(dt, b, c, w), dt, b, c, w)
    BY OtherTime
  <2> QED BY <1>11, <2>1 DEF IsAtTime
<1>13. PICK e : e = addDays(u, k)
  OBVIOUS
<1>14. IsValid(e) /\ Fixed(e) = Fixed(u) + k /\ e.hour = b /\ e.min = c /\ e.sec = w
  <2>1. DaysAfter(e, u, k)
    BY <1>12, <1>13, AddDaysIsExact
  <2> QED BY <1>12, <2>1 DEF DaysAfter, SameTime
<1>15. PICK f \in Int, o \in Int : f = Fixed(dt) /\ o = Start(2000, 1)
  BY FixedStart, MinutesOf
<1>16. MinutesUTC(dt) = 1440 * (f - o) + 60 * h + mi - Zone /\ Zone \in Int
  BY <1>1, <1>15, MinutesOf, DatesAssumption
<1>17. MinutesUTC(e) = 1440 * (f + k - o) + 60 * b + c - Zone
  BY <1>12, <1>14, <1>15, MinutesOf
<1>18. MinutesUTC(e) = MinutesUTC(dt) + n
  <2>1. 60 * b + c + 1440 * k = 60 * h + mi + n
    <3>1. b = (h + t) - 24 * over /\ c = (mi + r) - 60 * carry /\ k = p + over /\ hours = q + carry
      BY <1>4, <1>7, <1>8
    <3>2. 60 * b = 60 * h + 60 * t - 1440 * over
      BY <1>20, <1>21, <3>1
    <3>3. 60 * (q + carry) = 1440 * p + 60 * t
      BY <1>23, <3>1
    <3>4. 60 * q = 1440 * p + 60 * t - 60 * carry
      BY <3>3
    <3> QED BY <1>20, <1>21, <1>22, <3>1, <3>2, <3>4
  <2> QED BY <1>16, <1>17, <2>1
<1> QED BY <1>9, <1>10, <1>11, <1>13, <1>14, <1>18 DEF MinutesAfter

------------------------------------------------------------------------------
(* Minutes and seconds are added to a time with no leap seconds *)

(* The seconds of a date, as if every day had 86400. *)
Plain(u) == 86400 * Fixed(u) + 3600 * u.hour + 60 * u.min + u.sec

PlainZero == 60 * Zone + 86400 * Start(2000, 1)

(* The time of day of a date, within its bounds. *)
LEMMA Clock ==
  ASSUME NEW u, IsValid(u)
  PROVE  \E h \in Int, m \in Int, s \in Int :
           /\ h = u.hour /\ m = u.min /\ s = u.sec
           /\ h >= 0 /\ h <= 23 /\ m >= 0 /\ m <= 59 /\ s >= 0 /\ s <= 60
<1>1. PICK h \in 0..23, m \in 0..59, s \in 0..60 : h = u.hour /\ m = u.min /\ s = u.sec
  BY Fields
<1>2. /\ h \in Int /\ m \in Int /\ s \in Int
      /\ h >= 0 /\ h <= 23 /\ m >= 0 /\ m <= 59 /\ s >= 0 /\ s <= 60
  OBVIOUS
<1> QED BY <1>1, <1>2

(* The seconds and the day of a date are numbers. *)
LEMMA PlainInt ==
  ASSUME NEW u, IsValid(u)
  PROVE  Plain(u) \in Int /\ Fixed(u) \in Int
<1>1. PICK h \in Int, m \in Int, s \in Int : h = u.hour /\ m = u.min /\ s = u.sec
  BY Clock
<1>2. PICK f \in Int : f = Fixed(u)
  BY FixedStart
<1> QED BY <1>1, <1>2, SMT DEF Plain

(* The seconds of a date, from its minutes. *)
LEMMA PlainMinutesUTC ==
  ASSUME NEW u, IsValid(u)
  PROVE  Plain(u) = 60 * MinutesUTC(u) + PlainZero + u.sec /\ PlainZero \in Int
<1>1. PICK h \in Int, m \in Int, s \in Int : h = u.hour /\ m = u.min /\ s = u.sec
  BY Clock
<1>2. PICK f \in Int, o \in Int, z \in Int : f = Fixed(u) /\ o = Start(2000, 1) /\ z = Zone
  BY FixedStart, MinutesOf, DatesAssumption
<1>3. MinutesUTC(u) = 1440 * (f - o) + 60 * h + m - z
  BY <1>1, <1>2, MinutesOf
<1>4. Plain(u) = 86400 * f + 3600 * h + 60 * m + s
  BY <1>1, <1>2, SMT DEF Plain
<1>5. PICK p \in Int : p = 60 * z + 86400 * o
  OBVIOUS
<1>6. PlainZero = p
  BY <1>2, <1>5, SMT DEF PlainZero
<1>7. PICK k \in Int : k = MinutesUTC(u) /\ k = 1440 * (f - o) + 60 * h + m - z
  BY <1>3
<1>8. Plain(u) = 60 * k + p + s
  BY <1>4, <1>5, <1>7, SMT
<1> QED BY <1>1, <1>6, <1>7, <1>8

FullSecond(u) == SecondOfDay(u, FALSE)

SecondsInto(u, d) ==
  /\ FullSecond(u) = d /\ Plain(u) = 86400 * Fixed(u) + d
  /\ d >= 0 /\ d <= 86400 /\ (u.sec <= 59 => d < 86400)

(* The seconds of a date, from the midnight before it. *)
LEMMA PlainDay ==
  ASSUME NEW u, IsValid(u)
  PROVE  \E d \in Int : SecondsInto(u, d)
<1>1. PICK h \in Int, m \in Int, s \in Int :
           /\ h = u.hour /\ m = u.min /\ s = u.sec
           /\ h >= 0 /\ h <= 23 /\ m >= 0 /\ m <= 59 /\ s >= 0 /\ s <= 60
  BY Clock
<1>2. PICK f \in Int : f = Fixed(u)
  BY FixedStart
<1>3. PICK d \in Int : d = 3600 * h + 60 * m + s
  OBVIOUS
<1>4. Plain(u) = 86400 * f + d
  BY <1>1, <1>2, <1>3, SMT DEF Plain
<1>5. FullSecond(u) = d
  BY <1>1, <1>3, SMT DEF SecondOfDay, FullSecond
<1>6. d >= 0 /\ d <= 86400 /\ (s <= 59 => d < 86400)
  BY <1>1, <1>3, SMT
<1>7. SecondsInto(u, d)
  <2>1. s = u.sec
    BY <1>1
  <2>2. u.sec <= 59 => d < 86400
    BY <1>6, <2>1, SMT
  <2>3. Plain(u) = 86400 * Fixed(u) + d
    BY <1>2, <1>4, SMT
  <2> QED BY <1>5, <1>6, <2>2, <2>3, SMT DEF SecondsInto
<1> QED BY <1>7

(* e is n seconds after u, as if there were no leap seconds, and in none. *)
SecondsAfter(e, u, n) ==
  IsValid(e) /\ Plain(e) = Plain(u) + n /\ (n # 0 => e.sec <= 59) /\ (n = 0 => e = u)

(* PlainSeconds moves a date by n seconds, over minutes and days. *)
LEMMA PlainSecondsIsExact ==
  ASSUME NEW u, IsValid(u), NEW n \in Int
  PROVE  SecondsAfter(PlainSeconds(u, n), u, n)
<1>1. PICK h \in 0..23, m \in 0..59, s \in 0..60 : h = u.hour /\ m = u.min /\ s = u.sec
  BY Fields
<1>11. h \in Int /\ m \in Int /\ s \in Int
  OBVIOUS
<1>2. PICK k \in Int : k = s + n
  OBVIOUS
<1>3. CASE n = 0
  <2>1. PlainSeconds(u, n) = u
    BY <1>3 DEF PlainSeconds
  <2>2. Plain(u) \in Int
    BY PlainInt
  <2> QED BY <1>3, <2>1, <2>2, SMT DEF SecondsAfter
<1>4. PICK q \in Int, r \in Int : q = k \div 60 /\ r = k % 60 /\ k = 60 * q + r /\ r >= 0 /\ r <= 59
  BY SMT
<1>5. r \in 0..60
  BY <1>4
<1>6. PICK v : v = [u EXCEPT !.sec = r]
  OBVIOUS
<1>7. IsValid(v) /\ Fixed(v) = Fixed(u) /\ v.hour = h /\ v.min = m /\ v.sec = r
  <2>1. u \in DateTimes
    BY Fields
  <2>2. v = AtTime(u, h, m, r)
    BY <1>1, <1>6, <2>1 DEF AtTime, DateTimes
  <2>3. IsAtTime(AtTime(u, h, m, r), u, h, m, r)
    BY <1>5, OtherTime
  <2> QED BY <2>2, <2>3 DEF IsAtTime
<1>8. Plain(v) = Plain(u) + r - s /\ Plain(u) \in Int
  <2>1. PICK f \in Int : f = Fixed(u)
    BY FixedStart
  <2>2. Plain(v) = 86400 * f + 3600 * h + 60 * m + r /\ Plain(u) = 86400 * f + 3600 * h + 60 * m + s
    BY <1>1, <1>7, <2>1, SMT DEF Plain
  <2>3. PICK g \in Int : g = 86400 * f + 3600 * h + 60 * m
    BY <1>11
  <2>4. Plain(v) = g + r /\ Plain(u) = g + s
    BY <2>2, <2>3
  <2> QED BY <1>11, <2>4
<1>9. CASE n # 0 /\ k \in 0..59
  <2>1. PlainSeconds(u, n) = [u EXCEPT !.sec = k]
    BY <1>1, <1>2, <1>9 DEF PlainSeconds
  <2>2. r = k
    BY <1>4, <1>9
  <2>3. PlainSeconds(u, n) = v
    BY <1>6, <2>1, <2>2
  <2>4. Plain(v) = Plain(u) + n
    BY <1>1, <1>2, <1>8, <2>2
  <2> QED BY <1>4, <1>7, <1>9, <2>3, <2>4 DEF SecondsAfter
<1>10. CASE n # 0 /\ k \notin 0..59
  <2>1. PlainSeconds(u, n) = PlainMinutes(v, q, FALSE)
    BY <1>1, <1>2, <1>4, <1>6, <1>10 DEF PlainSeconds
  <2>2. PICK remove \in BOOLEAN : remove = FALSE
    OBVIOUS
  <2>3. PICK e : e = PlainMinutes(v, q, remove)
    OBVIOUS
  <2>4. MinutesAfter(e, v, q, SecondWithout(v, remove))
    BY <1>7, <2>3, PlainMinutesIsExact
  <2>5. IsValid(e) /\ MinutesUTC(e) = MinutesUTC(v) + q /\ e.sec = r
    BY <1>7, <2>2, <2>4 DEF MinutesAfter, SecondWithout
  <2>6. Plain(e) = 60 * MinutesUTC(e) + PlainZero + r
    BY <2>5, PlainMinutesUTC
  <2>7. Plain(v) = 60 * MinutesUTC(v) + PlainZero + r /\ PlainZero \in Int
    BY <1>7, PlainMinutesUTC
  <2>8. MinutesUTC(v) \in Int
    BY <1>7, MinutesOf
  <2>9. Plain(e) = Plain(v) + 60 * q
    BY <2>5, <2>6, <2>7, <2>8
  <2>10. Plain(e) = Plain(u) + n
    BY <1>2, <1>4, <1>8, <1>11, <2>9
  <2> QED BY <1>4, <1>10, <2>1, <2>2, <2>3, <2>5, <2>10 DEF SecondsAfter
<1> QED BY <1>3, <1>9, <1>10

(* The same time in UTC, and back. *)
LEMMA ToUTCIsExact ==
  ASSUME NEW dt, IsValid(dt)
  PROVE  MinutesAfter(ToUTC(dt), dt, -Zone, dt.sec) /\ MinutesAfter(ToLocal(dt), dt, Zone, dt.sec)
<1>1. PICK remove \in BOOLEAN : remove = FALSE
  OBVIOUS
<1>2. SecondWithout(dt, remove) = dt.sec
  BY <1>1 DEF SecondWithout
<1>3. PICK n \in Int, z \in Int : z = Zone /\ n = -Zone
  BY DatesAssumption
<1>4. MinutesAfter(PlainMinutes(dt, n, remove), dt, n, dt.sec)
  BY <1>2, PlainMinutesIsExact
<1>5. MinutesAfter(PlainMinutes(dt, z, remove), dt, z, dt.sec)
  BY <1>2, PlainMinutesIsExact
<1> QED BY <1>1, <1>3, <1>4, <1>5 DEF ToUTC, ToLocal

(* Both conversions leave the second alone and move the minutes by the time zone. *)
LEMMA ToUTCs ==
  ASSUME NEW dt, IsValid(dt)
  PROVE  /\ IsValid(ToUTC(dt)) /\ ToUTC(dt).sec = dt.sec
         /\ MinutesUTC(ToUTC(dt)) = MinutesUTC(dt) - Zone
         /\ IsValid(ToLocal(dt)) /\ ToLocal(dt).sec = dt.sec
         /\ MinutesUTC(ToLocal(dt)) = MinutesUTC(dt) + Zone
<1>1. MinutesAfter(ToUTC(dt), dt, -Zone, dt.sec) /\ MinutesAfter(ToLocal(dt), dt, Zone, dt.sec)
  BY ToUTCIsExact
<1>2. MinutesUTC(dt) \in Int /\ Zone \in Int
  BY MinutesOf, DatesAssumption
<1> QED BY <1>1, <1>2 DEF MinutesAfter

(* addMinutes moves a date by n minutes; only a leap second is lost. *)
LEMMA AddMinutesIsExact ==
  ASSUME NEW dt, IsValid(dt), NEW n \in Int
  PROVE  MinutesAfter(addMinutes(dt, n), dt, n, IF dt.sec = 60 THEN 59 ELSE dt.sec)
<1>1. PICK remove \in BOOLEAN : remove = TRUE
  OBVIOUS
<1>2. PICK u : u = ToUTC(dt)
  OBVIOUS
<1>3. IsValid(u) /\ u.sec = dt.sec /\ MinutesUTC(u) = MinutesUTC(dt) - Zone
  BY <1>2, ToUTCs
<1>4. PICK v : v = PlainMinutes(u, n, remove)
  OBVIOUS
<1>5. MinutesAfter(v, u, n, SecondWithout(u, remove))
  BY <1>3, <1>4, PlainMinutesIsExact
<1>6. IsValid(v) /\ MinutesUTC(v) = MinutesUTC(u) + n /\ v.sec = SecondWithout(u, remove)
  BY <1>5 DEF MinutesAfter
<1>7. SecondWithout(u, remove) = IF dt.sec = 60 THEN 59 ELSE dt.sec
  <2>1. dt.sec \in 0..60
    BY Fields
  <2> QED BY <1>1, <1>3, <2>1 DEF SecondWithout
<1>8. PICK e : e = ToLocal(v)
  OBVIOUS
<1>9. IsValid(e) /\ e.sec = v.sec /\ MinutesUTC(e) = MinutesUTC(v) + Zone
  BY <1>6, <1>8, ToUTCs
<1>10. MinutesUTC(dt) \in Int /\ Zone \in Int
  BY MinutesOf, DatesAssumption
<1>11. MinutesUTC(e) = MinutesUTC(dt) + n
  BY <1>3, <1>6, <1>9, <1>10
<1>12. addMinutes(dt, n) = e
  BY <1>1, <1>2, <1>4, <1>8 DEF addMinutes
<1> QED BY <1>6, <1>7, <1>9, <1>11, <1>12 DEF MinutesAfter

------------------------------------------------------------------------------
(* The days and seconds between two dates *)

(* The loops that add up lengths of months. *)
MonthSum(B, y) == /\ B \in [1..13 -> Int]
                  /\ \A m \in 1..12 : B[m + 1] = B[m] + daysPerMonth(m, y)
                  /\ \A m \in 1..13 : B[m] = gregorian_to_fixed(y, m, 1)

(* The sums of the lengths of months, one after another. *)
LEMMA MonthSums ==
  ASSUME NEW y \in Int
  PROVE  \E B : MonthSum(B, y)
<1>1. PICK B : B = [m \in 1..13 |-> gregorian_to_fixed(y, m, 1)]
  OBVIOUS
<1>2. PICK leap \in BOOLEAN : leap = isLeapYear(y)
  BY January
<1>3. \A m \in 1..13 : gregorian_to_fixed(y, m, 1) = gregorian_to_fixed(y, 1, 1) + BeforeMonth(m, leap)
  BY <1>2, GregorianMonths
<1>4. PICK j \in Int : j = gregorian_to_fixed(y, 1, 1)
  BY Januaries
<1>5. \A m \in 1..13 : BeforeMonth(m, leap) \in Int
  BY MonthsOfYear
<1>6. \A m \in 1..13 : B[m] = j + BeforeMonth(m, leap)
  BY <1>1, <1>3, <1>4
<1>7. B \in [1..13 -> Int]
  <2>1. \A m \in 1..13 : B[m] \in Int
    BY <1>5, <1>6
  <2> QED BY <1>1, <2>1
<1>8. ASSUME NEW m \in 1..12
      PROVE  B[m + 1] = B[m] + daysPerMonth(m, y)
  <2>1. PICK n \in 1..13 : n = m + 1
    OBVIOUS
  <2>2. BeforeMonth(n, leap) = BeforeMonth(m, leap) + daysPerMonth(m, y)
    BY <1>2, <2>1, SMT DEF BeforeMonth, quotient, daysPerMonth
  <2>3. daysPerMonth(m, y) \in Int /\ BeforeMonth(n, leap) \in Int /\ BeforeMonth(m, leap) \in Int
    <3>1. daysPerMonth(m, y) \in 28..31
      BY Starts28
    <3>2. n \in 1..13 /\ m \in 1..13
      OBVIOUS
    <3> QED BY <1>5, <3>1, <3>2
  <2>4. B[n] = j + BeforeMonth(n, leap) /\ B[m] = j + BeforeMonth(m, leap)
    BY <1>6
  <2>5. B[n] = B[m] + daysPerMonth(m, y)
    BY <2>2, <2>3, <2>4
  <2> QED BY <2>1, <2>5
<1> QED BY <1>1, <1>7, <1>8 DEF MonthSum

(* The sum of the lengths of months is from the start of the first to the start of
   the one after the last. *)
LEMMA DaysOfIs ==
  ASSUME NEW y \in Int, NEW first \in 1..12, NEW last \in 0..12, NEW next \in 1..13,
         next = last + 1, first <= next
  PROVE  /\ DaysOf(y, first, last) = gregorian_to_fixed(y, next, 1) - gregorian_to_fixed(y, first, 1)
         /\ DaysOf(y, first, last) \in Int
<1>1. PICK B : MonthSum(B, y)
  BY MonthSums
<1>2. PICK l : l = [m \in 1..12 |-> daysPerMonth(m, y)]
  OBVIOUS
<1>3. \A m \in 1..12 : l[m] \in Int /\ B[m + 1] = B[m] + l[m] /\ daysPerMonth(m, y) = l[m]
  <2> SUFFICES ASSUME NEW m \in 1..12
               PROVE  l[m] \in Int /\ B[m + 1] = B[m] + l[m] /\ daysPerMonth(m, y) = l[m]
    OBVIOUS
  <2>1. daysPerMonth(m, y) \in 28..31
    BY Starts28
  <2> QED BY <1>1, <1>2, <2>1 DEF MonthSum
<1>4. B \in [1..13 -> Int]
  BY <1>1 DEF MonthSum
<1>5. PICK f \in Int : f = first /\ f >= 1 /\ f <= 12
  OBVIOUS
<1> DEFINE g == [m \in 0..12 |-> IF m < f THEN 0 ELSE B[m + 1] - B[f]]
<1>6. ASSUME NEW m \in 0..12
      PROVE  g[m] = IF m < first THEN 0 ELSE g[m - 1] + daysPerMonth(m, y)
  <2>1. CASE m < f
    BY <1>5, <2>1
  <2>2. CASE m >= f
    <3>1. m \in 1..12 /\ m - 1 \in 0..12 /\ m \in Int
      BY <1>5, <2>2
    <3>2. PICK a \in Int, b \in Int, c \in Int : a = B[f] /\ b = B[m] /\ c = B[m + 1]
      BY <1>4, <1>5, <3>1
    <3>3. PICK k \in Int : k = l[m] /\ c = b + k /\ daysPerMonth(m, y) = k
      BY <1>3, <3>1, <3>2
    <3>4. g[m] = c - a
      BY <2>2, <3>1, <3>2
    <3>5. g[m - 1] = b - a
      <4>1. CASE m = f
        BY <1>5, <3>1, <3>2, <4>1
      <4>2. CASE m # f
        BY <1>5, <2>2, <3>1, <3>2, <4>2
      <4> QED BY <4>1, <4>2
    <3> QED BY <1>5, <2>2, <3>1, <3>3, <3>4, <3>5
  <2> QED BY <1>5, <2>1, <2>2
<1>7. \E h : h = [m \in 0..12 |-> IF m < first THEN 0 ELSE h[m - 1] + daysPerMonth(m, y)]
  <2>1. g = [m \in 0..12 |-> IF m < first THEN 0 ELSE g[m - 1] + daysPerMonth(m, y)]
    BY <1>6
  <2> HIDE DEF g
  <2> QED BY <2>1, Zenon
<1>8. PICK h : /\ h = [m \in 0..12 |-> IF m < first THEN 0 ELSE h[m - 1] + daysPerMonth(m, y)]
              /\ DaysOf(y, first, last) = h[last]
  BY <1>7, Zenon DEF DaysOf
<1>9. \A m \in 0..12 : h[m] = IF m < first THEN 0 ELSE h[m - 1] + daysPerMonth(m, y)
  BY <1>8, Zenon
<1> HIDE DEF g
<1>10. h[last] = g[last]
  <2> SUFFICES ASSUME h[last] # g[last] PROVE FALSE
    OBVIOUS
  <2>1. PICK T : T = {m \in 0..12 : h[m] # g[m]}
    OBVIOUS
  <2>2. T \subseteq Nat /\ T # {}
    BY <2>1
  <2>3. PICK m \in T : \A k \in T : m <= k
    BY <2>2, LeastNumber
  <2>4. m \in 0..12 /\ h[m] # g[m] /\ m \in Int
    BY <2>1
  <2>5. ~(m < first) /\ h[m - 1] # g[m - 1]
    BY <1>6, <1>9, <2>4
  <2>6. m - 1 \in 0..12
    BY <2>4, <2>5
  <2>7. m - 1 \in T
    BY <2>1, <2>5, <2>6
  <2> QED BY <2>3, <2>4, <2>7
<1>11. g[last] = B[next] - B[f]
  <2>1. last \in Int
    OBVIOUS
  <2>2. CASE last < f
    <3>1. next = f
      BY <1>5, <2>1, <2>2
    <3>2. B[f] \in Int
      BY <1>4, <1>5
    <3> QED BY <2>2, <3>1, <3>2 DEF g
  <2>3. CASE last >= f
    BY <2>3 DEF g
  <2> QED BY <1>5, <2>1, <2>2, <2>3
<1>12. /\ B[next] = gregorian_to_fixed(y, next, 1) /\ B[f] = gregorian_to_fixed(y, first, 1)
       /\ B[next] \in Int /\ B[f] \in Int
  BY <1>1, <1>4, <1>5 DEF MonthSum
<1> QED BY <1>8, <1>10, <1>11, <1>12

(* The leap years between two years. *)
LeapYears(a, b) == {y \in a..b : isLeapYear(y)}

(* One year more, and one leap year more if it is one. *)
LEMMA LeapYearsOneMore ==
  ASSUME NEW a \in Int, NEW b \in Int, NEW c \in Int, c = b + 1, a <= c, IsFiniteSet(LeapYears(a, b)),
         NEW k \in Int, Cardinality(LeapYears(a, b)) = k
  PROVE  /\ IsFiniteSet(LeapYears(a, c))
         /\ Cardinality(LeapYears(a, c)) = k + (IF isLeapYear(c) THEN 1 ELSE 0)
<1>1. c \notin LeapYears(a, b)
  BY DEF LeapYears
<1>2. CASE isLeapYear(c)
  <2>1. LeapYears(a, c) = LeapYears(a, b) \cup {c}
    BY <1>2 DEF LeapYears
  <2> QED BY <1>1, <1>2, <2>1, FS_AddElement
<1>3. CASE ~isLeapYear(c)
  <2>1. LeapYears(a, c) = LeapYears(a, b)
    BY <1>3 DEF LeapYears
  <2> QED BY <1>3, <2>1
<1> QED BY <1>2, <1>3

LeapYearsFill(a, n) ==
  \A b \in Int : b = a + n - 1 =>
    /\ IsFiniteSet(LeapYears(a, b))
    /\ Cardinality(LeapYears(a, b)) = (gregorian_to_fixed(b + 1, 1, 1) - gregorian_to_fixed(a, 1, 1)) - 365 * n

(* The years are 365 days each, and the leap years one more. *)
LEMMA LeapYearsCount ==
  ASSUME NEW a \in Int, NEW n \in Nat
  PROVE  LeapYearsFill(a, n)
<1>1. LeapYearsFill(a, 0)
  <2> SUFFICES ASSUME NEW b \in Int, b = a + 0 - 1
               PROVE  /\ IsFiniteSet(LeapYears(a, b))
                      /\ Cardinality(LeapYears(a, b))
                           = (gregorian_to_fixed(b + 1, 1, 1) - gregorian_to_fixed(a, 1, 1)) - 365 * 0
    BY DEF LeapYearsFill
  <2>1. LeapYears(a, b) = {}
    BY DEF LeapYears
  <2>2. b + 1 = a
    OBVIOUS
  <2>3. gregorian_to_fixed(a, 1, 1) \in Int
    BY Januaries
  <2>4. gregorian_to_fixed(b + 1, 1, 1) = gregorian_to_fixed(a, 1, 1)
    BY <2>2
  <2> QED BY <2>1, <2>3, <2>4, FS_EmptySet
<1>2. ASSUME NEW k \in Nat, LeapYearsFill(a, k)
      PROVE  LeapYearsFill(a, k + 1)
  <2> SUFFICES ASSUME NEW c \in Int, c = a + (k + 1) - 1
               PROVE  /\ IsFiniteSet(LeapYears(a, c))
                      /\ Cardinality(LeapYears(a, c))
                           = (gregorian_to_fixed(c + 1, 1, 1) - gregorian_to_fixed(a, 1, 1)) - 365 * (k + 1)
    BY DEF LeapYearsFill
  <2>1. PICK b \in Int : b = a + k - 1 /\ c = b + 1 /\ a <= c
    OBVIOUS
  <2>2. PICK i \in Int, j \in Int, l \in Int : /\ i = gregorian_to_fixed(a, 1, 1)
                                              /\ j = gregorian_to_fixed(c, 1, 1)
                                              /\ l = gregorian_to_fixed(c + 1, 1, 1)
                                              /\ l = j + (IF isLeapYear(c) THEN 366 ELSE 365)
    <3>1. gregorian_to_fixed(a, 1, 1) \in Int
      BY Januaries
    <3>2. /\ gregorian_to_fixed(c, 1, 1) \in Int
          /\ gregorian_to_fixed(c + 1, 1, 1)
               = gregorian_to_fixed(c, 1, 1) + (IF isLeapYear(c) THEN 366 ELSE 365)
      BY Januaries
    <3> QED BY <3>1, <3>2
  <2>3. IsFiniteSet(LeapYears(a, b)) /\ Cardinality(LeapYears(a, b)) = (j - i) - 365 * k
    <3>1. /\ IsFiniteSet(LeapYears(a, b))
          /\ Cardinality(LeapYears(a, b))
               = (gregorian_to_fixed(b + 1, 1, 1) - gregorian_to_fixed(a, 1, 1)) - 365 * k
      BY <1>2, <2>1 DEF LeapYearsFill
    <3>2. gregorian_to_fixed(b + 1, 1, 1) = j
      BY <2>1, <2>2
    <3> QED BY <2>2, <3>1, <3>2
  <2>4. PICK x \in Int : x = (j - i) - 365 * k
    OBVIOUS
  <2>5. Cardinality(LeapYears(a, b)) = x
    BY <2>3, <2>4
  <2>6. /\ IsFiniteSet(LeapYears(a, c))
        /\ Cardinality(LeapYears(a, c)) = x + (IF isLeapYear(c) THEN 1 ELSE 0)
    BY <2>1, <2>3, <2>5, LeapYearsOneMore
  <2>7. PICK y \in {0, 1} : y = (IF isLeapYear(c) THEN 1 ELSE 0) /\ l = j + 365 + y
    BY <2>2
  <2>8. Cardinality(LeapYears(a, c)) = x + y
    BY <2>6, <2>7
  <2>9. x + y = (l - i) - 365 * (k + 1)
    BY <2>4, <2>7
  <2> QED BY <2>2, <2>6, <2>8, <2>9
<1>3. PICK T : T = {k \in Nat : ~LeapYearsFill(a, k)}
  OBVIOUS
<1>4. CASE T # {}
  <2>1. PICK k \in T : \A l \in T : k <= l
    BY <1>3, <1>4, LeastNumber
  <2>2. k \in Nat /\ ~LeapYearsFill(a, k) /\ k # 0
    BY <1>1, <1>3, <2>1
  <2>3. PICK l \in Nat : k = l + 1
    <3>1. k - 1 \in Nat /\ k = (k - 1) + 1
      BY <2>2
    <3> QED BY <3>1
  <2>4. LeapYearsFill(a, l)
    BY <1>3, <2>1, <2>2, <2>3
  <2> QED BY <1>2, <2>2, <2>3, <2>4
<1> QED BY <1>3, <1>4

(* The days between two dates, counted by months and years, are those by number. *)
LEMMA SameYearDays ==
  ASSUME NEW a, NEW b, IsValid(a), IsValid(b), a.year = b.year, a.month <= b.month
  PROVE  ActualDays(a, b) = Fixed(b) - Fixed(a)
<1>1. PICK y \in Int, m \in 1..12, n \in 1..12, d \in 1..31, e \in 1..31 :
        /\ y = a.year /\ y = b.year /\ m = a.month /\ n = b.month /\ d = a.day /\ e = b.day
  BY Fields
<1>2. PICK last \in 0..12 : last = n - 1 /\ n = last + 1
  OBVIOUS
<1>3. n \in 1..13 /\ m <= n /\ d \in Int /\ e \in Int
  BY <1>1
<1>4. DaysOf(y, m, last) = gregorian_to_fixed(y, n, 1) - gregorian_to_fixed(y, m, 1)
  BY <1>2, <1>3, DaysOfIs
<1>5. ActualDays(a, b) = e - d + DaysOf(y, m, last)
  BY <1>1, <1>2 DEF ActualDays
<1>6. Fixed(a) = Start(y, m) + d - 1 /\ Fixed(b) = Start(y, n) + e - 1
  BY <1>1, FixedStart
<1>7. PICK i \in Int, j \in Int : i = Start(y, m) /\ j = Start(y, n)
  BY Starts28
<1>8. DaysOf(y, m, last) = j - i
  BY <1>4, <1>7 DEF Start
<1> QED BY <1>3, <1>5, <1>6, <1>7, <1>8

(* The same from one year to a later one. *)
LEMMA LaterYearDays ==
  ASSUME NEW a, NEW b, IsValid(a), IsValid(b), a.year < b.year
  PROVE  ActualDays(a, b) = Fixed(b) - Fixed(a)
<1>1. PICK y \in Int, z \in Int, m \in 1..12, n \in 1..12, d \in 1..31, e \in 1..31 :
        /\ y = a.year /\ z = b.year /\ m = a.month /\ n = b.month /\ d = a.day /\ e = b.day
  BY Fields
<1>2. PICK last \in 0..12 : last = n - 1 /\ n = last + 1
  OBVIOUS
<1>3. PICK p \in Int, q \in Int, k \in Nat : p = y + 1 /\ q = z - 1 /\ z = q + 1 /\ k = z - y - 1 /\ q = p + k - 1
  BY <1>1
<1>4. LeapYearsFill(p, k)
  BY LeapYearsCount
<1>5. PICK s \in Int, t \in Int : s = gregorian_to_fixed(p, 1, 1) /\ t = gregorian_to_fixed(z, 1, 1)
  BY Januaries
<1>6. Cardinality(LeapYears(p, q)) = (t - s) - 365 * k
  <2>1. q + 1 = z
    BY <1>3
  <2>2. Cardinality(LeapYears(p, q))
          = (gregorian_to_fixed(q + 1, 1, 1) - gregorian_to_fixed(p, 1, 1)) - 365 * k
    BY <1>3, <1>4 DEF LeapYearsFill
  <2> QED BY <1>5, <2>1, <2>2
<1>7. PICK c \in Int : c = Cardinality({x \in a.year + 1..b.year - 1 : isLeapYear(x)}) /\ c = (t - s) - 365 * k
  <2>1. {x \in a.year + 1..b.year - 1 : isLeapYear(x)} = LeapYears(p, q)
    BY <1>1, <1>3 DEF LeapYears
  <2> QED BY <1>6, <2>1
<1>8. PICK i \in Int, j \in Int : i = Start(y, m) /\ j = Start(z, n)
  BY Starts28
<1>9. DaysOf(y, m, 12) = s - i
  <2>1. PICK l \in 0..12, o \in 1..13 : l = 12 /\ o = 13 /\ o = l + 1
    OBVIOUS
  <2>2. m <= o
    BY <2>1
  <2>3. DaysOf(y, m, l) = gregorian_to_fixed(y, o, 1) - gregorian_to_fixed(y, m, 1)
    BY <2>1, <2>2, DaysOfIs
  <2>4. PICK leap \in BOOLEAN : leap = isLeapYear(y)
    BY January
  <2>5. gregorian_to_fixed(y, o, 1) = gregorian_to_fixed(y, 1, 1) + BeforeMonth(o, leap)
    BY <2>4, GregorianMonths
  <2>6. BeforeMonth(o, leap) = IF leap THEN 366 ELSE 365
    BY <2>1, MonthsOfYear
  <2>7. /\ gregorian_to_fixed(y + 1, 1, 1) = gregorian_to_fixed(y, 1, 1) + (IF leap THEN 366 ELSE 365)
    BY <2>4, Januaries
  <2>8. gregorian_to_fixed(y, o, 1) = s
    BY <1>3, <1>5, <2>5, <2>6, <2>7
  <2> QED BY <1>8, <2>1, <2>3, <2>8 DEF Start
<1>10. DaysOf(z, 1, last) = j - t
  <2>1. PICK f \in 1..12 : f = 1 /\ f <= n
    OBVIOUS
  <2>2. n \in 1..13
    OBVIOUS
  <2>3. DaysOf(z, f, last) = gregorian_to_fixed(z, n, 1) - gregorian_to_fixed(z, f, 1)
    BY <1>2, <2>1, <2>2, DaysOfIs
  <2> QED BY <1>5, <1>8, <2>1, <2>3 DEF Start
<1>11. d \in Int /\ e \in Int
  OBVIOUS
<1>12. ActualDays(a, b) = e - d + (DaysOf(y, m, 12) + DaysOf(z, 1, last) + 365 * (z - y - 1) + c)
  <2>1. y # z
    BY <1>1
  <2> QED BY <1>1, <1>2, <1>7, <2>1 DEF ActualDays
<1>13. Fixed(a) = Start(y, m) + d - 1 /\ Fixed(b) = Start(z, n) + e - 1
  BY <1>1, FixedStart
<1>14. Fixed(a) = i + d - 1 /\ Fixed(b) = j + e - 1
  BY <1>8, <1>13
<1>15. ActualDays(a, b) = e - d + ((s - i) + (j - t) + 365 * k + c)
  BY <1>3, <1>9, <1>10, <1>12
<1> QED BY <1>7, <1>11, <1>14, <1>15

(* Months and years in order have their days in order. *)
LEMMA MonthsInOrder ==
  ASSUME NEW y \in Int, NEW m \in 1..12, NEW z \in Int, NEW n \in 1..12,
         y < z \/ (y = z /\ m < n)
  PROVE  Start(y, m) + daysPerMonth(m, y) <= Start(z, n)
<1>1. PICK leap \in BOOLEAN, other \in BOOLEAN : leap = isLeapYear(y) /\ other = isLeapYear(z)
  BY January
<1>2. PICK j \in Int, k \in Int : j = gregorian_to_fixed(y, 1, 1) /\ k = gregorian_to_fixed(z, 1, 1)
  BY Januaries
<1>3. Start(y, m) = j + BeforeMonth(m, leap) /\ Start(z, n) = k + BeforeMonth(n, other)
  BY <1>1, <1>2, GregorianMonths DEF Start
<1>4. daysPerMonth(m, y) = BeforeMonth(m + 1, leap) - BeforeMonth(m, leap)
  BY <1>1, SMT DEF daysPerMonth, BeforeMonth, quotient
<1>5. /\ BeforeMonth(m, leap) \in Int /\ BeforeMonth(m + 1, leap) \in Int /\ BeforeMonth(n, other) \in Int
      /\ BeforeMonth(m + 1, leap) <= (IF leap THEN 366 ELSE 365) /\ BeforeMonth(n, other) >= 0
  BY SMT DEF BeforeMonth, quotient
<1>6. CASE y < z
  <2>1. gregorian_to_fixed(y + 1, 1, 1)
          = gregorian_to_fixed(y, 1, 1) + (IF isLeapYear(y) THEN 366 ELSE 365)
    BY Januaries
  <2>2. gregorian_to_fixed(y + 1, 1, 1) <= gregorian_to_fixed(z, 1, 1)
    BY <1>6, Januaries
  <2>3. j + (IF leap THEN 366 ELSE 365) <= k
    BY <1>1, <1>2, <2>1, <2>2
  <2> QED BY <1>3, <1>4, <1>5, <2>3
<1>7. CASE y = z /\ m < n
  <2>1. BeforeMonth(m + 1, leap) <= BeforeMonth(n, leap)
    BY <1>7, MonthsOfYear
  <2>2. leap = other /\ j = k
    BY <1>1, <1>2, <1>7
  <2> QED BY <1>3, <1>4, <1>5, <2>1, <2>2
<1> QED BY <1>6, <1>7

(* The order of dates is that of their days. *)
DateLater(a, b) ==
  \/ a.year > b.year
  \/ a.year = b.year /\ a.month > b.month
  \/ a.year = b.year /\ a.month = b.month /\ a.day > b.day

TimeLater(a, b) ==
  \/ a.hour > b.hour
  \/ a.hour = b.hour /\ a.min > b.min
  \/ a.hour = b.hour /\ a.min = b.min /\ a.sec > b.sec

SameDay(a, b) == a.year = b.year /\ a.month = b.month /\ a.day = b.day

(* The comparison of dates, by day and then by time of day. *)
LEMMA LaterIs ==
  ASSUME NEW a, NEW b
  PROVE  Later(a, b) <=> DateLater(a, b) \/ (SameDay(a, b) /\ TimeLater(a, b))
<1>1. PICK A, B : /\ A = <<a.year, a.month, a.day, a.hour, a.min, a.sec>>
                  /\ B = <<b.year, b.month, b.day, b.hour, b.min, b.sec>>
  OBVIOUS
<1>2. Later(a, b) <=> \E k \in 1..6 : A[k] > B[k] /\ \A j \in 1..k - 1 : A[j] = B[j]
  BY <1>1 DEF Later
<1>3. (\E k \in 1..6 : A[k] > B[k] /\ \A j \in 1..k - 1 : A[j] = B[j])
      <=> \/ A[1] > B[1]
          \/ A[1] = B[1] /\ A[2] > B[2]
          \/ A[1] = B[1] /\ A[2] = B[2] /\ A[3] > B[3]
          \/ A[1] = B[1] /\ A[2] = B[2] /\ A[3] = B[3] /\ A[4] > B[4]
          \/ A[1] = B[1] /\ A[2] = B[2] /\ A[3] = B[3] /\ A[4] = B[4] /\ A[5] > B[5]
          \/ A[1] = B[1] /\ A[2] = B[2] /\ A[3] = B[3] /\ A[4] = B[4] /\ A[5] = B[5] /\ A[6] > B[6]
  <2>1. 1..6 = {1, 2, 3, 4, 5, 6}
    OBVIOUS
  <2>2. /\ 1..1 - 1 = {} /\ 1..2 - 1 = {1} /\ 1..3 - 1 = {1, 2} /\ 1..4 - 1 = {1, 2, 3}
        /\ 1..5 - 1 = {1, 2, 3, 4} /\ 1..6 - 1 = {1, 2, 3, 4, 5}
    OBVIOUS
  <2> QED BY <2>1, <2>2
<1>4. /\ A[1] = a.year /\ A[2] = a.month /\ A[3] = a.day /\ A[4] = a.hour /\ A[5] = a.min /\ A[6] = a.sec
      /\ B[1] = b.year /\ B[2] = b.month /\ B[3] = b.day /\ B[4] = b.hour /\ B[5] = b.min /\ B[6] = b.sec
  BY <1>1
<1> QED BY <1>2, <1>3, <1>4, Zenon DEF DateLater, SameDay, TimeLater

(* The comparison of dates at midnight is that of their days. *)
LEMMA DayLaterIs ==
  ASSUME NEW a, NEW b, IsValid(a), IsValid(b)
  PROVE  DayLater(a, b) <=> DateLater(a, b)
<1>1. PICK c, d : /\ c = [a EXCEPT !.hour = 0, !.min = 0, !.sec = 0]
                  /\ d = [b EXCEPT !.hour = 0, !.min = 0, !.sec = 0]
  OBVIOUS
<1>2. DayLater(a, b) <=> Later(c, d)
  BY <1>1 DEF DayLater
<1>3. a \in DateTimes /\ b \in DateTimes
  BY Fields
<1>4. /\ c.year = a.year /\ c.month = a.month /\ c.day = a.day
      /\ d.year = b.year /\ d.month = b.month /\ d.day = b.day
      /\ c.hour = 0 /\ c.min = 0 /\ c.sec = 0 /\ d.hour = 0 /\ d.min = 0 /\ d.sec = 0
  BY <1>1, <1>3 DEF DateTimes
<1>5. Later(c, d) <=> DateLater(c, d) \/ (SameDay(c, d) /\ TimeLater(c, d))
  BY LaterIs
<1>6. ~TimeLater(c, d)
  BY <1>4 DEF TimeLater
<1>7. DateLater(c, d) <=> DateLater(a, b)
  BY <1>4 DEF DateLater
<1> QED BY <1>2, <1>5, <1>6, <1>7

(* Dates are in the order of the numbers of their days. *)
LEMMA DateLaterIs ==
  ASSUME NEW a, NEW b, IsValid(a), IsValid(b)
  PROVE  /\ DateLater(a, b) <=> Fixed(a) > Fixed(b)
         /\ SameDay(a, b) <=> Fixed(a) = Fixed(b)
         /\ DateLater(a, b) \/ DateLater(b, a) \/ SameDay(a, b)
<1>1. PICK y \in Int, z \in Int, m \in 1..12, n \in 1..12, d \in 1..31, e \in 1..31 :
        /\ y = a.year /\ z = b.year /\ m = a.month /\ n = b.month /\ d = a.day /\ e = b.day
        /\ d <= daysPerMonth(m, y) /\ e <= daysPerMonth(n, z)
  BY Fields
<1>2. m \in Int /\ n \in Int /\ d \in Int /\ e \in Int /\ d >= 1 /\ e >= 1
  OBVIOUS
<1>3. PICK i \in Int, j \in Int, k \in Int, l \in Int :
        i = Start(y, m) /\ j = Start(z, n) /\ k = daysPerMonth(m, y) /\ l = daysPerMonth(n, z)
  <2>1. Start(y, m) \in Int /\ daysPerMonth(m, y) \in 28..31
    BY Starts28
  <2>2. Start(z, n) \in Int /\ daysPerMonth(n, z) \in 28..31
    BY Starts28
  <2> QED BY <2>1, <2>2
<1>4. Fixed(a) = i + d - 1 /\ Fixed(b) = j + e - 1
  BY <1>1, <1>3, FixedStart
<1>5. y < z \/ (y = z /\ m < n) => i + k <= j
  BY <1>3, MonthsInOrder
<1>6. z < y \/ (z = y /\ n < m) => j + l <= i
  BY <1>3, MonthsInOrder
<1>7. y = z /\ m = n => i = j
  BY <1>3
<1>8. d <= k /\ e <= l
  BY <1>1, <1>3
<1>9. /\ DateLater(a, b) <=> y > z \/ (y = z /\ m > n) \/ (y = z /\ m = n /\ d > e)
      /\ DateLater(b, a) <=> z > y \/ (y = z /\ n > m) \/ (y = z /\ m = n /\ e > d)
      /\ SameDay(a, b) <=> y = z /\ m = n /\ d = e
  BY <1>1 DEF DateLater, SameDay
<1>10. \/ y < z \/ (y = z /\ m < n)
       \/ z < y \/ (z = y /\ n < m)
       \/ y = z /\ m = n
  BY <1>2
<1>11. CASE y < z \/ (y = z /\ m < n)
  BY <1>2, <1>4, <1>5, <1>8, <1>9, <1>11
<1>12. CASE z < y \/ (z = y /\ n < m)
  BY <1>2, <1>4, <1>6, <1>8, <1>9, <1>12
<1>13. CASE y = z /\ m = n
  BY <1>2, <1>4, <1>7, <1>9, <1>13
<1> QED BY <1>10, <1>11, <1>12, <1>13

(* The days from one date to one that is not before its month. *)
LEMMA ActualDaysAre ==
  ASSUME NEW a, NEW b, IsValid(a), IsValid(b), ~DateLater(a, b)
  PROVE  ActualDays(a, b) = Fixed(b) - Fixed(a)
<1>1. a.year \in Int /\ b.year \in Int /\ a.month \in 1..12 /\ b.month \in 1..12
  BY Fields
<1>2. a.year < b.year \/ (a.year = b.year /\ a.month <= b.month)
  BY <1>1 DEF DateLater
<1> QED BY <1>2, SameYearDays, LaterYearDays

(* daysTo is the difference of days and of seconds of the day. *)
LEMMA DaysToIs ==
  ASSUME NEW a, NEW b, IsValid(a), IsValid(b), NEW remove \in BOOLEAN
  PROVE  daysTo(a, b, remove) = <<Fixed(b) - Fixed(a), SecondOfDay(b, remove) - SecondOfDay(a, remove)>>
<1>1. Fixed(a) \in Int /\ Fixed(b) \in Int
  BY FixedStart
<1>2. PICK s, t : s = SecondOfDay(a, remove) /\ t = SecondOfDay(b, remove)
  OBVIOUS
<1>3. daysTo(a, b, remove) = IF DayLater(a, b) \/ (~DayLater(b, a) /\ s > t)
                             THEN <<-ActualDays(b, a), t - s>> ELSE <<ActualDays(a, b), t - s>>
  BY <1>2, Zenon DEF daysTo
<1>4. (DayLater(a, b) <=> DateLater(a, b)) /\ (DayLater(b, a) <=> DateLater(b, a))
  BY DayLaterIs
<1>5. CASE DateLater(a, b)
  <2>1. ~DateLater(b, a)
    BY <1>1, <1>5, DateLaterIs
  <2>2. ActualDays(b, a) = Fixed(a) - Fixed(b)
    BY <2>1, ActualDaysAre
  <2> QED BY <1>1, <1>2, <1>3, <1>4, <1>5, <2>2
<1>6. CASE ~DateLater(a, b) /\ DateLater(b, a)
  <2>1. ActualDays(a, b) = Fixed(b) - Fixed(a)
    BY <1>6, ActualDaysAre
  <2> QED BY <1>1, <1>2, <1>3, <1>4, <1>6, <2>1
<1>7. CASE ~DateLater(a, b) /\ ~DateLater(b, a)
  <2>1. ActualDays(a, b) = Fixed(b) - Fixed(a) /\ ActualDays(b, a) = Fixed(a) - Fixed(b)
    BY <1>7, ActualDaysAre
  <2>2. Fixed(a) = Fixed(b)
    BY <1>7, DateLaterIs
  <2>3. -ActualDays(b, a) = Fixed(b) - Fixed(a)
    BY <1>1, <2>1, <2>2
  <2> QED BY <1>2, <1>3, <1>4, <1>7, <2>1, <2>3
<1> QED BY <1>5, <1>6, <1>7

------------------------------------------------------------------------------
(* Leap seconds *)

(* Half-years, numbered from the first of 1972.  The one numbered h ends with
   the day HalfEnd(h), before the month of AfterHalf. *)
HalfYear(u) == 2 * (u.year - LS_FIRST_YEAR) + (IF u.month > 6 THEN 1 ELSE 0)
AfterHalf(h, y, m) == \/ h = 2 * (y - 1972) /\ m = 7
                      \/ h = 2 * (y - 1973) + 1 /\ m = 1
HalfEnd(h) == Start(LS_FIRST_YEAR + (h + 1) \div 2, IF h % 2 = 1 THEN 1 ELSE 7) - 1

(* A half-year ends where a January or a July begins. *)
LEMMA HalfEnds ==
  ASSUME NEW h \in Int
  PROVE  \E y \in Int, m \in 1..12 : AfterHalf(h, y, m) /\ HalfEnd(h) = Start(y, m) - 1
<1>1. CASE h % 2 = 1
  <2>1. PICK y \in Int, m \in 1..12 : y = 1972 + (h + 1) \div 2 /\ m = 1
    OBVIOUS
  <2>2. h = 2 * (y - 1973) + 1
    BY <1>1, <2>1, SMT
  <2>3. HalfEnd(h) = Start(y, m) - 1
    BY <1>1, <2>1 DEF HalfEnd, LS_FIRST_YEAR
  <2> QED BY <2>1, <2>2, <2>3 DEF AfterHalf
<1>2. CASE h % 2 # 1
  <2>1. PICK y \in Int, m \in 1..12 : y = 1972 + (h + 1) \div 2 /\ m = 7
    OBVIOUS
  <2>2. h = 2 * (y - 1972)
    BY <1>2, <2>1, SMT
  <2>3. HalfEnd(h) = Start(y, m) - 1
    BY <1>2, <2>1 DEF HalfEnd, LS_FIRST_YEAR
  <2> QED BY <2>1, <2>2, <2>3 DEF AfterHalf
<1> QED BY <1>1, <1>2

(* Which January or July begins after a half-year is determined. *)
LEMMA AfterHalfOnce ==
  ASSUME NEW h \in Int, NEW y \in Int, NEW m \in 1..12, AfterHalf(h, y, m)
  PROVE  HalfEnd(h) = Start(y, m) - 1
<1>1. PICK z \in Int, n \in 1..12 : AfterHalf(h, z, n) /\ HalfEnd(h) = Start(z, n) - 1
  BY HalfEnds
<1>2. z = y /\ n = m
  BY <1>1, SMT DEF AfterHalf
<1> QED BY <1>1, <1>2

(* Half-years end in their order. *)
LEMMA HalvesInOrder ==
  ASSUME NEW h \in Int, NEW k \in Int, h < k
  PROVE  HalfEnd(h) < HalfEnd(k) /\ HalfEnd(h) \in Int /\ HalfEnd(k) \in Int
<1>1. PICK y \in Int, m \in 1..12 : AfterHalf(h, y, m) /\ HalfEnd(h) = Start(y, m) - 1
  BY HalfEnds
<1>2. PICK z \in Int, n \in 1..12 : AfterHalf(k, z, n) /\ HalfEnd(k) = Start(z, n) - 1
  BY HalfEnds
<1>3. y < z \/ (y = z /\ m < n)
  BY <1>1, <1>2 DEF AfterHalf
<1>4. Start(y, m) + daysPerMonth(m, y) <= Start(z, n)
  BY <1>3, MonthsInOrder
<1>5. PICK i \in Int, j \in Int, d \in 28..31 : i = Start(y, m) /\ d = daysPerMonth(m, y) /\ j = Start(z, n)
  <2>1. Start(y, m) \in Int /\ daysPerMonth(m, y) \in 28..31
    BY Starts28
  <2>2. Start(z, n) \in Int
    BY Starts28
  <2> QED BY <2>1, <2>2
<1>6. i < j
  BY <1>4, <1>5
<1> QED BY <1>1, <1>2, <1>5, <1>6

(* A date lies in its half-year. *)
LEMMA HalfOf ==
  ASSUME NEW u, IsValid(u)
  PROVE  /\ HalfYear(u) \in Int /\ Fixed(u) \in Int
         /\ HalfEnd(HalfYear(u) - 1) < Fixed(u) /\ Fixed(u) <= HalfEnd(HalfYear(u))
<1>1. PICK y \in Int, m \in 1..12, d \in 1..31 :
        y = u.year /\ m = u.month /\ d = u.day /\ d <= daysPerMonth(m, y)
  BY Fields
<1>2. PICK h \in Int, g \in Int : h = HalfYear(u) /\ g = h - 1 /\ h = 2 * (y - 1972) + (IF m > 6 THEN 1 ELSE 0)
  BY <1>1 DEF HalfYear, LS_FIRST_YEAR
<1>3. PICK z \in Int, n \in 1..12 : AfterHalf(h, z, n) /\ HalfEnd(h) = Start(z, n) - 1
  BY HalfEnds
<1>4. PICK x \in Int, o \in 1..12 : AfterHalf(g, x, o) /\ HalfEnd(g) = Start(x, o) - 1
  BY HalfEnds
<1>5. y < z \/ (y = z /\ m < n)
  BY <1>2, <1>3 DEF AfterHalf
<1>6. x = y /\ o <= m
  BY <1>2, <1>4 DEF AfterHalf
<1>7. PICK i \in Int, j \in Int, k \in Int, l \in 28..31 :
        i = Start(y, m) /\ j = Start(z, n) /\ k = Start(x, o) /\ l = daysPerMonth(m, y)
  <2>1. Start(y, m) \in Int /\ daysPerMonth(m, y) \in 28..31
    BY Starts28
  <2>2. Start(z, n) \in Int
    BY Starts28
  <2>3. Start(x, o) \in Int
    BY Starts28
  <2> QED BY <2>1, <2>2, <2>3
<1>8. i + l <= j
  BY <1>5, <1>7, MonthsInOrder
<1>9. k <= i
  <2>1. CASE o = m
    BY <1>6, <1>7, <2>1
  <2>2. CASE o # m
    <3>1. o < m
      BY <1>6, <2>2
    <3>2. Start(x, o) + daysPerMonth(o, x) <= Start(y, m)
      BY <1>6, <3>1, MonthsInOrder
    <3>3. daysPerMonth(o, x) \in 28..31
      BY Starts28
    <3> QED BY <1>7, <3>2, <3>3
  <2> QED BY <2>1, <2>2
<1>10. Fixed(u) = i + d - 1
  BY <1>1, <1>7, FixedStart
<1>11. d \in Int /\ d >= 1 /\ d <= l
  BY <1>1, <1>7
<1> QED BY <1>2, <1>3, <1>4, <1>7, <1>8, <1>9, <1>10, <1>11

(* A half-year is over before a date if and only if its end is. *)
LEMMA HalfBefore ==
  ASSUME NEW u, IsValid(u), NEW i \in Int
  PROVE  i < HalfYear(u) <=> HalfEnd(i) < Fixed(u)
<1>1. PICK h \in Int, g \in Int, f \in Int : /\ h = HalfYear(u) /\ g = h - 1 /\ f = Fixed(u)
                                             /\ HalfEnd(g) < f /\ f <= HalfEnd(h)
  <2>1. /\ HalfYear(u) \in Int /\ Fixed(u) \in Int
        /\ HalfEnd(HalfYear(u) - 1) < Fixed(u) /\ Fixed(u) <= HalfEnd(HalfYear(u))
    BY HalfOf
  <2> QED BY <2>1
<1>2. HalfEnd(h) \in Int /\ HalfEnd(i) \in Int /\ HalfEnd(g) \in Int
  <2>1. \A k \in Int : HalfEnd(k) \in Int
    <3>1. \A k, l \in Int : k < l => HalfEnd(k) \in Int
      BY HalvesInOrder
    <3>2. \A k \in Int : k < k + 1 /\ k + 1 \in Int
      OBVIOUS
    <3> QED BY <3>1, <3>2
  <2> QED BY <2>1
<1>3. i < g => HalfEnd(i) < HalfEnd(g)
  BY HalvesInOrder
<1>4. h < i => HalfEnd(h) < HalfEnd(i)
  BY HalvesInOrder
<1>5. i < g \/ i = g \/ i = h \/ h < i
  BY <1>1
<1> QED BY <1>1, <1>2, <1>3, <1>4, <1>5

(* Days in order are in half-years in order. *)
LEMMA HalvesFollow ==
  ASSUME NEW u, IsValid(u), NEW v, IsValid(v), Fixed(u) <= Fixed(v)
  PROVE  HalfYear(u) <= HalfYear(v)
<1>1. PICK h \in Int, k \in Int, g \in Int, f \in Int, e \in Int :
         h = HalfYear(u) /\ k = HalfYear(v) /\ g = h - 1 /\ f = Fixed(u) /\ e = Fixed(v)
  BY HalfOf
<1>2. HalfEnd(g) < f
  BY <1>1, HalfBefore
<1>3. HalfEnd(g) \in Int
  <2>1. g < h
    BY <1>1
  <2> QED BY <2>1, HalvesInOrder
<1>4. HalfEnd(g) < e
  BY <1>1, <1>2, <1>3
<1>5. g < k
  BY <1>1, <1>4, HalfBefore
<1> QED BY <1>1, <1>5

(* The half-years that end with a leap second. *)
LEMMA LeapSet == has_leap_second \subseteq 0..89 /\ IsFiniteSet(has_leap_second)
<1>1. has_leap_second \subseteq 0..89
  BY DEF has_leap_second
<1>2. PICK a \in Int, b \in Int : a = 0 /\ b = 89
  OBVIOUS
<1>3. IsFiniteSet(a..b)
  BY FS_Interval
<1>4. has_leap_second \in SUBSET (a..b)
  BY <1>1, <1>2
<1> QED BY <1>1, <1>3, <1>4, FS_Subset

Before(h) == Cardinality({i \in has_leap_second : i < h})

(* The leap seconds before a half-year are a number. *)
LEMMA BeforeInt ==
  ASSUME NEW h
  PROVE  Before(h) \in Nat /\ IsFiniteSet({i \in has_leap_second : i < h})
<1>1. {i \in has_leap_second : i < h} \in SUBSET has_leap_second
  OBVIOUS
<1>2. IsFiniteSet({i \in has_leap_second : i < h})
  BY <1>1, LeapSet, FS_Subset
<1> QED BY <1>2, FS_CardinalityType DEF Before

(* No leap second in between: as many before the one as before the other. *)
LEMMA BeforeGap ==
  ASSUME NEW h \in Int, NEW k \in Int, h <= k, \A i \in has_leap_second : ~(h <= i /\ i < k)
  PROVE  Before(h) = Before(k)
<1>1. \A i \in has_leap_second : i \in Int
  BY LeapSet
<1>2. {i \in has_leap_second : i < h} = {i \in has_leap_second : i < k}
  BY <1>1
<1> QED BY <1>2 DEF Before

(* After a leap second there is one more. *)
LEMMA BeforeLeap ==
  ASSUME NEW i \in has_leap_second, NEW k \in Int, k = i + 1
  PROVE  Before(k) = Before(i) + 1
<1>1. \A j \in has_leap_second : j \in Int
  BY LeapSet
<1>2. PICK S : S = {j \in has_leap_second : j < i}
  OBVIOUS
<1>3. {j \in has_leap_second : j < k} = S \cup {i}
  BY <1>1, <1>2
<1>4. i \notin S
  BY <1>1, <1>2
<1>5. IsFiniteSet(S) /\ Before(i) = Cardinality(S) /\ Before(i) \in Nat
  BY <1>2, BeforeInt DEF Before
<1>6. Cardinality(S \cup {i}) = Cardinality(S) + 1
  BY <1>4, <1>5, FS_AddElement
<1> QED BY <1>3, <1>5, <1>6 DEF Before

(* EndsAfter and EndsBefore, by the half-year. *)
LEMMA EndsAre ==
  ASSUME NEW u, IsValid(u)
  PROVE  /\ HalfYear(u) \in Int /\ (u.year < 1972 <=> HalfYear(u) < 0)
         /\ u.year > 2016 <=> HalfYear(u) > 89
         /\ EndsAfter(u) = (IF HalfYear(u) < 0 THEN 0 ELSE HalfYear(u))
                             + (IF IsLeapSecond(u) THEN 1 ELSE 0)
         /\ EndsBefore(u) = HalfYear(u) - 1
<1>1. PICK y \in Int, m \in Int : y = u.year /\ m = u.month /\ m >= 1 /\ m <= 12
  <2>1. u.year \in Int /\ u.month \in 1..12
    BY Fields
  <2> QED BY <2>1
<1>2. PICK h \in Int : h = HalfYear(u) /\ h = 2 * (y - 1972) + (IF m > 6 THEN 1 ELSE 0)
  BY <1>1 DEF HalfYear, LS_FIRST_YEAR
<1>3. PICK l \in {0, 1} : l = IF IsLeapSecond(u) THEN 1 ELSE 0
  OBVIOUS
<1>4. EndsAfter(u) = (IF y < 1972 THEN 0 ELSE 2 * (y - 1972) + (IF m > 6 THEN 1 ELSE 0)) + l
  BY <1>1, <1>3 DEF EndsAfter, LS_FIRST_YEAR
<1>5. EndsBefore(u) = 2 * (y - 1972) - (IF m <= 6 THEN 1 ELSE 0)
  BY <1>1 DEF EndsBefore, LS_FIRST_YEAR
<1>6. y < 1972 <=> h < 0
  BY <1>1, <1>2
<1>7. y > 2016 <=> h > 89
  BY <1>1, <1>2
<1>8. EndsAfter(u) = (IF h < 0 THEN 0 ELSE h) + l
  BY <1>2, <1>4, <1>6
<1>9. EndsBefore(u) = h - 1
  BY <1>1, <1>2, <1>5
<1> QED BY <1>1, <1>2, <1>3, <1>6, <1>7, <1>8, <1>9

(* A leap second ends its half-year. *)
IsEnd(l, i) ==
  /\ IsValid(l) /\ Fixed(l) = HalfEnd(i) /\ HalfYear(l) = i /\ IsLeapSecond(l)
  /\ l.hour = 23 /\ l.min = 59 /\ l.sec = 60

(* The leap second of a half-year is the last of its last day. *)
LEMMA LeapSecondEnds ==
  ASSUME NEW i \in Nat
  PROVE  IsEnd(LeapSecond(i), i)
<1>1. PICK y \in Int : y = 1972 + i \div 2
  OBVIOUS
<1>2. CASE i % 2 = 1
  <2>1. PICK m \in 1..12, d \in 1..31, z \in Int, n \in 1..12 : m = 12 /\ d = 31 /\ z = y + 1 /\ n = 1
    OBVIOUS
  <2>2. PICK l : l = DateTime(y, m, d, 23, 59, 60)
    OBVIOUS
  <2>3. LeapSecond(i) = l
    BY <1>1, <1>2, <2>1, <2>2 DEF LeapSecond, LS_FIRST_YEAR
  <2>4. /\ l \in DateTimes /\ l.year = y /\ l.month = m /\ l.day = d
        /\ l.hour = 23 /\ l.min = 59 /\ l.sec = 60
    BY <2>2 DEF DateTime, DateTimes
  <2>5. daysPerMonth(m, y) = 31
    BY <2>1 DEF daysPerMonth
  <2>6. IsValid(l)
    BY <2>1, <2>4, <2>5 DEF IsValid, ValidDates
  <2>7. Start(z, n) = Start(y, m) + 31 /\ Start(y, m) \in Int
    <3>1. Next12(y, m, z, n)
      BY <2>1 DEF Next12
    <3> QED BY <2>5, <3>1, NextStarts
  <2>8. Fixed(l) = Start(y, m) + 31 - 1
    BY <2>1, <2>4, <2>6, FixedStart
  <2>9. i = 2 * (y - 1972) + 1 /\ i = 2 * (z - 1973) + 1
    BY <1>1, <1>2, <2>1, SMT
  <2>10. HalfEnd(i) = Start(z, n) - 1
    BY <2>1, <2>9, AfterHalfOnce DEF AfterHalf
  <2>11. Fixed(l) = HalfEnd(i)
    BY <2>7, <2>8, <2>10
  <2>12. HalfYear(l) = i
    BY <2>1, <2>4, <2>9 DEF HalfYear, LS_FIRST_YEAR
  <2>13. IsLeapSecond(l)
    BY <2>1, <2>4 DEF IsLeapSecond
  <2> QED BY <2>3, <2>4, <2>6, <2>11, <2>12, <2>13 DEF IsEnd
<1>3. CASE i % 2 # 1
  <2>1. PICK m \in 1..12, d \in 1..31, n \in 1..12 : m = 6 /\ d = 30 /\ n = 7
    OBVIOUS
  <2>2. PICK l : l = DateTime(y, m, d, 23, 59, 60)
    OBVIOUS
  <2>3. LeapSecond(i) = l
    BY <1>1, <1>3, <2>1, <2>2 DEF LeapSecond, LS_FIRST_YEAR
  <2>4. /\ l \in DateTimes /\ l.year = y /\ l.month = m /\ l.day = d
        /\ l.hour = 23 /\ l.min = 59 /\ l.sec = 60
    BY <2>2 DEF DateTime, DateTimes
  <2>5. daysPerMonth(m, y) = 30
    BY <2>1 DEF daysPerMonth
  <2>6. IsValid(l)
    BY <2>1, <2>4, <2>5 DEF IsValid, ValidDates
  <2>7. Start(y, n) = Start(y, m) + 30 /\ Start(y, m) \in Int
    <3>1. Next12(y, m, y, n)
      BY <2>1 DEF Next12
    <3> QED BY <2>5, <3>1, NextStarts
  <2>8. Fixed(l) = Start(y, m) + 30 - 1
    BY <2>1, <2>4, <2>6, FixedStart
  <2>9. i = 2 * (y - 1972)
    BY <1>1, <1>3, SMT
  <2>10. HalfEnd(i) = Start(y, n) - 1
    BY <2>1, <2>9, AfterHalfOnce DEF AfterHalf
  <2>11. Fixed(l) = HalfEnd(i)
    BY <2>7, <2>8, <2>10
  <2>12. HalfYear(l) = i
    BY <2>1, <2>4, <2>9 DEF HalfYear, LS_FIRST_YEAR
  <2>13. IsLeapSecond(l)
    BY <2>1, <2>4 DEF IsLeapSecond
  <2> QED BY <2>3, <2>4, <2>6, <2>11, <2>12, <2>13 DEF IsEnd
<1> QED BY <1>2, <1>3

(* The leap seconds that countLeapSeconds counts. *)
LeapsBetween(c, d) ==
  IF c.year > LS_LAST_YEAR \/ d.year < LS_FIRST_YEAR THEN 0
  ELSE Cardinality(has_leap_second \cap EndsAfter(c)..EndsBefore(d))

(* countLeapSeconds, by the leap seconds between two dates in order. *)
LEMMA CountIs ==
  ASSUME NEW a, NEW b
  PROVE  countLeapSeconds(a, b) = IF Later(a, b) THEN -LeapsBetween(b, a) ELSE LeapsBetween(a, b)
  BY Zenon DEF countLeapSeconds, LeapsBetween

(* It finds none where there is none. *)
LEMMA NoLeapsBetween ==
  ASSUME NEW a, NEW b, IsValid(a), IsValid(b),
         \A i \in has_leap_second : ~(EndsAfter(a) <= i /\ i < HalfYear(b))
  PROVE  LeapsBetween(a, b) = 0
<1>1. EndsAfter(a) \in Int /\ EndsBefore(b) \in Int /\ EndsBefore(b) = HalfYear(b) - 1 /\ HalfYear(b) \in Int
  <2>1. /\ HalfYear(a) \in Int
        /\ EndsAfter(a) = (IF HalfYear(a) < 0 THEN 0 ELSE HalfYear(a)) + (IF IsLeapSecond(a) THEN 1 ELSE 0)
    BY EndsAre
  <2>2. HalfYear(b) \in Int /\ EndsBefore(b) = HalfYear(b) - 1
    BY EndsAre
  <2> QED BY <2>1, <2>2
<1>2. has_leap_second \cap EndsAfter(a)..EndsBefore(b) = {}
  <2>1. \A i \in has_leap_second : i \in Int
    BY LeapSet
  <2> QED BY <1>1, <2>1
<1> QED BY <1>2, FS_EmptySet DEF LeapsBetween

(* What it counts is a number. *)
LEMMA CountInt ==
  ASSUME NEW a, NEW b, IsValid(a), IsValid(b)
  PROVE  /\ countLeapSeconds(a, b) = IF Later(a, b) THEN -LeapsBetween(b, a) ELSE LeapsBetween(a, b)
         /\ countLeapSeconds(a, b) \in Int /\ LeapsBetween(a, b) \in Nat /\ LeapsBetween(b, a) \in Nat
<1>1. \A c, d : LeapsBetween(c, d) \in Nat
  <2> SUFFICES ASSUME NEW c, NEW d PROVE LeapsBetween(c, d) \in Nat
    OBVIOUS
  <2>1. PICK S : S = has_leap_second \cap EndsAfter(c)..EndsBefore(d)
    OBVIOUS
  <2>2. IsFiniteSet(S)
    BY <2>1, LeapSet, FS_Intersection
  <2>3. Cardinality(S) \in Nat
    BY <2>2, FS_CardinalityType
  <2> QED BY <2>1, <2>3 DEF LeapsBetween
<1>2. countLeapSeconds(a, b) = IF Later(a, b) THEN -LeapsBetween(b, a) ELSE LeapsBetween(a, b)
  BY CountIs
<1> QED BY <1>1, <1>2

(* secondsTo is the difference of seconds, and the leap seconds between. *)
SecondsBetween(a, b) == secondsTo(a, b, TRUE, FALSE)

(* secondsTo in UTC is the difference of the seconds, and the leap seconds. *)
LEMMA SecondsToIs ==
  ASSUME NEW a, NEW b, IsValid(a), IsValid(b)
  PROVE  SecondsBetween(a, b) = (Plain(b) - Plain(a)) + countLeapSeconds(a, b)
<1>1. PICK remove \in BOOLEAN : remove = FALSE
  OBVIOUS
<1>2. daysTo(a, b, remove) = <<Fixed(b) - Fixed(a), SecondOfDay(b, remove) - SecondOfDay(a, remove)>>
  BY DaysToIs
<1>3. PICK s \in Int : SecondsInto(a, s)
  BY PlainDay
<1>4. PICK t \in Int : SecondsInto(b, t)
  BY PlainDay
<1>5. s = FullSecond(a) /\ t = FullSecond(b)
  BY <1>3, <1>4 DEF SecondsInto
<1>6. s = SecondOfDay(a, remove) /\ t = SecondOfDay(b, remove)
  BY <1>1, <1>5, Zenon DEF FullSecond
<1>7. PICK f \in Int, g \in Int : f = Fixed(a) /\ g = Fixed(b)
  BY FixedStart
<1>8. PICK x : x = daysTo(a, b, ~TRUE)
  OBVIOUS
<1>9. x = <<g - f, t - s>>
  <2>1. (~TRUE) = FALSE
    OBVIOUS
  <2>2. x = daysTo(a, b, remove)
    BY <1>1, <1>8, <2>1, Zenon
  <2> QED BY <1>2, <1>6, <1>7, <2>2, Zenon
<1>10. x[1] = g - f /\ x[2] = t - s
  BY <1>9
<1>11. PICK c \in Int : c = countLeapSeconds(a, b)
  BY CountInt
<1>12. SecondsBetween(a, b) = 86400 * x[1] + x[2] + countLeapSeconds(a, b)
  BY <1>8, SMT DEF secondsTo, SecondsBetween
<1>13. SecondsBetween(a, b) = 86400 * (g - f) + (t - s) + c
  BY <1>10, <1>11, <1>12, SMT
<1>14. PICK p \in Int, q \in Int : p = 86400 * f + s /\ q = 86400 * g + t
  BY SMT
<1>15. Plain(a) = p /\ Plain(b) = q
  <2>1. Plain(a) = 86400 * Fixed(a) + s /\ Plain(b) = 86400 * Fixed(b) + t
    BY <1>3, <1>4, SMT DEF SecondsInto
  <2> QED BY <1>7, <1>14, <2>1, SMT
<1>16. 86400 * (g - f) + (t - s) + c = (q - p) + c
  BY <1>14, SMT
<1> QED BY <1>11, <1>13, <1>15, <1>16, SMT

(* A time that there was: a leap second or none. *)
Real(u) == IsValid(u) /\ (u.sec = 60 => \E i \in has_leap_second : u = LeapSecond(i))
Extra(u) == IF u.sec = 60 THEN 1 ELSE 0

(* Seconds, and the leap seconds before them. *)
Clocked(u) == Plain(u) + Before(HalfYear(u))

(* The clock of a date is a number. *)
LEMMA ClockedInt ==
  ASSUME NEW u, IsValid(u)
  PROVE  /\ Clocked(u) \in Int /\ Plain(u) \in Int /\ Before(HalfYear(u)) \in Int
         /\ Clocked(u) = Plain(u) + Before(HalfYear(u))
<1>1. Plain(u) \in Int
  BY PlainInt
<1>2. Before(HalfYear(u)) \in Nat
  BY BeforeInt
<1> QED BY <1>1, <1>2 DEF Clocked

(* Leap seconds have their own minute of a half-year's last day. *)
LEMMA RealExtra ==
  ASSUME NEW u, Real(u)
  PROVE  /\ IsLeapSecond(u) <=> u.sec = 60
         /\ Extra(u) \in {0, 1}
         /\ Extra(u) = 1 <=> u.sec = 60
         /\ Extra(u) = 0 <=> u.sec <= 59
         /\ Extra(u) = 1 => /\ HalfYear(u) \in has_leap_second
                            /\ Fixed(u) = HalfEnd(HalfYear(u))
         /\ EndsAfter(u) = (IF HalfYear(u) < 0 THEN 0 ELSE HalfYear(u)) + Extra(u)
<1>1. IsValid(u) /\ u.sec \in 0..60
  BY Fields DEF Real
<1>2. ASSUME u.sec = 60
      PROVE  IsLeapSecond(u) /\ HalfYear(u) \in has_leap_second /\ Fixed(u) = HalfEnd(HalfYear(u))
  <2>1. PICK i \in has_leap_second : u = LeapSecond(i)
    BY <1>2 DEF Real
  <2>2. i \in Nat
    BY LeapSet
  <2>3. IsEnd(u, i)
    BY <2>1, <2>2, LeapSecondEnds
  <2> QED BY <2>3 DEF IsEnd
<1>3. IsLeapSecond(u) => u.sec = 60
  BY <1>1 DEF IsLeapSecond
<1>4. EndsAfter(u) = (IF HalfYear(u) < 0 THEN 0 ELSE HalfYear(u)) + (IF IsLeapSecond(u) THEN 1 ELSE 0)
  BY <1>1, EndsAre
<1>5. IsLeapSecond(u) <=> u.sec = 60
  BY <1>2, <1>3
<1> QED BY <1>1, <1>2, <1>4, <1>5 DEF Extra

(* The leap seconds up to the next one. *)
LEMMA BeforeNext ==
  ASSUME NEW u, Real(u), NEW i \in Int, HalfYear(u) + Extra(u) <= i,
         \A j \in has_leap_second : EndsAfter(u) <= j => i <= j
  PROVE  Before(i) = Before(HalfYear(u)) + Extra(u)
<1>1. PICK h \in Int : h = HalfYear(u)
  <2>1. IsValid(u)
    BY DEF Real
  <2> QED BY <2>1, HalfOf
<1>2. EndsAfter(u) = (IF h < 0 THEN 0 ELSE h) + Extra(u) /\ Extra(u) \in {0, 1}
  BY <1>1, RealExtra
<1>3. \A j \in has_leap_second : j \in Int /\ j >= 0
  BY LeapSet
<1>4. CASE Extra(u) = 0
  <2>1. \A j \in has_leap_second : ~(h <= j /\ j < i)
    BY <1>2, <1>3, <1>4
  <2>2. Before(h) = Before(i)
    BY <1>1, <1>4, <2>1, BeforeGap
  <2>3. Before(h) \in Nat
    BY BeforeInt
  <2> QED BY <1>1, <1>4, <2>2, <2>3
<1>5. CASE Extra(u) = 1
  <2>1. PICK k \in Int : k = h + 1
    OBVIOUS
  <2>2. h \in has_leap_second
    BY <1>1, <1>5, RealExtra
  <2>3. Before(k) = Before(h) + 1
    BY <2>1, <2>2, BeforeLeap
  <2>4. \A j \in has_leap_second : ~(k <= j /\ j < i)
    <3>1. EndsAfter(u) = k
      BY <1>2, <1>3, <1>5, <2>1, <2>2
    <3> QED BY <1>3, <2>1, <3>1
  <2>5. Before(k) = Before(i)
    BY <1>1, <1>5, <2>1, <2>4, BeforeGap
  <2> QED BY <1>1, <1>5, <2>3, <2>5
<1> QED BY <1>2, <1>4, <1>5

(* The days before and after a number of seconds. *)
LEMMA DayOfPlain ==
  ASSUME NEW e, IsValid(e), NEW f \in Int
  PROVE  /\ (Plain(e) < 86400 * (f + 1) => Fixed(e) <= f)
         /\ (Plain(e) >= 86400 * f /\ e.sec <= 59 => Fixed(e) >= f)
         /\ Plain(e) >= 86400 * Fixed(e) /\ Plain(e) <= 86400 * (Fixed(e) + 1)
         /\ e.sec <= 59 => Plain(e) < 86400 * (Fixed(e) + 1)
<1>1. PICK d \in Int : SecondsInto(e, d)
  BY PlainDay
<1>2. PICK g \in Int, p \in Int : g = Fixed(e) /\ p = Plain(e)
  BY PlainInt
<1>3. p = 86400 * g + d /\ d >= 0 /\ d <= 86400 /\ (e.sec <= 59 => d < 86400)
  BY <1>1, <1>2, SMT DEF SecondsInto
<1>4. p < 86400 * (f + 1) => g <= f
  BY <1>3, SMT
<1>5. p >= 86400 * f => (d < 86400 => g >= f)
  BY <1>3, SMT
<1>6. p >= 86400 * g /\ p <= 86400 * (g + 1) /\ (d < 86400 => p < 86400 * (g + 1))
  BY <1>3, SMT
<1> QED BY <1>2, <1>3, <1>4, <1>5, <1>6, SMT

(* A leap second is as far as the midnight after it. *)
LEMMA PlainEnd ==
  ASSUME NEW i \in Int, NEW l, IsEnd(l, i)
  PROVE  Plain(l) = 86400 * (HalfEnd(i) + 1) /\ HalfEnd(i) \in Int
<1>1. IsValid(l) /\ Fixed(l) = HalfEnd(i) /\ l.hour = 23 /\ l.min = 59 /\ l.sec = 60
  BY DEF IsEnd
<1>2. PICK f \in Int : f = Fixed(l)
  BY <1>1, PlainInt
<1>3. Plain(l) = 86400 * f + 3600 * 23 + 60 * 59 + 60
  BY <1>1, <1>2, SMT DEF Plain
<1>4. Plain(l) = 86400 * (f + 1)
  BY <1>3, SMT
<1> QED BY <1>1, <1>2, <1>4, SMT

(* Seconds forward with no leap second on the way but the one begun with. *)
LEMMA ForwardEnd ==
  ASSUME NEW u, Real(u), NEW n \in Int, n >= 0, Extra(u) = 1 => n >= 1,
         NEW e, SecondsAfter(e, u, n),
         \A i \in has_leap_second : EndsAfter(u) <= i => HalfYear(e) <= i
  PROVE  Real(e) /\ Clocked(e) = Clocked(u) + Extra(u) + n
<1>1. IsValid(u) /\ IsValid(e) /\ Plain(e) = Plain(u) + n /\ (n # 0 => e.sec <= 59) /\ (n = 0 => e = u)
  BY DEF SecondsAfter, Real
<1>2. /\ Clocked(u) \in Int /\ Plain(u) \in Int /\ Before(HalfYear(u)) \in Int
      /\ Clocked(u) = Plain(u) + Before(HalfYear(u))
  BY <1>1, ClockedInt
<1>3. Extra(u) \in {0, 1}
  BY RealExtra
<1>4. CASE n = 0
  <2>1. e = u /\ Extra(u) = 0
    BY <1>1, <1>3, <1>4
  <2> QED BY <1>2, <1>4, <2>1
<1>5. CASE n # 0
  <2>1. e.sec <= 59 /\ Real(e)
    <3>1. e.sec <= 59 /\ e.sec \in 0..60
      BY <1>1, <1>5, Fields
    <3> QED BY <1>1, <3>1 DEF Real
  <2>2. PICK f \in Int, p \in Int, q \in Int, h \in Int, k \in Int :
          /\ f = Fixed(u) /\ p = Plain(u) /\ q = Plain(e) /\ h = HalfYear(u) /\ k = HalfYear(e)
    BY <1>1, PlainInt, HalfOf
  <2>3. q = p + n /\ n >= 1
    BY <1>1, <1>5, <2>2
  <2>4. p >= 86400 * f
    BY <1>1, <2>2, DayOfPlain
  <2>5. q >= 86400 * f
    BY <2>3, <2>4, SMT
  <2>6. Fixed(e) >= f
    BY <1>1, <2>1, <2>2, <2>5, DayOfPlain
  <2>7. h <= k
    <3>1. Fixed(u) <= Fixed(e)
      BY <1>1, <2>2, <2>6, PlainInt
    <3> QED BY <1>1, <2>2, <3>1, HalvesFollow
  <2>8. h + Extra(u) <= k
    <3>1. CASE Extra(u) = 0
      BY <2>7, <3>1
    <3>2. CASE Extra(u) = 1
      <4>1. PICK i \in has_leap_second : u = LeapSecond(i)
        BY <3>2, RealExtra DEF Real
      <4>2. i \in Nat
        BY LeapSet
      <4>3. IsEnd(u, i)
        BY <4>1, <4>2, LeapSecondEnds
      <4>4. h = i /\ f = HalfEnd(i)
        BY <2>2, <4>3 DEF IsEnd
      <4>5. Plain(u) = 86400 * (HalfEnd(i) + 1)
        BY <4>2, <4>3, PlainEnd
      <4>6. PICK g \in Int : g = f + 1
        OBVIOUS
      <4>7. q >= 86400 * g
        BY <2>2, <2>3, <4>4, <4>5, <4>6, SMT
      <4>8. Fixed(e) >= g
        BY <1>1, <2>1, <2>2, <4>7, DayOfPlain
      <4>9. HalfEnd(h) < Fixed(e)
        <5>1. Fixed(e) \in Int
          BY <1>1, PlainInt
        <5> QED BY <4>4, <4>6, <4>8, <5>1
      <4>10. h < k
        BY <1>1, <2>2, <4>9, HalfBefore
      <4> QED BY <3>2, <4>10
    <3> QED BY <1>3, <3>1, <3>2
  <2>9. Before(k) = Before(h) + Extra(u)
    BY <2>2, <2>8, BeforeNext
  <2>10. Clocked(e) = q + Before(k)
    BY <2>2 DEF Clocked
  <2> QED BY <1>2, <1>3, <2>1, <2>2, <2>3, <2>9, <2>10
<1> QED BY <1>4, <1>5

(* The way to the next leap second, and the midnight after it. *)
NextLeap(u) == LeapSecond(Min(NextLeapSeconds(u)))
ToNextLeap(u) == SecondsBetween(u, NextLeap(u))
Midnight(l) == [addDays(l, 1) EXCEPT !.hour = 0, !.min = 0, !.sec = 0]

IsNextLeap(u, i) ==
  /\ EndsAfter(u) <= i /\ \A j \in has_leap_second : EndsAfter(u) <= j => i <= j
  /\ IsEnd(NextLeap(u), i) /\ NextLeap(u) = LeapSecond(i)
  /\ ToNextLeap(u) = Plain(NextLeap(u)) - Plain(u) /\ ToNextLeap(u) \in Int

(* Nothing is counted between dates with no leap second between them. *)
LEMMA NoCount ==
  ASSUME NEW a, NEW b, LeapsBetween(a, b) = 0, LeapsBetween(b, a) = 0
  PROVE  countLeapSeconds(a, b) = 0
<1>1. PICK z \in Int : z = 0
  OBVIOUS
<1>2. PICK x \in Int : x = -z /\ x + z = 0
  OBVIOUS
<1>3. x = 0 /\ -LeapsBetween(b, a) = x
  <2>1. x + z = 0
    BY <1>2, Zenon
  <2>2. x = 0
    BY <1>1, <2>1
  <2>3. -LeapsBetween(b, a) = x
    BY <1>1, <1>2, Zenon
  <2> QED BY <2>2, <2>3
<1>4. countLeapSeconds(a, b) = IF Later(a, b) THEN -LeapsBetween(b, a) ELSE LeapsBetween(a, b)
  BY CountIs
<1>5. CASE Later(a, b)
  BY <1>3, <1>4, <1>5, Zenon
<1>6. CASE ~Later(a, b)
  BY <1>4, <1>6, Zenon
<1> QED BY <1>5, <1>6

(* The next leap second ends the first half-year with one that ends after u. *)
LEMMA NextLeapIs ==
  ASSUME NEW u, IsValid(u), NextLeapSeconds(u) # {}
  PROVE  \E i \in has_leap_second : IsNextLeap(u, i)
<1>1. PICK S : S = NextLeapSeconds(u)
  OBVIOUS
<1>2. S = {i \in has_leap_second : i >= EndsAfter(u)}
  BY <1>1 DEF NextLeapSeconds
<1>3. S \subseteq Nat /\ S # {} /\ \A j \in S : j \in has_leap_second
  <2>1. \A j \in S : j \in has_leap_second
    BY <1>2
  <2>2. \A j \in has_leap_second : j \in Nat
    BY LeapSet
  <2> QED BY <1>1, <2>1, <2>2
<1>4. PICK m \in S : \A j \in S : m <= j
  BY <1>3, LeastNumber
<1>5. PICK i : i = Min(S)
  OBVIOUS
<1>6. i \in S /\ \A j \in S : i <= j
  BY <1>4, <1>5, Zenon DEF Min
<1>7. i \in has_leap_second /\ i \in Nat
  BY <1>3, <1>6
<1>8. PICK h \in Int, a \in Int : h = HalfYear(u) /\ a = EndsAfter(u) /\ h <= a /\ a <= i
  <2>1. /\ HalfYear(u) \in Int
        /\ EndsAfter(u) = (IF HalfYear(u) < 0 THEN 0 ELSE HalfYear(u)) + (IF IsLeapSecond(u) THEN 1 ELSE 0)
    BY EndsAre
  <2>2. i >= EndsAfter(u)
    BY <1>2, <1>6
  <2> QED BY <1>7, <2>1, <2>2
<1>9. \A j \in has_leap_second : EndsAfter(u) <= j => i <= j
  <2> SUFFICES ASSUME NEW j \in has_leap_second, EndsAfter(u) <= j PROVE i <= j
    OBVIOUS
  <2>1. j \in Int
    BY LeapSet
  <2>2. j \in S
    BY <1>2, <1>8, <2>1
  <2> QED BY <1>6, <2>2
<1>10. PICK l : l = NextLeap(u) /\ l = LeapSecond(i)
  BY <1>1, <1>5 DEF NextLeap
<1>11. IsEnd(l, i)
  BY <1>7, <1>10, LeapSecondEnds
<1>12. IsValid(l) /\ HalfYear(l) = i /\ IsLeapSecond(l)
  BY <1>11 DEF IsEnd
<1>13. EndsAfter(l) = i + 1
  BY <1>7, <1>12, EndsAre
<1>14. LeapsBetween(u, l) = 0
  <2>1. \A j \in has_leap_second : ~(EndsAfter(u) <= j /\ j < HalfYear(l))
    <3>1. \A j \in has_leap_second : j \in Int
      BY LeapSet
    <3> QED BY <1>7, <1>9, <1>12, <3>1
  <2> QED BY <1>12, <2>1, NoLeapsBetween
<1>15. LeapsBetween(l, u) = 0
  <2>1. \A j \in has_leap_second : ~(EndsAfter(l) <= j /\ j < HalfYear(u))
    <3>1. \A j \in has_leap_second : j \in Int
      BY LeapSet
    <3> QED BY <1>7, <1>8, <1>13, <3>1
  <2> QED BY <1>12, <2>1, NoLeapsBetween
<1>16. countLeapSeconds(u, l) = 0
  BY <1>14, <1>15, NoCount
<1>17. SecondsBetween(u, l) = (Plain(l) - Plain(u)) + countLeapSeconds(u, l)
  BY <1>12, SecondsToIs
<1>18. Plain(l) \in Int /\ Plain(u) \in Int
  BY <1>12, PlainInt
<1>19. ToNextLeap(u) = Plain(l) - Plain(u) /\ ToNextLeap(u) \in Int
  BY <1>10, <1>16, <1>17, <1>18 DEF ToNextLeap
<1>20. IsNextLeap(u, i)
  BY <1>8, <1>9, <1>10, <1>11, <1>19 DEF IsNextLeap
<1> QED BY <1>7, <1>20

(* Midnight begins the next half-year. *)
BeginsAfter(m, i) ==
  /\ IsValid(m) /\ Fixed(m) = HalfEnd(i) + 1 /\ m.sec = 0
  /\ HalfYear(m) = i + 1 /\ EndsAfter(m) = i + 1
  /\ Plain(m) = 86400 * (HalfEnd(i) + 1)

(* The midnight after a leap second begins the half-year after it. *)
LEMMA MidnightBegins ==
  ASSUME NEW i \in Nat, NEW l, IsEnd(l, i)
  PROVE  BeginsAfter(Midnight(l), i)
<1>1. IsValid(l) /\ Fixed(l) = HalfEnd(i)
  BY DEF IsEnd
<1>2. PICK one \in Int, z \in 0..23, y \in 0..59, x \in 0..60 : one = 1 /\ z = 0 /\ y = 0 /\ x = 0
  OBVIOUS
<1>3. PICK e : e = addDays(l, one)
  OBVIOUS
<1>4. DaysAfter(e, l, one)
  BY <1>1, <1>3, AddDaysIsExact
<1>5. IsValid(e) /\ Fixed(e) = Fixed(l) + 1
  BY <1>2, <1>4 DEF DaysAfter
<1>6. PICK m : m = AtTime(e, z, y, x)
  OBVIOUS
<1>7. IsAtTime(m, e, z, y, x)
  BY <1>5, <1>6, OtherTime
<1>8. Midnight(l) = m
  BY <1>2, <1>3, <1>6 DEF Midnight, AtTime
<1>9. PICK f \in Int, g \in Int, j \in Int, k \in Int :
        f = HalfEnd(i) /\ g = f + 1 /\ j = i + 1 /\ k = j + 1
  <2>1. Fixed(l) \in Int
    BY <1>1, PlainInt
  <2> QED BY <1>1, <2>1
<1>10. IsValid(m) /\ Fixed(m) = g /\ m.hour = 0 /\ m.min = 0 /\ m.sec = 0
  BY <1>1, <1>2, <1>5, <1>7, <1>9 DEF IsAtTime
<1>11. Plain(m) = 86400 * g
  BY <1>9, <1>10, SMT DEF Plain
<1>12. i < HalfYear(m)
  BY <1>9, <1>10, HalfBefore
<1>13. ~(j < HalfYear(m))
  <2>1. HalfEnd(i) < HalfEnd(j) /\ HalfEnd(j) \in Int
    BY <1>9, HalvesInOrder
  <2>2. ~(HalfEnd(j) < Fixed(m))
    BY <1>9, <1>10, <2>1
  <2> QED BY <1>9, <1>10, <2>2, HalfBefore
<1>14. HalfYear(m) = j
  <2>1. HalfYear(m) \in Int
    BY <1>10, HalfOf
  <2> QED BY <1>9, <1>12, <1>13, <2>1
<1>15. ~IsLeapSecond(m)
  BY <1>10 DEF IsLeapSecond
<1>16. EndsAfter(m) = j
  BY <1>9, <1>10, <1>14, <1>15, EndsAre
<1> QED BY <1>8, <1>9, <1>10, <1>11, <1>14, <1>16, SMT DEF BeginsAfter

------------------------------------------------------------------------------
(* Seconds forward and back, over leap seconds *)

(* LeapForward as a loop. *)
Counts == ValidDates \X Int

(* A member of Counts, by its date and its number of seconds. *)
LEMMA CountParts ==
  ASSUME NEW t \in Counts
  PROVE  t[1] \in ValidDates /\ IsValid(t[1]) /\ t[2] \in Int /\ t = <<t[1], t[2]>>
  BY DEF Counts, IsValid

IsCount(t, u, n) == t = <<u, n>> /\ t[1] = u /\ t[2] = n

(* A date and a number of seconds make a member of Counts. *)
LEMMA ACount ==
  ASSUME NEW u, IsValid(u), NEW n \in Int
  PROVE  \E t \in Counts : IsCount(t, u, n)
<1>1. PICK t \in Counts : t = <<u, n>>
  BY DEF Counts, IsValid
<1> QED BY <1>1 DEF IsCount

ForwardOver(u, n) == NextLeapSeconds(u) = {} \/ ToNextLeap(u) > n
ForwardDone == {t \in Counts : ForwardOver(t[1], t[2]) \/ ToNextLeap(t[1]) = t[2]}
ForwardResult == [t \in Counts |-> IF ForwardOver(t[1], t[2]) THEN PlainSeconds(t[1], t[2])
                                   ELSE IF ToNextLeap(t[1]) = t[2] THEN NextLeap(t[1])
                                   ELSE t[1]]
ForwardRound == [t \in Counts |->
  IF t \in ForwardDone THEN t ELSE <<Midnight(NextLeap(t[1])), t[2] - ToNextLeap(t[1]) - 1>>]

(* One round: over the next leap second. *)
IsForwardRound(t, w, i) ==
  /\ IsNextLeap(t[1], i) /\ ToNextLeap(t[1]) < t[2]
  /\ w = ForwardRound[t] /\ w \in Counts
  /\ w[1] = Midnight(NextLeap(t[1])) /\ w[2] = t[2] - ToNextLeap(t[1]) - 1
  /\ BeginsAfter(w[1], i)

(* A round of LeapForward that is not the last goes on from such a midnight. *)
LEMMA ForwardRoundIs ==
  ASSUME NEW t \in Counts, t \notin ForwardDone
  PROVE  \E i \in has_leap_second, w \in Counts : IsForwardRound(t, w, i)
<1>1. IsValid(t[1]) /\ t[2] \in Int
  BY CountParts
<1>2. NextLeapSeconds(t[1]) # {} /\ ~(ToNextLeap(t[1]) > t[2]) /\ ToNextLeap(t[1]) # t[2]
  BY DEF ForwardDone, ForwardOver
<1>3. PICK i \in has_leap_second : IsNextLeap(t[1], i)
  BY <1>1, <1>2, NextLeapIs
<1>4. i \in Nat
  BY LeapSet
<1>5. PICK m : m = Midnight(NextLeap(t[1]))
  OBVIOUS
<1>6. BeginsAfter(m, i)
  BY <1>3, <1>4, <1>5, MidnightBegins DEF IsNextLeap
<1>7. PICK c \in Int : c = ToNextLeap(t[1])
  BY <1>3 DEF IsNextLeap
<1>8. PICK n \in Int : n = t[2] - c - 1
  BY <1>1
<1>9. IsValid(m)
  BY <1>6 DEF BeginsAfter
<1>10. PICK w \in Counts : IsCount(w, m, n)
  BY <1>9, ACount
<1>11. w = <<m, n>> /\ w[1] = m /\ w[2] = n
  BY <1>10 DEF IsCount
<1>12. ForwardRound[t] = w
  BY <1>5, <1>7, <1>8, <1>11 DEF ForwardRound
<1>13. ToNextLeap(t[1]) < t[2]
  BY <1>1, <1>2, <1>7
<1>14. IsForwardRound(t, w, i)
  BY <1>3, <1>5, <1>6, <1>7, <1>8, <1>11, <1>12, <1>13 DEF IsForwardRound
<1> QED BY <1>14

(* LeapForward is a loop: leap seconds ahead get fewer. *)
LEMMA ForwardLoop ==
  \E mu : Loop(Counts, ValidDates, ForwardDone, ForwardResult, ForwardRound, mu)
<1>1. PICK mu : mu = [t \in Counts |-> IF EndsAfter(t[1]) <= 90 THEN 90 - EndsAfter(t[1]) ELSE 0]
  OBVIOUS
<1>2. ASSUME NEW t \in Counts
      PROVE  EndsAfter(t[1]) \in Int /\ EndsAfter(t[1]) >= 0
  <2>1. IsValid(t[1])
    BY CountParts
  <2>2. PICK u : u = t[1]
    OBVIOUS
  <2>3. /\ HalfYear(u) \in Int
        /\ EndsAfter(u) = (IF HalfYear(u) < 0 THEN 0 ELSE HalfYear(u)) + (IF IsLeapSecond(u) THEN 1 ELSE 0)
    BY <2>1, <2>2, EndsAre
  <2> QED BY <2>2, <2>3
<1>3. mu \in [Counts -> Nat]
  BY <1>1, <1>2
<1>4. ASSUME NEW t \in Counts, t \notin ForwardDone
      PROVE  ForwardRound[t] \in Counts /\ mu[ForwardRound[t]] < mu[t]
  <2>1. PICK i \in has_leap_second, w \in Counts : IsForwardRound(t, w, i)
    BY <1>4, ForwardRoundIs
  <2>2. i \in Int /\ i <= 89
    BY LeapSet
  <2>3. EndsAfter(w[1]) = i + 1 /\ EndsAfter(t[1]) <= i
    BY <2>1 DEF IsForwardRound, BeginsAfter, IsNextLeap
  <2>4. mu[w] = 90 - EndsAfter(w[1]) /\ mu[t] = 90 - EndsAfter(t[1])
    BY <1>1, <1>2, <2>2, <2>3
  <2>5. mu[w] < mu[t]
    BY <1>2, <2>2, <2>3, <2>4
  <2> QED BY <2>1, <2>5 DEF IsForwardRound
<1>5. ForwardRound \in [Counts -> Counts]
  <2>1. ASSUME NEW t \in Counts PROVE ForwardRound[t] \in Counts
    <3>1. CASE t \in ForwardDone
      BY <3>1 DEF ForwardRound
    <3> QED BY <1>4, <3>1
  <2> QED BY <2>1 DEF ForwardRound
<1>6. ForwardResult \in [Counts -> ValidDates]
  <2>1. ASSUME NEW t \in Counts PROVE ForwardResult[t] \in ValidDates
    <3>1. t[1] \in ValidDates /\ IsValid(t[1]) /\ t[2] \in Int
      BY CountParts
    <3>2. CASE ForwardOver(t[1], t[2])
      <4>1. SecondsAfter(PlainSeconds(t[1], t[2]), t[1], t[2])
        BY <3>1, PlainSecondsIsExact
      <4> QED BY <3>2, <4>1 DEF ForwardResult, SecondsAfter, IsValid
    <3>3. CASE ~ForwardOver(t[1], t[2]) /\ ToNextLeap(t[1]) = t[2]
      <4>1. NextLeapSeconds(t[1]) # {}
        BY <3>3 DEF ForwardOver
      <4>2. PICK i \in has_leap_second : IsNextLeap(t[1], i)
        BY <3>1, <4>1, NextLeapIs
      <4>3. IsValid(NextLeap(t[1]))
        BY <4>2 DEF IsNextLeap, IsEnd
      <4> QED BY <3>3, <4>3 DEF ForwardResult, IsValid
    <3>4. CASE ~ForwardOver(t[1], t[2]) /\ ToNextLeap(t[1]) # t[2]
      BY <3>1, <3>4 DEF ForwardResult
    <3> QED BY <3>2, <3>3, <3>4
  <2> QED BY <2>1 DEF ForwardResult
<1>7. ForwardDone \subseteq Counts
  BY DEF ForwardDone
<1> QED BY <1>3, <1>4, <1>5, <1>6, <1>7 DEF Loop

(* LeapForward is defined by that loop. *)
LEMMA ForwardRuns == Runs(LeapForward, Counts, ForwardDone, ForwardResult, ForwardRound)
<1>1. PICK g \in [Counts -> ValidDates] : Runs(g, Counts, ForwardDone, ForwardResult, ForwardRound)
  BY ForwardLoop, LoopRuns
<1> DEFINE Body(f, t) ==
      IF ForwardOver(t[1], t[2]) THEN PlainSeconds(t[1], t[2])
      ELSE IF ToNextLeap(t[1]) = t[2] THEN NextLeap(t[1])
      ELSE f[<<Midnight(NextLeap(t[1])), t[2] - ToNextLeap(t[1]) - 1>>]
<1>2. g = [t \in Counts |-> Body(g, t)]
  <2>1. \A t \in Counts : g[t] = Body(g, t)
    BY <1>1 DEF Runs, ForwardDone, ForwardResult, ForwardRound
  <2> QED BY <1>1, <2>1
<1>3. LeapForward = [t \in Counts |-> Body(LeapForward, t)]
  <2>1. \E f : f = [t \in Counts |-> Body(f, t)]
    BY <1>2
  <2> QED BY <2>1, Zenon DEF LeapForward, Counts, ForwardOver, ToNextLeap, SecondsBetween,
                             NextLeap, Midnight
<1>4. \A t \in Counts : LeapForward[t] = Body(LeapForward, t)
  BY <1>3
<1> QED BY <1>4 DEF Runs, ForwardDone, ForwardResult, ForwardRound

(* It comes to a date. *)
LEMMA ForwardIsValid ==
  ASSUME NEW u, IsValid(u), NEW n \in Int
  PROVE  IsValid(Forward(u, n))
<1>1. PICK mu : Loop(Counts, ValidDates, ForwardDone, ForwardResult, ForwardRound, mu)
  BY ForwardLoop
<1>2. Runs(LeapForward, Counts, ForwardDone, ForwardResult, ForwardRound)
  BY ForwardRuns
<1>3. PICK I, Q : I = Counts /\ Q = ValidDates
  OBVIOUS
<1>4. Kept(I, Counts, ForwardDone, ForwardRound)
  BY <1>1, <1>3 DEF Kept, Loop
<1>5. Ends(I, ForwardDone, ForwardResult, Q)
  BY <1>1, <1>3 DEF Ends, Loop
<1>6. Gives(LeapForward, I, Q)
  BY <1>1, <1>2, <1>4, <1>5, LoopKeeps
<1>7. PICK t \in Counts : IsCount(t, u, n)
  BY ACount
<1>8. LeapForward[t] \in ValidDates
  BY <1>3, <1>6 DEF Gives
<1> QED BY <1>7, <1>8 DEF Forward, IsCount, IsValid

(* Forward counts the leap seconds on its way. *)
LEMMA ForwardIsExact ==
  ASSUME NEW u, Real(u), NEW n \in Int, n >= 0, Extra(u) = 1 => n >= 1
  PROVE  Real(Forward(u, n)) /\ Clocked(Forward(u, n)) = Clocked(u) + Extra(u) + n
<1>1. IsValid(u) /\ Clocked(u) \in Int /\ Extra(u) \in {0, 1}
  BY ClockedInt, RealExtra DEF Real
<1>2. PICK T \in Int : T = Clocked(u) + Extra(u) + n
  BY <1>1
<1>3. PICK I : I = {t \in Counts : /\ Real(t[1]) /\ t[2] >= 0 /\ (Extra(t[1]) = 1 => t[2] >= 1)
                                   /\ Clocked(t[1]) + Extra(t[1]) + t[2] = T}
  OBVIOUS
<1>4. PICK Q : Q = {e \in ValidDates : Real(e) /\ Clocked(e) = T}
  OBVIOUS
<1>5. ASSUME NEW t \in I
      PROVE  /\ t \in Counts /\ Real(t[1]) /\ IsValid(t[1]) /\ t[2] \in Int /\ t[2] >= 0
             /\ (Extra(t[1]) = 1 => t[2] >= 1) /\ Clocked(t[1]) + Extra(t[1]) + t[2] = T
  <2>1. t \in Counts
    BY <1>3
  <2> QED BY <1>3, <2>1, CountParts
<1>6. ASSUME NEW t \in I \ ForwardDone
      PROVE  ForwardRound[t] \in I
  <2>1. /\ t \in Counts /\ Real(t[1]) /\ IsValid(t[1]) /\ t[2] \in Int /\ t[2] >= 0
        /\ (Extra(t[1]) = 1 => t[2] >= 1) /\ Clocked(t[1]) + Extra(t[1]) + t[2] = T
    BY <1>5
  <2>2. PICK i \in has_leap_second, w \in Counts : IsForwardRound(t, w, i)
    BY <2>1, ForwardRoundIs
  <2>3. PICK c \in Int : c = ToNextLeap(t[1])
    BY <2>2 DEF IsForwardRound, IsNextLeap
  <2>4. i \in Nat
    BY LeapSet
  <2>5. IsEnd(NextLeap(t[1]), i) /\ c = Plain(NextLeap(t[1])) - Plain(t[1])
    BY <2>2, <2>3 DEF IsForwardRound, IsNextLeap
  <2>6. Plain(NextLeap(t[1])) = 86400 * (HalfEnd(i) + 1)
    BY <2>4, <2>5, PlainEnd
  <2>7. IsValid(w[1]) /\ HalfYear(w[1]) = i + 1 /\ Plain(w[1]) = 86400 * (HalfEnd(i) + 1) /\ w[1].sec = 0
    BY <2>2 DEF IsForwardRound, BeginsAfter
  <2>8. Real(w[1]) /\ Extra(w[1]) = 0
    BY <2>7 DEF Real, Extra
  <2>9. Before(i + 1) = Before(i) + 1
    <3>1. PICK k \in Int : k = i + 1
      BY <2>4
    <3> QED BY <3>1, BeforeLeap
  <2>10. Before(i) = Before(HalfYear(t[1])) + Extra(t[1])
    <3>1. EndsAfter(t[1]) <= i /\ \A j \in has_leap_second : EndsAfter(t[1]) <= j => i <= j
      BY <2>2 DEF IsForwardRound, IsNextLeap
    <3>2. HalfYear(t[1]) + Extra(t[1]) <= i
      <4>1. HalfYear(t[1]) \in Int /\ Extra(t[1]) \in {0, 1}
        BY <2>1, HalfOf, RealExtra
      <4>2. EndsAfter(t[1]) = (IF HalfYear(t[1]) < 0 THEN 0 ELSE HalfYear(t[1])) + Extra(t[1])
        BY <2>1, RealExtra
      <4> QED BY <2>4, <3>1, <4>1, <4>2
    <3> QED BY <2>1, <2>4, <3>1, <3>2, BeforeNext
  <2>11. /\ Clocked(t[1]) = Plain(t[1]) + Before(HalfYear(t[1]))
         /\ Plain(t[1]) \in Int /\ Before(HalfYear(t[1])) \in Int /\ Extra(t[1]) \in {0, 1}
    BY <2>1, ClockedInt, RealExtra
  <2>12. Plain(w[1]) = Plain(t[1]) + c
    <3>1. Plain(w[1]) = Plain(NextLeap(t[1])) /\ Plain(w[1]) \in Int
      BY <2>6, <2>7, PlainInt
    <3> QED BY <2>5, <2>11, <3>1
  <2>13. Clocked(w[1]) = Plain(t[1]) + c + Before(HalfYear(t[1])) + Extra(t[1]) + 1
    BY <2>7, <2>9, <2>10, <2>11, <2>12 DEF Clocked
  <2>14. w[2] = t[2] - c - 1 /\ c < t[2] /\ w = ForwardRound[t]
    BY <2>2, <2>3 DEF IsForwardRound
  <2>15. w[2] >= 0 /\ Clocked(w[1]) + Extra(w[1]) + w[2] = T
    BY <2>1, <2>8, <2>11, <2>13, <2>14
  <2>16. w \in I
    BY <1>3, <2>8, <2>15
  <2> QED BY <2>14, <2>16
<1>7. ASSUME NEW t \in I \cap ForwardDone
      PROVE  ForwardResult[t] \in Q
  <2>1. /\ t \in Counts /\ Real(t[1]) /\ IsValid(t[1]) /\ t[2] \in Int /\ t[2] >= 0
        /\ (Extra(t[1]) = 1 => t[2] >= 1) /\ Clocked(t[1]) + Extra(t[1]) + t[2] = T
    BY <1>5
  <2>2. /\ Clocked(t[1]) = Plain(t[1]) + Before(HalfYear(t[1]))
        /\ Plain(t[1]) \in Int /\ Before(HalfYear(t[1])) \in Int /\ Extra(t[1]) \in {0, 1}
    BY <2>1, ClockedInt, RealExtra
  <2>3. CASE ForwardOver(t[1], t[2])
    <3>1. PICK e : e = PlainSeconds(t[1], t[2])
      OBVIOUS
    <3>2. SecondsAfter(e, t[1], t[2])
      BY <2>1, <3>1, PlainSecondsIsExact
    <3>3. \A i \in has_leap_second : EndsAfter(t[1]) <= i => HalfYear(e) <= i
      <4>1. IsValid(e) /\ Plain(e) = Plain(t[1]) + t[2]
        BY <3>2 DEF SecondsAfter
      <4>2. CASE NextLeapSeconds(t[1]) = {}
        <5>1. \A i \in has_leap_second : ~(i >= EndsAfter(t[1]))
          BY <4>2 DEF NextLeapSeconds
        <5>2. EndsAfter(t[1]) \in Int
          <6>1. HalfYear(t[1]) \in Int
            BY <2>1, HalfOf
          <6>2. EndsAfter(t[1]) = (IF HalfYear(t[1]) < 0 THEN 0 ELSE HalfYear(t[1])) + Extra(t[1])
            BY <2>1, RealExtra
          <6> QED BY <2>2, <6>1, <6>2
        <5>3. \A i \in has_leap_second : i \in Int
          BY LeapSet
        <5> QED BY <5>1, <5>2, <5>3
      <4>3. CASE NextLeapSeconds(t[1]) # {} /\ ToNextLeap(t[1]) > t[2]
        <5>1. PICK i \in has_leap_second : IsNextLeap(t[1], i)
          BY <2>1, <4>3, NextLeapIs
        <5>2. i \in Int
          BY LeapSet
        <5>3. /\ IsEnd(NextLeap(t[1]), i) /\ ToNextLeap(t[1]) = Plain(NextLeap(t[1])) - Plain(t[1])
              /\ \A j \in has_leap_second : EndsAfter(t[1]) <= j => i <= j
          BY <5>1 DEF IsNextLeap
        <5>4. Plain(NextLeap(t[1])) = 86400 * (HalfEnd(i) + 1) /\ HalfEnd(i) \in Int
          BY <5>2, <5>3, PlainEnd
        <5>5. PICK f \in Int, p \in Int : f = HalfEnd(i) /\ p = 86400 * (f + 1) /\ p = Plain(NextLeap(t[1]))
          BY <5>4, SMT
        <5>6. Plain(e) < p
          BY <2>1, <2>2, <4>1, <4>3, <5>3, <5>5
        <5>7. Plain(e) < 86400 * (f + 1)
          BY <5>5, <5>6, SMT
        <5>8. Fixed(e) <= f /\ Fixed(e) \in Int
          BY <4>1, <5>7, DayOfPlain, PlainInt
        <5>9. ~(i < HalfYear(e))
          BY <4>1, <5>2, <5>5, <5>8, HalfBefore
        <5>10. HalfYear(e) \in Int
          BY <4>1, HalfOf
        <5>11. \A j \in has_leap_second : j \in Int
          BY LeapSet
        <5> QED BY <5>2, <5>3, <5>9, <5>10, <5>11
      <4> QED BY <2>3, <4>2, <4>3 DEF ForwardOver
    <3>4. Real(e) /\ Clocked(e) = Clocked(t[1]) + Extra(t[1]) + t[2]
      BY <2>1, <3>2, <3>3, ForwardEnd
    <3>5. ForwardResult[t] = e
      BY <2>1, <2>3, <3>1 DEF ForwardResult
    <3> QED BY <1>4, <2>1, <3>4, <3>5 DEF Real, IsValid
  <2>4. CASE ~ForwardOver(t[1], t[2]) /\ ToNextLeap(t[1]) = t[2]
    <3>1. NextLeapSeconds(t[1]) # {}
      BY <2>4 DEF ForwardOver
    <3>2. PICK i \in has_leap_second : IsNextLeap(t[1], i)
      BY <2>1, <3>1, NextLeapIs
    <3>3. i \in Int
      BY LeapSet
    <3>4. PICK l : l = NextLeap(t[1])
      OBVIOUS
    <3>5. /\ IsEnd(l, i) /\ l = LeapSecond(i) /\ t[2] = Plain(l) - Plain(t[1])
          /\ EndsAfter(t[1]) <= i /\ \A j \in has_leap_second : EndsAfter(t[1]) <= j => i <= j
      BY <2>4, <3>2, <3>4 DEF IsNextLeap
    <3>6. Real(l) /\ HalfYear(l) = i /\ IsValid(l)
      BY <3>5 DEF Real, IsEnd
    <3>7. HalfYear(t[1]) + Extra(t[1]) <= i
      <4>1. HalfYear(t[1]) \in Int /\ Extra(t[1]) \in {0, 1}
        BY <2>1, HalfOf, RealExtra
      <4>2. EndsAfter(t[1]) = (IF HalfYear(t[1]) < 0 THEN 0 ELSE HalfYear(t[1])) + Extra(t[1])
        BY <2>1, RealExtra
      <4> QED BY <3>3, <3>5, <4>1, <4>2
    <3>8. Before(i) = Before(HalfYear(t[1])) + Extra(t[1])
      BY <2>1, <3>3, <3>5, <3>7, BeforeNext
    <3>9. Clocked(l) = Plain(l) + Before(i) /\ Plain(l) \in Int
      BY <3>6, PlainInt DEF Clocked
    <3>10. Clocked(l) = T
      BY <2>1, <2>2, <3>5, <3>8, <3>9
    <3>11. ForwardResult[t] = l
      BY <2>1, <2>4, <3>4 DEF ForwardResult
    <3> QED BY <1>4, <3>6, <3>10, <3>11 DEF IsValid
  <2> QED BY <2>1, <2>3, <2>4 DEF ForwardDone
<1>8. PICK mu : Loop(Counts, ValidDates, ForwardDone, ForwardResult, ForwardRound, mu)
  BY ForwardLoop
<1>9. Runs(LeapForward, Counts, ForwardDone, ForwardResult, ForwardRound)
  BY ForwardRuns
<1>10. Kept(I, Counts, ForwardDone, ForwardRound)
  BY <1>5, <1>6 DEF Kept
<1>11. Ends(I, ForwardDone, ForwardResult, Q)
  BY <1>7 DEF Ends
<1>12. Gives(LeapForward, I, Q)
  BY <1>8, <1>9, <1>10, <1>11, LoopKeeps
<1>13. PICK t \in Counts : IsCount(t, u, n)
  BY <1>1, ACount
<1>14. t[1] = u /\ t[2] = n /\ t = <<u, n>>
  BY <1>13 DEF IsCount
<1>15. t \in I
  BY <1>1, <1>2, <1>3, <1>14
<1>16. LeapForward[t] \in Q
  BY <1>12, <1>15 DEF Gives
<1>17. Forward(u, n) \in Q
  BY <1>14, <1>16 DEF Forward
<1> QED BY <1>2, <1>4, <1>17

(* Back to the leap second before, and the second before that. *)
PrevLeap(u) == LeapSecond(Max(PrevLeapSeconds(u)))
ToPrevLeap(u) == SecondsBetween(u, PrevLeap(u)) - 1
SecondBefore(l) == [l EXCEPT !.sec = 59]

IsPrevLeap(u, i) ==
  /\ i < HalfYear(u) /\ \A j \in has_leap_second : j < HalfYear(u) => j <= i
  /\ IsEnd(PrevLeap(u), i) /\ PrevLeap(u) = LeapSecond(i)
  /\ ToPrevLeap(u) = Plain(PrevLeap(u)) - Plain(u) - 1 /\ ToPrevLeap(u) \in Int

(* A bounded set of numbers has a largest. *)
LEMMA GreatestNumber ==
  ASSUME NEW T, T \subseteq Nat, T # {}, NEW b \in Nat, \A y \in T : y <= b
  PROVE  \E m \in T : \A y \in T : y <= m
<1>1. PICK R : R = {b - y : y \in T}
  OBVIOUS
<1>2. R \subseteq Nat /\ R # {}
  <2>1. \A y \in T : b - y \in Nat
    <3> SUFFICES ASSUME NEW y \in T PROVE b - y \in Nat
      OBVIOUS
    <3>1. y \in Nat /\ y <= b
      OBVIOUS
    <3> QED BY <3>1
  <2> QED BY <1>1, <2>1
<1>3. PICK k \in R : \A j \in R : k <= j
  BY <1>2, LeastNumber
<1>4. PICK m \in T : k = b - m
  BY <1>1
<1>5. ASSUME NEW y \in T PROVE y <= m
  <2>1. b - y \in R
    BY <1>1
  <2>2. b - m <= b - y /\ y \in Nat /\ m \in Nat
    BY <1>3, <1>4, <2>1
  <2> QED BY <2>2
<1> QED BY <1>5

(* The leap second before ends the last half-year with one that ends before u. *)
LEMMA PrevLeapIs ==
  ASSUME NEW u, IsValid(u), PrevLeapSeconds(u) # {}
  PROVE  \E i \in has_leap_second : IsPrevLeap(u, i)
<1>1. PICK S : S = PrevLeapSeconds(u)
  OBVIOUS
<1>2. PICK h \in Int, b \in Int : h = HalfYear(u) /\ b = h - 1 /\ b = EndsBefore(u)
  <2>1. HalfYear(u) \in Int /\ EndsBefore(u) = HalfYear(u) - 1
    BY EndsAre
  <2> QED BY <2>1
<1>3. S = {i \in has_leap_second : i <= b}
  BY <1>1, <1>2 DEF PrevLeapSeconds
<1>4. \A j \in has_leap_second : j \in Nat /\ j <= 89
  BY LeapSet
<1>5. S \subseteq Nat /\ S # {} /\ \A j \in S : j \in has_leap_second /\ j <= 89
  BY <1>1, <1>3, <1>4
<1>6. PICK m \in S : \A j \in S : j <= m
  <2>1. PICK c \in Nat : c = 89
    OBVIOUS
  <2>2. \A j \in S : j <= c
    BY <1>5, <2>1
  <2> QED BY <1>5, <2>2, GreatestNumber
<1>7. PICK i : i = Max(S)
  OBVIOUS
<1>8. i \in S /\ \A j \in S : i >= j
  <2>1. \A j \in S : m >= j
    BY <1>5, <1>6
  <2> QED BY <1>7, <2>1, Zenon DEF Max
<1>9. i \in has_leap_second /\ i \in Nat /\ i < h
  BY <1>2, <1>3, <1>4, <1>8
<1>10. \A j \in has_leap_second : j < h => j <= i
  <2> SUFFICES ASSUME NEW j \in has_leap_second, j < h PROVE j <= i
    OBVIOUS
  <2>1. j \in Int
    BY <1>4
  <2>2. j \in S
    BY <1>2, <1>3, <2>1
  <2> QED BY <1>8, <1>9, <2>1, <2>2
<1>11. PICK l : l = PrevLeap(u) /\ l = LeapSecond(i)
  BY <1>1, <1>7 DEF PrevLeap
<1>12. IsEnd(l, i)
  BY <1>9, <1>11, LeapSecondEnds
<1>13. IsValid(l) /\ HalfYear(l) = i /\ IsLeapSecond(l)
  BY <1>12 DEF IsEnd
<1>14. EndsAfter(l) = i + 1
  BY <1>9, <1>13, EndsAre
<1>15. EndsAfter(u) \in Int /\ h <= EndsAfter(u)
  <2>1. EndsAfter(u) = (IF HalfYear(u) < 0 THEN 0 ELSE HalfYear(u)) + (IF IsLeapSecond(u) THEN 1 ELSE 0)
    BY EndsAre
  <2> QED BY <1>2, <2>1
<1>16. LeapsBetween(u, l) = 0
  <2>1. \A j \in has_leap_second : ~(EndsAfter(u) <= j /\ j < HalfYear(l))
    BY <1>4, <1>9, <1>13, <1>15
  <2> QED BY <1>13, <2>1, NoLeapsBetween
<1>17. LeapsBetween(l, u) = 0
  <2>1. \A j \in has_leap_second : ~(EndsAfter(l) <= j /\ j < HalfYear(u))
    BY <1>2, <1>4, <1>9, <1>10, <1>14
  <2> QED BY <1>13, <2>1, NoLeapsBetween
<1>18. countLeapSeconds(u, l) = 0
  BY <1>16, <1>17, NoCount
<1>19. SecondsBetween(u, l) = (Plain(l) - Plain(u)) + countLeapSeconds(u, l)
  BY <1>13, SecondsToIs
<1>20. Plain(l) \in Int /\ Plain(u) \in Int
  BY <1>13, PlainInt
<1>21. ToPrevLeap(u) = Plain(l) - Plain(u) - 1 /\ ToPrevLeap(u) \in Int
  BY <1>11, <1>18, <1>19, <1>20 DEF ToPrevLeap
<1>22. IsPrevLeap(u, i)
  BY <1>2, <1>9, <1>10, <1>11, <1>12, <1>21 DEF IsPrevLeap
<1> QED BY <1>9, <1>22

(* The second before a leap second. *)
JustBefore(v, l, i) ==
  /\ IsValid(v) /\ v.sec = 59 /\ Fixed(v) = HalfEnd(i) /\ HalfYear(v) = i
  /\ Plain(v) = Plain(l) - 1

(* The second before a leap second is a date of the same half-year. *)
LEMMA SecondBeforeIs ==
  ASSUME NEW i \in Nat, NEW l, IsEnd(l, i)
  PROVE  JustBefore(SecondBefore(l), l, i)
<1>1. IsValid(l) /\ Fixed(l) = HalfEnd(i) /\ HalfYear(l) = i /\ l.hour = 23 /\ l.min = 59 /\ l.sec = 60
  BY DEF IsEnd
<1>2. PICK z \in 0..23, y \in 0..59, x \in 0..60 : z = 23 /\ y = 59 /\ x = 59
  OBVIOUS
<1>3. PICK v : v = AtTime(l, z, y, x)
  OBVIOUS
<1>4. IsAtTime(v, l, z, y, x)
  BY <1>1, <1>3, OtherTime
<1>5. IsValid(v) /\ Fixed(v) = Fixed(l) /\ v.year = l.year /\ v.month = l.month
      /\ v.hour = 23 /\ v.min = 59 /\ v.sec = 59
  BY <1>2, <1>4 DEF IsAtTime
<1>6. SecondBefore(l) = v
  <2>1. l \in DateTimes
    BY <1>1, Fields
  <2> QED BY <1>1, <1>2, <1>3, <2>1 DEF SecondBefore, AtTime, DateTimes
<1>7. HalfYear(v) = i
  BY <1>1, <1>5 DEF HalfYear
<1>8. Plain(v) = Plain(l) - 1
  <2>1. PICK f \in Int : f = Fixed(l)
    BY <1>1, PlainInt
  <2>2. Plain(v) = 86400 * f + 3600 * 23 + 60 * 59 + 59 /\ Plain(l) = 86400 * f + 3600 * 23 + 60 * 59 + 60
    BY <1>1, <1>5, <2>1, SMT DEF Plain
  <2> QED BY <2>2, SMT
<1> QED BY <1>1, <1>5, <1>6, <1>7, <1>8 DEF JustBefore

(* LeapBackward as a loop. *)
BackwardOver(u, n) == PrevLeapSeconds(u) = {} \/ ToPrevLeap(u) < n
BackwardDone == {t \in Counts : BackwardOver(t[1], t[2]) \/ ToPrevLeap(t[1]) = t[2]}
BackwardResult == [t \in Counts |-> IF BackwardOver(t[1], t[2]) THEN PlainSeconds(t[1], t[2])
                                    ELSE IF ToPrevLeap(t[1]) = t[2] THEN PrevLeap(t[1])
                                    ELSE t[1]]
BackwardRound == [t \in Counts |->
  IF t \in BackwardDone THEN t ELSE <<SecondBefore(PrevLeap(t[1])), t[2] - ToPrevLeap(t[1]) + 1>>]

(* One round: over the leap second before. *)
IsBackwardRound(t, w, i) ==
  /\ IsPrevLeap(t[1], i) /\ t[2] < ToPrevLeap(t[1])
  /\ w = BackwardRound[t] /\ w \in Counts
  /\ w[1] = SecondBefore(PrevLeap(t[1])) /\ w[2] = t[2] - ToPrevLeap(t[1]) + 1
  /\ JustBefore(w[1], PrevLeap(t[1]), i)

(* A round of LeapBackward that is not the last goes on from such a second. *)
LEMMA BackwardRoundIs ==
  ASSUME NEW t \in Counts, t \notin BackwardDone
  PROVE  \E i \in has_leap_second, w \in Counts : IsBackwardRound(t, w, i)
<1>1. IsValid(t[1]) /\ t[2] \in Int
  BY CountParts
<1>2. PrevLeapSeconds(t[1]) # {} /\ ~(ToPrevLeap(t[1]) < t[2]) /\ ToPrevLeap(t[1]) # t[2]
  BY DEF BackwardDone, BackwardOver
<1>3. PICK i \in has_leap_second : IsPrevLeap(t[1], i)
  BY <1>1, <1>2, PrevLeapIs
<1>4. i \in Nat
  BY LeapSet
<1>5. PICK m : m = SecondBefore(PrevLeap(t[1]))
  OBVIOUS
<1>6. JustBefore(m, PrevLeap(t[1]), i)
  BY <1>3, <1>4, <1>5, SecondBeforeIs DEF IsPrevLeap
<1>7. PICK c \in Int : c = ToPrevLeap(t[1])
  BY <1>3 DEF IsPrevLeap
<1>8. PICK n \in Int : n = t[2] - c + 1
  BY <1>1
<1>9. IsValid(m)
  BY <1>6 DEF JustBefore
<1>10. PICK w \in Counts : IsCount(w, m, n)
  BY <1>9, ACount
<1>11. w = <<m, n>> /\ w[1] = m /\ w[2] = n
  BY <1>10 DEF IsCount
<1>12. BackwardRound[t] = w
  BY <1>5, <1>7, <1>8, <1>11 DEF BackwardRound
<1>13. t[2] < ToPrevLeap(t[1])
  BY <1>1, <1>2, <1>7
<1>14. IsBackwardRound(t, w, i)
  BY <1>3, <1>5, <1>6, <1>7, <1>8, <1>11, <1>12, <1>13 DEF IsBackwardRound
<1> QED BY <1>14

(* LeapBackward is a loop: leap seconds behind get fewer. *)
LEMMA BackwardLoop ==
  \E mu : Loop(Counts, ValidDates, BackwardDone, BackwardResult, BackwardRound, mu)
<1>1. PICK mu : mu = [t \in Counts |-> IF HalfYear(t[1]) >= 0 THEN HalfYear(t[1]) ELSE 0]
  OBVIOUS
<1>2. ASSUME NEW t \in Counts
      PROVE  HalfYear(t[1]) \in Int
  <2>1. IsValid(t[1])
    BY CountParts
  <2> QED BY <2>1, HalfOf
<1>3. mu \in [Counts -> Nat]
  BY <1>1, <1>2
<1>4. ASSUME NEW t \in Counts, t \notin BackwardDone
      PROVE  BackwardRound[t] \in Counts /\ mu[BackwardRound[t]] < mu[t]
  <2>1. PICK i \in has_leap_second, w \in Counts : IsBackwardRound(t, w, i)
    BY <1>4, BackwardRoundIs
  <2>2. i \in Nat
    BY LeapSet
  <2>3. HalfYear(w[1]) = i /\ i < HalfYear(t[1])
    BY <2>1 DEF IsBackwardRound, JustBefore, IsPrevLeap
  <2>4. mu[w] = HalfYear(w[1]) /\ mu[t] = HalfYear(t[1])
    BY <1>1, <1>2, <2>2, <2>3
  <2>5. mu[w] < mu[t]
    BY <2>3, <2>4
  <2> QED BY <2>1, <2>5 DEF IsBackwardRound
<1>5. BackwardRound \in [Counts -> Counts]
  <2>1. ASSUME NEW t \in Counts PROVE BackwardRound[t] \in Counts
    <3>1. CASE t \in BackwardDone
      BY <3>1 DEF BackwardRound
    <3> QED BY <1>4, <3>1
  <2> QED BY <2>1 DEF BackwardRound
<1>6. BackwardResult \in [Counts -> ValidDates]
  <2>1. ASSUME NEW t \in Counts PROVE BackwardResult[t] \in ValidDates
    <3>1. t[1] \in ValidDates /\ IsValid(t[1]) /\ t[2] \in Int
      BY CountParts
    <3>2. CASE BackwardOver(t[1], t[2])
      <4>1. SecondsAfter(PlainSeconds(t[1], t[2]), t[1], t[2])
        BY <3>1, PlainSecondsIsExact
      <4> QED BY <3>2, <4>1 DEF BackwardResult, SecondsAfter, IsValid
    <3>3. CASE ~BackwardOver(t[1], t[2]) /\ ToPrevLeap(t[1]) = t[2]
      <4>1. PrevLeapSeconds(t[1]) # {}
        BY <3>3 DEF BackwardOver
      <4>2. PICK i \in has_leap_second : IsPrevLeap(t[1], i)
        BY <3>1, <4>1, PrevLeapIs
      <4>3. IsValid(PrevLeap(t[1]))
        BY <4>2 DEF IsPrevLeap, IsEnd
      <4> QED BY <3>3, <4>3 DEF BackwardResult, IsValid
    <3>4. CASE ~BackwardOver(t[1], t[2]) /\ ToPrevLeap(t[1]) # t[2]
      BY <3>1, <3>4 DEF BackwardResult
    <3> QED BY <3>2, <3>3, <3>4
  <2> QED BY <2>1 DEF BackwardResult
<1>7. BackwardDone \subseteq Counts
  BY DEF BackwardDone
<1> QED BY <1>3, <1>4, <1>5, <1>6, <1>7 DEF Loop

(* LeapBackward is defined by that loop. *)
LEMMA BackwardRuns == Runs(LeapBackward, Counts, BackwardDone, BackwardResult, BackwardRound)
<1>1. PICK g \in [Counts -> ValidDates] : Runs(g, Counts, BackwardDone, BackwardResult, BackwardRound)
  BY BackwardLoop, LoopRuns
<1> DEFINE Body(f, t) ==
      IF BackwardOver(t[1], t[2]) THEN PlainSeconds(t[1], t[2])
      ELSE IF ToPrevLeap(t[1]) = t[2] THEN PrevLeap(t[1])
      ELSE f[<<SecondBefore(PrevLeap(t[1])), t[2] - ToPrevLeap(t[1]) + 1>>]
<1>2. g = [t \in Counts |-> Body(g, t)]
  <2>1. \A t \in Counts : g[t] = Body(g, t)
    BY <1>1 DEF Runs, BackwardDone, BackwardResult, BackwardRound
  <2> QED BY <1>1, <2>1
<1>3. LeapBackward = [t \in Counts |-> Body(LeapBackward, t)]
  <2>1. \E f : f = [t \in Counts |-> Body(f, t)]
    BY <1>2
  <2> QED BY <2>1, Zenon DEF LeapBackward, Counts, BackwardOver, ToPrevLeap, SecondsBetween,
                             PrevLeap, SecondBefore
<1>4. \A t \in Counts : LeapBackward[t] = Body(LeapBackward, t)
  BY <1>3
<1> QED BY <1>4 DEF Runs, BackwardDone, BackwardResult, BackwardRound

(* The search of prevLeapSecond when it reads something behind the table: it is
   the same loop, but the leap second before is always the one that never was. *)
ToStray(u) == SecondsBetween(u, StrayLeapSecond) - 1

StrayBackward[p \in ValidDates \X Int] ==
  LET dt == p[1]  n == p[2]
  IN  IF ToStray(dt) < n THEN PlainSeconds(dt, n)
      ELSE IF ToStray(dt) = n THEN StrayLeapSecond
      ELSE StrayBackward[<<SecondBefore(StrayLeapSecond), n - ToStray(dt) + 1>>]

StrayDone == {t \in Counts : ToStray(t[1]) <= t[2]}
StrayResult == [t \in Counts |-> IF ToStray(t[1]) < t[2] THEN PlainSeconds(t[1], t[2])
                                 ELSE StrayLeapSecond]
StrayRound == [t \in Counts |->
  <<SecondBefore(StrayLeapSecond), t[2] - ToStray(t[1]) + 1>>]

(* It is the last second of a half-year, the one after the table's. *)
LEMMA StrayIs == \E i \in Nat : i = 90 /\ IsEnd(StrayLeapSecond, i)
<1>1. PICK i \in Nat : i = 90
  OBVIOUS
<1>2. StrayLeapSecond = LeapSecond(i)
  BY <1>1 DEF StrayLeapSecond, LS_HALF_YEARS
<1> QED BY <1>1, <1>2, LeapSecondEnds

(* No leap seconds lie between it and another time after those of the table. *)
LEMMA ToStrayIs ==
  ASSUME NEW u, IsValid(u), HalfYear(u) > 89
  PROVE  /\ ToStray(u) = Plain(StrayLeapSecond) - Plain(u) - 1
         /\ Plain(StrayLeapSecond) \in Int /\ Plain(u) \in Int
<1>1. PICK i \in Nat : i = 90 /\ IsEnd(StrayLeapSecond, i)
  BY StrayIs
<1>2. PICK l : l = StrayLeapSecond /\ IsValid(l) /\ HalfYear(l) = i
  BY <1>1 DEF IsEnd
<1>3. PICK h \in Int, k \in Int : h = EndsAfter(u) /\ k = EndsAfter(l) /\ h > 89 /\ k > 89
  <2>1. /\ EndsAfter(u) = (IF HalfYear(u) < 0 THEN 0 ELSE HalfYear(u)) + (IF IsLeapSecond(u) THEN 1 ELSE 0)
        /\ EndsAfter(l) = (IF HalfYear(l) < 0 THEN 0 ELSE HalfYear(l)) + (IF IsLeapSecond(l) THEN 1 ELSE 0)
        /\ HalfYear(u) \in Int
    BY <1>2, EndsAre
  <2> QED BY <1>1, <1>2, <2>1
<1>4. \A j \in has_leap_second : j \in Nat /\ j <= 89
  BY LeapSet
<1>5. LeapsBetween(u, l) = 0
  <2>1. \A j \in has_leap_second : ~(EndsAfter(u) <= j /\ j < HalfYear(l))
    BY <1>3, <1>4
  <2> QED BY <1>2, <2>1, NoLeapsBetween
<1>6. LeapsBetween(l, u) = 0
  <2>1. \A j \in has_leap_second : ~(EndsAfter(l) <= j /\ j < HalfYear(u))
    BY <1>3, <1>4
  <2> QED BY <1>2, <2>1, NoLeapsBetween
<1>7. countLeapSeconds(u, l) = 0
  BY <1>5, <1>6, NoCount
<1>8. SecondsBetween(u, l) = (Plain(l) - Plain(u)) + countLeapSeconds(u, l)
  BY <1>2, SecondsToIs
<1>9. Plain(l) \in Int /\ Plain(u) \in Int
  BY <1>2, PlainInt
<1> QED BY <1>2, <1>7, <1>8, <1>9 DEF ToStray

(* The second before it is no second away from it. *)
LEMMA BeforeStrayIs ==
  /\ IsValid(StrayLeapSecond)
  /\ IsValid(SecondBefore(StrayLeapSecond)) /\ ToStray(SecondBefore(StrayLeapSecond)) = 0
<1>1. PICK i \in Nat : i = 90 /\ IsEnd(StrayLeapSecond, i)
  BY StrayIs
<1>2. PICK v : v = SecondBefore(StrayLeapSecond)
  OBVIOUS
<1>3. JustBefore(v, StrayLeapSecond, i)
  BY <1>1, <1>2, SecondBeforeIs
<1>4. IsValid(v) /\ HalfYear(v) = i /\ Plain(v) = Plain(StrayLeapSecond) - 1
  BY <1>3 DEF JustBefore
<1>5. /\ ToStray(v) = Plain(StrayLeapSecond) - Plain(v) - 1
      /\ Plain(StrayLeapSecond) \in Int /\ Plain(v) \in Int
  <2>1. HalfYear(v) > 89
    BY <1>1, <1>4
  <2> QED BY <1>4, <2>1, ToStrayIs
<1>6. ToStray(v) = 0
  BY <1>4, <1>5
<1> QED BY <1>1, <1>2, <1>4, <1>6 DEF IsEnd

(* The way to it is a number of seconds. *)
LEMMA ToStrayInt ==
  ASSUME NEW u, IsValid(u)
  PROVE  ToStray(u) \in Int
<1>1. PICK l : l = StrayLeapSecond /\ IsValid(l)
  BY BeforeStrayIs
<1>2. SecondsBetween(u, l) = (Plain(l) - Plain(u)) + countLeapSeconds(u, l)
  BY <1>1, SecondsToIs
<1>3. countLeapSeconds(u, l) \in Int /\ Plain(l) \in Int /\ Plain(u) \in Int
  BY <1>1, CountInt, PlainInt
<1> QED BY <1>1, <1>2, <1>3 DEF ToStray

(* A round of it takes a second off what is left. *)
IsStrayRound(t, w) ==
  /\ w = StrayRound[t] /\ w \in Counts
  /\ w[2] = t[2] - ToStray(t[1]) + 1 /\ ToStray(w[1]) = 0
  /\ w = <<SecondBefore(StrayLeapSecond), t[2] - ToStray(t[1]) + 1>>

(* Every round goes on from that second. *)
LEMMA StrayRoundIs ==
  ASSUME NEW t \in Counts
  PROVE  \E w \in Counts : IsStrayRound(t, w)
<1>1. IsValid(t[1]) /\ t[2] \in Int
  BY CountParts
<1>2. PICK c \in Int : c = ToStray(t[1])
  BY <1>1, ToStrayInt
<1>3. PICK n \in Int : n = t[2] - c + 1
  BY <1>1
<1>4. PICK v : v = SecondBefore(StrayLeapSecond) /\ IsValid(v) /\ ToStray(v) = 0
  BY BeforeStrayIs
<1>5. PICK w \in Counts : IsCount(w, v, n)
  BY <1>4, ACount
<1>6. w = <<v, n>> /\ w[1] = v /\ w[2] = n
  BY <1>5 DEF IsCount
<1>7. StrayRound[t] = w
  BY <1>2, <1>3, <1>4, <1>6 DEF StrayRound
<1> QED BY <1>2, <1>3, <1>4, <1>6, <1>7 DEF IsStrayRound

(* So it is a loop. *)
LEMMA StrayLoop ==
  \E mu : Loop(Counts, ValidDates, StrayDone, StrayResult, StrayRound, mu)
<1>1. PICK mu : mu = [t \in Counts |-> IF ToStray(t[1]) >= t[2] THEN ToStray(t[1]) - t[2] ELSE 0]
  OBVIOUS
<1>2. ASSUME NEW t \in Counts
      PROVE  ToStray(t[1]) \in Int /\ t[2] \in Int /\ IsValid(t[1])
  BY CountParts, ToStrayInt
<1>3. mu \in [Counts -> Nat]
  BY <1>1, <1>2
<1>4. ASSUME NEW t \in Counts, t \notin StrayDone
      PROVE  mu[StrayRound[t]] < mu[t]
  <2>1. PICK w \in Counts : IsStrayRound(t, w)
    BY StrayRoundIs
  <2>2. PICK c \in Int, n \in Int, k \in Int : c = ToStray(t[1]) /\ n = t[2] /\ k = w[2]
    BY <1>2
  <2>3. n < c
    BY <1>4, <2>2 DEF StrayDone
  <2>4. k = n - c + 1 /\ ToStray(w[1]) = 0
    BY <2>1, <2>2 DEF IsStrayRound
  <2>5. mu[t] = c - n /\ mu[w] = 0 - k
    <3>1. mu[w] = IF ToStray(w[1]) >= w[2] THEN ToStray(w[1]) - w[2] ELSE 0
      BY <1>1
    <3>2. mu[t] = IF c >= n THEN c - n ELSE 0
      BY <1>1, <2>2
    <3>3. c >= n /\ 0 >= k
      BY <2>3, <2>4
    <3> QED BY <2>2, <2>4, <3>1, <3>2, <3>3
  <2>6. mu[w] < mu[t]
    BY <2>4, <2>5
  <2> QED BY <2>1, <2>6 DEF IsStrayRound
<1>5. StrayRound \in [Counts -> Counts]
  <2>1. ASSUME NEW t \in Counts PROVE StrayRound[t] \in Counts
    BY StrayRoundIs DEF IsStrayRound
  <2> QED BY <2>1 DEF StrayRound
<1>6. StrayResult \in [Counts -> ValidDates]
  <2>1. ASSUME NEW t \in Counts PROVE StrayResult[t] \in ValidDates
    <3>1. IsValid(PlainSeconds(t[1], t[2]))
      BY <1>2, PlainSecondsIsExact DEF SecondsAfter
    <3>2. IsValid(StrayLeapSecond)
      BY BeforeStrayIs
    <3> QED BY <3>1, <3>2 DEF StrayResult, IsValid
  <2> QED BY <2>1 DEF StrayResult
<1>7. StrayDone \subseteq Counts
  BY DEF StrayDone
<1> QED BY <1>3, <1>4, <1>5, <1>6, <1>7 DEF Loop

(* StrayBackward is defined by that loop. *)
LEMMA StrayRuns == Runs(StrayBackward, Counts, StrayDone, StrayResult, StrayRound)
<1>1. PICK g \in [Counts -> ValidDates] : Runs(g, Counts, StrayDone, StrayResult, StrayRound)
  BY StrayLoop, LoopRuns
<1> DEFINE Body(f, t) ==
      IF ToStray(t[1]) < t[2] THEN PlainSeconds(t[1], t[2])
      ELSE IF ToStray(t[1]) = t[2] THEN StrayLeapSecond
      ELSE f[<<SecondBefore(StrayLeapSecond), t[2] - ToStray(t[1]) + 1>>]
<1>2. ASSUME NEW t \in Counts
      PROVE  /\ t \in StrayDone <=> (ToStray(t[1]) < t[2] \/ ToStray(t[1]) = t[2])
             /\ StrayRound[t] = <<SecondBefore(StrayLeapSecond), t[2] - ToStray(t[1]) + 1>>
  <2>1. ToStray(t[1]) \in Int /\ t[2] \in Int
    BY CountParts, ToStrayInt
  <2> QED BY <2>1 DEF StrayDone, StrayRound
<1>3. g = [t \in Counts |-> Body(g, t)]
  <2>1. \A t \in Counts : g[t] = Body(g, t)
    BY <1>1, <1>2 DEF Runs, StrayResult
  <2> QED BY <1>1, <2>1
<1>4. StrayBackward = [t \in Counts |-> Body(StrayBackward, t)]
  <2>1. \E f : f = [t \in Counts |-> Body(f, t)]
    BY <1>3
  <2> QED BY <2>1, Zenon DEF StrayBackward, Counts
<1>5. \A t \in Counts : StrayBackward[t] = Body(StrayBackward, t)
  BY <1>4
<1> QED BY <1>2, <1>5 DEF Runs, StrayResult

(* The loop, which takes a second off in each round, ends on the leap second that
   never was, unless that lies further back than it is to go: what Backward says
   in one step. *)
LEMMA StrayLoopEnds ==
  ASSUME NEW u, IsValid(u), NEW n \in Int, u.year > LS_LAST_YEAR
  PROVE  Backward(u, n, TRUE) = StrayBackward[<<u, n>>]
<1>1. PICK t \in Counts : IsCount(t, u, n)
  BY ACount
<1>2. t = <<u, n>> /\ t[1] = u /\ t[2] = n
  BY <1>1 DEF IsCount
<1>3. PICK c \in Int : c = ToStray(u)
  BY ToStrayInt
<1>4. Backward(u, n, TRUE) = IF c < n THEN PlainSeconds(u, n) ELSE StrayLeapSecond
  <2>1. ~(u.year <= LS_LAST_YEAR)
    BY Fields DEF LS_LAST_YEAR
  <2> QED BY <1>3, <2>1, Zenon DEF Backward, ToStray, SecondsBetween
<1>5. CASE c < n
  <2>1. t \in StrayDone /\ StrayResult[t] = PlainSeconds(u, n)
    BY <1>2, <1>3, <1>5 DEF StrayDone, StrayResult
  <2>2. StrayBackward[t] = StrayResult[t]
    BY <2>1, StrayRuns DEF Runs
  <2> QED BY <1>2, <1>4, <1>5, <2>1, <2>2
<1>6. CASE ~(c < n)
  <2>1. PICK mu : Loop(Counts, ValidDates, StrayDone, StrayResult, StrayRound, mu)
    BY StrayLoop
  <2>2. PICK I, Q : I = {p \in Counts : p[2] <= ToStray(p[1])} /\ Q = {StrayLeapSecond}
    OBVIOUS
  <2>3. ASSUME NEW p \in I
        PROVE  p \in Counts /\ ToStray(p[1]) \in Int /\ p[2] \in Int /\ p[2] <= ToStray(p[1])
    <3>1. p \in Counts
      BY <2>2
    <3> QED BY <2>2, <3>1, CountParts, ToStrayInt
  <2>4. Kept(I, Counts, StrayDone, StrayRound)
    <3>1. ASSUME NEW p \in I \ StrayDone PROVE StrayRound[p] \in I
      <4>1. p \in Counts /\ ToStray(p[1]) \in Int /\ p[2] \in Int
        BY <2>3
      <4>2. PICK w \in Counts : IsStrayRound(p, w)
        BY <4>1, StrayRoundIs
      <4>3. p[2] < ToStray(p[1])
        BY <4>1 DEF StrayDone
      <4>4. w[2] <= ToStray(w[1]) /\ StrayRound[p] = w
        BY <4>1, <4>2, <4>3 DEF IsStrayRound
      <4> QED BY <2>2, <4>4
    <3> QED BY <2>2, <3>1 DEF Kept
  <2>5. Ends(I, StrayDone, StrayResult, Q)
    <3>1. ASSUME NEW p \in I \cap StrayDone PROVE StrayResult[p] \in Q
      BY <2>2, <2>3 DEF StrayResult
    <3> QED BY <3>1 DEF Ends
  <2>6. Gives(StrayBackward, I, Q)
    BY <2>1, <2>4, <2>5, StrayRuns, LoopKeeps
  <2>7. t \in I
    BY <1>2, <1>3, <1>6, <2>2
  <2>8. StrayBackward[t] = StrayLeapSecond
    BY <2>2, <2>6, <2>7 DEF Gives
  <2> QED BY <1>2, <1>4, <1>6, <2>8
<1> QED BY <1>5, <1>6

(* Backward goes by the table, or by what is read behind it. *)
LEMMA BackwardCases ==
  ASSUME NEW u, IsValid(u), NEW n \in Int, NEW beyond \in BOOLEAN
  PROVE  \/ Backward(u, n, beyond) = LeapBackward[<<u, n>>]
         \/ /\ u.year > LS_LAST_YEAR
            /\ \/ Backward(u, n, beyond) = PlainSeconds(u, n) /\ ToStray(u) < n
               \/ Backward(u, n, beyond) = StrayLeapSecond
<1>1. CASE ~beyond \/ u.year <= LS_LAST_YEAR
  BY <1>1, Zenon DEF Backward
<1>2. CASE ~(~beyond \/ u.year <= LS_LAST_YEAR)
  <2>1. u.year > LS_LAST_YEAR
    BY <1>2, Fields DEF LS_LAST_YEAR
  <2>2. Backward(u, n, beyond) = IF ToStray(u) < n THEN PlainSeconds(u, n) ELSE StrayLeapSecond
    BY <1>2, Zenon DEF Backward, ToStray, SecondsBetween
  <2> QED BY <2>1, <2>2
<1> QED BY <1>1, <1>2

(* It comes to a date. *)
LEMMA LeapBackwardIsValid ==
  ASSUME NEW u, IsValid(u), NEW n \in Int
  PROVE  IsValid(LeapBackward[<<u, n>>])
<1>1. PICK mu : Loop(Counts, ValidDates, BackwardDone, BackwardResult, BackwardRound, mu)
  BY BackwardLoop
<1>2. Runs(LeapBackward, Counts, BackwardDone, BackwardResult, BackwardRound)
  BY BackwardRuns
<1>3. PICK I, Q : I = Counts /\ Q = ValidDates
  OBVIOUS
<1>4. Kept(I, Counts, BackwardDone, BackwardRound)
  BY <1>1, <1>3 DEF Kept, Loop
<1>5. Ends(I, BackwardDone, BackwardResult, Q)
  BY <1>1, <1>3 DEF Ends, Loop
<1>6. Gives(LeapBackward, I, Q)
  BY <1>1, <1>2, <1>4, <1>5, LoopKeeps
<1>7. PICK t \in Counts : IsCount(t, u, n)
  BY ACount
<1>8. LeapBackward[t] \in ValidDates
  BY <1>3, <1>6 DEF Gives
<1> QED BY <1>7, <1>8 DEF IsCount, IsValid

(* So does Backward, whatever is read behind the table. *)
LEMMA BackwardIsValid ==
  ASSUME NEW u, IsValid(u), NEW n \in Int, NEW beyond \in BOOLEAN
  PROVE  IsValid(Backward(u, n, beyond))
<1>1. IsValid(LeapBackward[<<u, n>>])
  BY LeapBackwardIsValid
<1>2. IsValid(PlainSeconds(u, n))
  BY PlainSecondsIsExact DEF SecondsAfter
<1>3. IsValid(StrayLeapSecond)
  BY BeforeStrayIs
<1> QED BY <1>1, <1>2, <1>3, BackwardCases

(* Seconds back with no leap second on the way. *)
LEMMA BackwardEnd ==
  ASSUME NEW u, Real(u), NEW n \in Int, n <= 0, NEW e, SecondsAfter(e, u, n),
         \A i \in has_leap_second : i < HalfYear(u) => i < HalfYear(e)
  PROVE  Real(e) /\ Clocked(e) = Clocked(u) + n
<1>1. IsValid(u) /\ IsValid(e) /\ Plain(e) = Plain(u) + n /\ (n # 0 => e.sec <= 59) /\ (n = 0 => e = u)
  BY DEF SecondsAfter, Real
<1>2. /\ Clocked(u) \in Int /\ Plain(u) \in Int /\ Before(HalfYear(u)) \in Int
      /\ Clocked(u) = Plain(u) + Before(HalfYear(u))
  BY <1>1, ClockedInt
<1>3. CASE n = 0
  <2>1. e = u
    BY <1>1, <1>3
  <2>2. Clocked(u) = Clocked(u) + n
    BY <1>2, <1>3
  <2> QED BY <2>1, <2>2
<1>4. CASE n # 0
  <2>1. e.sec <= 59 /\ Real(e)
    <3>1. e.sec <= 59 /\ e.sec \in 0..60
      BY <1>1, <1>4, Fields
    <3> QED BY <1>1, <3>1 DEF Real
  <2>2. PICK f \in Int, p \in Int, q \in Int, h \in Int, k \in Int :
          /\ f = Fixed(u) /\ p = Plain(u) /\ q = Plain(e) /\ h = HalfYear(u) /\ k = HalfYear(e)
    BY <1>1, PlainInt, HalfOf
  <2>3. q = p + n /\ n <= -1
    BY <1>1, <1>4, <2>2
  <2>4. p <= 86400 * (f + 1)
    BY <1>1, <2>2, DayOfPlain
  <2>5. q < 86400 * (f + 1)
    BY <2>3, <2>4, SMT
  <2>6. Fixed(e) <= f
    BY <1>1, <2>2, <2>5, DayOfPlain
  <2>7. k <= h
    <3>1. Fixed(e) <= Fixed(u)
      BY <2>2, <2>6
    <3> QED BY <1>1, <2>2, <3>1, HalvesFollow
  <2>8. Before(k) = Before(h)
    <3>1. \A i \in has_leap_second : ~(k <= i /\ i < h)
      <4>1. \A i \in has_leap_second : i \in Int
        BY LeapSet
      <4> QED BY <2>2, <4>1
    <3> QED BY <2>7, <3>1, BeforeGap
  <2>9. Clocked(e) = q + Before(k)
    BY <2>2 DEF Clocked
  <2> QED BY <1>2, <2>1, <2>2, <2>3, <2>8, <2>9
<1> QED BY <1>3, <1>4

(* LeapBackward counts the leap seconds on its way. *)
LEMMA LeapBackwardIsExact ==
  ASSUME NEW u, Real(u), NEW n \in Int, n <= 0
  PROVE  Real(LeapBackward[<<u, n>>]) /\ Clocked(LeapBackward[<<u, n>>]) = Clocked(u) + n
<1>1. IsValid(u) /\ Clocked(u) \in Int
  BY ClockedInt DEF Real
<1>2. PICK T \in Int : T = Clocked(u) + n
  BY <1>1
<1>3. PICK I : I = {t \in Counts : Real(t[1]) /\ t[2] <= 0 /\ Clocked(t[1]) + t[2] = T}
  OBVIOUS
<1>4. PICK Q : Q = {e \in ValidDates : Real(e) /\ Clocked(e) = T}
  OBVIOUS
<1>5. ASSUME NEW t \in I
      PROVE  /\ t \in Counts /\ Real(t[1]) /\ IsValid(t[1]) /\ t[2] \in Int /\ t[2] <= 0
             /\ Clocked(t[1]) + t[2] = T
             /\ Clocked(t[1]) = Plain(t[1]) + Before(HalfYear(t[1]))
             /\ Plain(t[1]) \in Int /\ Before(HalfYear(t[1])) \in Int
  <2>1. t \in Counts
    BY <1>3
  <2> QED BY <1>3, <2>1, CountParts, ClockedInt
<1>6. ASSUME NEW t \in Counts, NEW i \in has_leap_second, IsPrevLeap(t[1], i), IsValid(t[1])
      PROVE  /\ HalfYear(PrevLeap(t[1])) = i /\ i \in Nat
             /\ Before(HalfYear(t[1])) = Before(i) + 1 /\ Before(i) \in Int
             /\ Real(PrevLeap(t[1])) /\ Plain(PrevLeap(t[1])) \in Int
  <2>1. PICK k \in Int, h \in Int : k = i + 1 /\ h = HalfYear(t[1])
    BY <1>6, LeapSet, HalfOf
  <2>2. i \in Nat
    BY LeapSet
  <2>3. i < h /\ \A j \in has_leap_second : j < h => j <= i
    BY <1>6, <2>1 DEF IsPrevLeap
  <2>4. Before(k) = Before(i) + 1
    BY <2>1, BeforeLeap
  <2>5. Before(k) = Before(h)
    <3>1. \A j \in has_leap_second : ~(k <= j /\ j < h)
      <4>1. \A j \in has_leap_second : j \in Int
        BY LeapSet
      <4> QED BY <2>1, <2>2, <2>3, <4>1
    <3> QED BY <2>1, <2>2, <2>3, <3>1, BeforeGap
  <2>6. IsEnd(PrevLeap(t[1]), i) /\ PrevLeap(t[1]) = LeapSecond(i)
    BY <1>6 DEF IsPrevLeap
  <2>7. IsValid(PrevLeap(t[1])) /\ HalfYear(PrevLeap(t[1])) = i
    BY <2>6 DEF IsEnd
  <2>8. Real(PrevLeap(t[1])) /\ Plain(PrevLeap(t[1])) \in Int
    BY <2>6, <2>7, PlainInt DEF Real
  <2>9. Before(i) \in Int
    <3>1. Before(i) \in Nat
      BY BeforeInt
    <3> QED BY <3>1
  <2> QED BY <2>1, <2>2, <2>4, <2>5, <2>7, <2>8, <2>9
<1>7. ASSUME NEW t \in I \ BackwardDone
      PROVE  BackwardRound[t] \in I
  <2>1. /\ t \in Counts /\ Real(t[1]) /\ IsValid(t[1]) /\ t[2] \in Int /\ t[2] <= 0
        /\ Clocked(t[1]) + t[2] = T
        /\ Clocked(t[1]) = Plain(t[1]) + Before(HalfYear(t[1]))
        /\ Plain(t[1]) \in Int /\ Before(HalfYear(t[1])) \in Int
    BY <1>5
  <2>2. PICK i \in has_leap_second, w \in Counts : IsBackwardRound(t, w, i)
    BY <2>1, BackwardRoundIs
  <2>3. PICK c \in Int : c = ToPrevLeap(t[1])
    BY <2>2 DEF IsBackwardRound, IsPrevLeap
  <2>4. IsPrevLeap(t[1], i) /\ t[2] < c /\ w[2] = t[2] - c + 1 /\ w = BackwardRound[t]
    BY <2>2, <2>3 DEF IsBackwardRound
  <2>5. /\ Before(HalfYear(t[1])) = Before(i) + 1 /\ Before(i) \in Int /\ Plain(PrevLeap(t[1])) \in Int
    BY <1>6, <2>1, <2>4
  <2>6. c = Plain(PrevLeap(t[1])) - Plain(t[1]) - 1
    BY <2>3, <2>4 DEF IsPrevLeap
  <2>7. IsValid(w[1]) /\ w[1].sec = 59 /\ HalfYear(w[1]) = i /\ Plain(w[1]) = Plain(PrevLeap(t[1])) - 1
    BY <2>2 DEF IsBackwardRound, JustBefore
  <2>8. Real(w[1])
    BY <2>7 DEF Real
  <2>9. Clocked(w[1]) = Plain(PrevLeap(t[1])) - 1 + Before(i)
    BY <2>7 DEF Clocked
  <2>10. Clocked(w[1]) + w[2] = T
    <3>1. Plain(PrevLeap(t[1])) = c + 1 + Plain(t[1])
      BY <2>1, <2>5, <2>6
    <3> QED BY <2>1, <2>4, <2>5, <2>9, <3>1
  <2>11. w[2] <= 0
    BY <2>1, <2>4
  <2>12. w \in I
    BY <1>3, <2>8, <2>10, <2>11
  <2> QED BY <2>4, <2>12
<1>8. ASSUME NEW t \in I \cap BackwardDone
      PROVE  BackwardResult[t] \in Q
  <2>1. /\ t \in Counts /\ Real(t[1]) /\ IsValid(t[1]) /\ t[2] \in Int /\ t[2] <= 0
        /\ Clocked(t[1]) + t[2] = T
        /\ Clocked(t[1]) = Plain(t[1]) + Before(HalfYear(t[1]))
        /\ Plain(t[1]) \in Int /\ Before(HalfYear(t[1])) \in Int
    BY <1>5
  <2>2. CASE BackwardOver(t[1], t[2])
    <3>1. PICK e : e = PlainSeconds(t[1], t[2])
      OBVIOUS
    <3>2. SecondsAfter(e, t[1], t[2])
      BY <2>1, <3>1, PlainSecondsIsExact
    <3>3. \A i \in has_leap_second : i < HalfYear(t[1]) => i < HalfYear(e)
      <4>1. /\ IsValid(e) /\ Plain(e) = Plain(t[1]) + t[2] /\ (t[2] # 0 => e.sec <= 59)
            /\ (t[2] = 0 => e = t[1])
        BY <3>2 DEF SecondsAfter
      <4>2. CASE PrevLeapSeconds(t[1]) = {}
        <5>1. \A i \in has_leap_second : ~(i <= EndsBefore(t[1]))
          BY <4>2 DEF PrevLeapSeconds
        <5>2. EndsBefore(t[1]) = HalfYear(t[1]) - 1 /\ HalfYear(t[1]) \in Int
          BY <2>1, EndsAre
        <5>3. \A i \in has_leap_second : i \in Int
          BY LeapSet
        <5> QED BY <5>1, <5>2, <5>3
      <4>3. CASE PrevLeapSeconds(t[1]) # {} /\ ToPrevLeap(t[1]) < t[2] /\ t[2] # 0
        <5>1. PICK i \in has_leap_second : IsPrevLeap(t[1], i)
          BY <2>1, <4>3, PrevLeapIs
        <5>2. i \in Int
          BY LeapSet
        <5>3. /\ IsEnd(PrevLeap(t[1]), i) /\ ToPrevLeap(t[1]) = Plain(PrevLeap(t[1])) - Plain(t[1]) - 1
              /\ \A j \in has_leap_second : j < HalfYear(t[1]) => j <= i
          BY <5>1 DEF IsPrevLeap
        <5>4. Plain(PrevLeap(t[1])) = 86400 * (HalfEnd(i) + 1) /\ HalfEnd(i) \in Int
          BY <5>2, <5>3, PlainEnd
        <5>5. PICK f \in Int, p \in Int : f = HalfEnd(i) + 1 /\ p = 86400 * f /\ p = Plain(PrevLeap(t[1]))
          BY <5>4, SMT
        <5>6. Plain(e) >= p
          BY <2>1, <4>1, <4>3, <5>3, <5>5
        <5>7. Plain(e) >= 86400 * f
          BY <5>5, <5>6, SMT
        <5>8. Fixed(e) >= f /\ Fixed(e) \in Int
          BY <4>1, <4>3, <5>7, DayOfPlain, PlainInt
        <5>9. i < HalfYear(e)
          <6>1. HalfEnd(i) < Fixed(e)
            BY <5>4, <5>5, <5>8
          <6> QED BY <4>1, <5>2, <6>1, HalfBefore
        <5>10. HalfYear(e) \in Int
          BY <4>1, HalfOf
        <5>11. \A j \in has_leap_second : j \in Int
          BY LeapSet
        <5> QED BY <5>2, <5>3, <5>9, <5>10, <5>11
      <4>4. CASE t[2] = 0
        BY <4>1, <4>4
      <4> QED BY <2>2, <4>2, <4>3, <4>4 DEF BackwardOver
    <3>4. Real(e) /\ Clocked(e) = Clocked(t[1]) + t[2]
      BY <2>1, <3>2, <3>3, BackwardEnd
    <3>5. BackwardResult[t] = e
      BY <2>1, <2>2, <3>1 DEF BackwardResult
    <3> QED BY <1>4, <2>1, <3>4, <3>5 DEF Real, IsValid
  <2>3. CASE ~BackwardOver(t[1], t[2]) /\ ToPrevLeap(t[1]) = t[2]
    <3>1. PrevLeapSeconds(t[1]) # {}
      BY <2>3 DEF BackwardOver
    <3>2. PICK i \in has_leap_second : IsPrevLeap(t[1], i)
      BY <2>1, <3>1, PrevLeapIs
    <3>3. PICK l : l = PrevLeap(t[1])
      OBVIOUS
    <3>4. t[2] = Plain(l) - Plain(t[1]) - 1
      BY <2>3, <3>2, <3>3 DEF IsPrevLeap
    <3>5. HalfYear(l) = i /\ Before(HalfYear(t[1])) = Before(i) + 1 /\ Before(i) \in Int
          /\ Real(l) /\ Plain(l) \in Int
      BY <1>6, <2>1, <3>2, <3>3
    <3>6. Clocked(l) = Plain(l) + Before(i)
      BY <3>5 DEF Clocked
    <3>7. Clocked(l) = T
      <4>1. Plain(l) = t[2] + Plain(t[1]) + 1
        BY <2>1, <3>4, <3>5
      <4> QED BY <2>1, <3>5, <3>6, <4>1
    <3>8. BackwardResult[t] = l
      BY <2>1, <2>3, <3>3 DEF BackwardResult
    <3> QED BY <1>4, <3>5, <3>7, <3>8 DEF Real, IsValid
  <2> QED BY <2>1, <2>2, <2>3 DEF BackwardDone
<1>9. PICK mu : Loop(Counts, ValidDates, BackwardDone, BackwardResult, BackwardRound, mu)
  BY BackwardLoop
<1>10. Runs(LeapBackward, Counts, BackwardDone, BackwardResult, BackwardRound)
  BY BackwardRuns
<1>11. Kept(I, Counts, BackwardDone, BackwardRound)
  BY <1>5, <1>7 DEF Kept
<1>12. Ends(I, BackwardDone, BackwardResult, Q)
  BY <1>8 DEF Ends
<1>13. Gives(LeapBackward, I, Q)
  BY <1>9, <1>10, <1>11, <1>12, LoopKeeps
<1>14. PICK t \in Counts : IsCount(t, u, n)
  BY <1>1, ACount
<1>15. t[1] = u /\ t[2] = n /\ t = <<u, n>>
  BY <1>14 DEF IsCount
<1>16. t \in I
  BY <1>2, <1>3, <1>15
<1>17. LeapBackward[t] \in Q
  BY <1>13, <1>16 DEF Gives
<1> QED BY <1>2, <1>4, <1>15, <1>17

(* Nor does Backward miss one, but it may end on the one that never was. *)
LEMMA BackwardIsExact ==
  ASSUME NEW u, Real(u), NEW n \in Int, n <= 0, NEW beyond \in BOOLEAN
  PROVE  \/ /\ Real(Backward(u, n, beyond))
            /\ Clocked(Backward(u, n, beyond)) = Clocked(u) + n
         \/ u.year > LS_LAST_YEAR /\ Backward(u, n, beyond) = StrayLeapSecond
<1>1. IsValid(u)
  BY DEF Real
<1>2. Real(LeapBackward[<<u, n>>]) /\ Clocked(LeapBackward[<<u, n>>]) = Clocked(u) + n
  BY LeapBackwardIsExact
<1>3. ASSUME u.year > LS_LAST_YEAR, ToStray(u) < n
      PROVE  Real(PlainSeconds(u, n)) /\ Clocked(PlainSeconds(u, n)) = Clocked(u) + n
  <2>1. PICK e : e = PlainSeconds(u, n)
    OBVIOUS
  <2>2. SecondsAfter(e, u, n)
    BY <1>1, <2>1, PlainSecondsIsExact
  <2>3. HalfYear(u) > 89 /\ HalfYear(u) \in Int
    <3>1. u.year > 2016
      BY <1>3 DEF LS_LAST_YEAR
    <3> QED BY <1>1, <3>1, EndsAre
  <2>4. PICK i \in Nat : i = 90 /\ IsEnd(StrayLeapSecond, i)
    BY StrayIs
  <2>5. PICK g \in Int, q \in Int, p \in Int :
          g = HalfEnd(i) /\ q = Plain(StrayLeapSecond) /\ p = Plain(u) /\ q = 86400 * (g + 1)
    BY <1>1, <2>4, PlainEnd, PlainInt, SMT
  <2>6. q - p - 1 < n
    BY <1>1, <1>3, <2>3, <2>5, ToStrayIs
  <2>7. \A j \in has_leap_second : j < HalfYear(u) => j < HalfYear(e)
    <3>1. /\ IsValid(e) /\ Plain(e) = p + n /\ (n # 0 => e.sec <= 59)
          /\ (n = 0 => e = u)
      BY <2>2, <2>5 DEF SecondsAfter
    <3>2. CASE n = 0
      BY <3>1, <3>2
    <3>3. CASE n # 0
      <4>1. Plain(e) >= 86400 * (g + 1) /\ e.sec <= 59
        BY <2>5, <2>6, <3>1, <3>3, SMT
      <4>2. PICK k \in Int : k = g + 1
        OBVIOUS
      <4>3. Plain(e) >= 86400 * k
        BY <4>1, <4>2
      <4>4. Fixed(e) >= k
        BY <3>1, <4>1, <4>3, DayOfPlain
      <4>5. IsValid(StrayLeapSecond) /\ Fixed(StrayLeapSecond) = g /\ HalfYear(StrayLeapSecond) = i
        BY <2>4, <2>5 DEF IsEnd
      <4>6. Fixed(StrayLeapSecond) <= Fixed(e)
        <5>1. Fixed(e) \in Int
          BY <3>1, FixedStart
        <5> QED BY <4>2, <4>4, <4>5, <5>1
      <4>7. HalfYear(StrayLeapSecond) <= HalfYear(e)
        BY <3>1, <4>5, <4>6, HalvesFollow
      <4>8. \A j \in has_leap_second : j \in Nat /\ j <= 89
        BY LeapSet
      <4>9. HalfYear(e) \in Int
        BY <3>1, EndsAre
      <4> QED BY <2>4, <4>5, <4>7, <4>8, <4>9
    <3> QED BY <3>2, <3>3
  <2> QED BY <2>1, <2>2, <2>7, BackwardEnd
<1> QED BY <1>1, <1>2, <1>3, BackwardCases

------------------------------------------------------------------------------
(* addSeconds *)

(* Elapsed counts the same leap seconds, as dates. *)
LeapsTo(u) == {i \in has_leap_second : i < HalfYear(u)}
LeapDates(u) == {LeapSecond(i) : i \in LeapsTo(u)}

(* As dates they are as many as the half-years they end. *)
LEMMA LeapDatesCount ==
  ASSUME NEW u
  PROVE  Cardinality(LeapDates(u)) = Before(HalfYear(u))
<1>1. PICK S, T : S = LeapsTo(u) /\ T = LeapDates(u)
  OBVIOUS
<1>2. IsFiniteSet(S) /\ Cardinality(S) = Before(HalfYear(u))
  BY <1>1, BeforeInt DEF LeapsTo, Before
<1>3. PICK g : g = [i \in S |-> LeapSecond(i)]
  OBVIOUS
<1>4. ASSUME NEW i \in S
      PROVE  HalfYear(g[i]) = i
  <2>1. i \in Nat
    BY <1>1, LeapSet DEF LeapsTo
  <2>2. IsEnd(LeapSecond(i), i)
    BY <2>1, LeapSecondEnds
  <2> QED BY <1>3, <2>2 DEF IsEnd
<1>5. g \in [S -> T] /\ \A t \in T : \E s \in S : g[s] = t
  BY <1>1, <1>3 DEF LeapDates
<1>6. \A a, b \in S : g[a] = g[b] => a = b
  BY <1>4
<1>7. ExistsBijection(S, T)
  BY <1>5, <1>6 DEF ExistsBijection, Bijection, Injection, Surjection, IsInjective
<1>8. Cardinality(T) = Cardinality(S)
  BY <1>2, <1>7, FS_Bijection
<1> QED BY <1>1, <1>2, <1>8

(* e is the local time of r. *)
LocalOf(e, r) ==
  IsValid(e) /\ IsValid(r) /\ MinutesUTC(e) = MinutesUTC(r) + Zone /\ e.sec = r.sec

ElapsedFrom == PlainZero - 60 * Zone

(* The leap seconds that Elapsed counts are those before the half-year in UTC. *)
LEMMA LeapsCounted ==
  ASSUME NEW e, NEW r, LocalOf(e, r)
  PROVE  /\ MinutesUTC(e) \div 1440 = Fixed(r) - Start(2000, 1)
         /\ {l \in {LeapSecond(i) : i \in has_leap_second} :
               MinutesUTC(l) + Zone < 1440 * (MinutesUTC(e) \div 1440)} = LeapDates(r)
<1>1. IsValid(e) /\ IsValid(r) /\ MinutesUTC(e) = MinutesUTC(r) + Zone
  BY DEF LocalOf
<1>2. PICK o \in Int, z \in Int, f \in Int : o = Start(2000, 1) /\ z = Zone /\ f = Fixed(r)
  BY <1>1, MinutesOf, DatesAssumption, PlainInt
<1>3. PICK h \in Int, m \in Int :
        /\ h = r.hour /\ m = r.min /\ h >= 0 /\ h <= 23 /\ m >= 0 /\ m <= 59
  BY <1>1, Clock
<1>4. MinutesUTC(e) = 1440 * (f - o) + 60 * h + m
  <2>1. MinutesUTC(r) = 1440 * (f - o) + 60 * h + m - z
    BY <1>1, <1>2, <1>3, MinutesOf
  <2>2. PICK k \in Int : k = MinutesUTC(r)
    BY <1>1, MinutesOf
  <2>3. MinutesUTC(e) = k + z
    BY <1>1, <1>2, <2>2
  <2> QED BY <2>1, <2>2, <2>3
<1>5. PICK g \in Int : g = f - o
  OBVIOUS
<1>6. (1440 * g + 60 * h + m) \div 1440 = g
  BY <1>3, SMT
<1>7. MinutesUTC(e) \div 1440 = g
  BY <1>4, <1>5, <1>6
<1>8. ASSUME NEW i \in has_leap_second
      PROVE  MinutesUTC(LeapSecond(i)) + Zone < 1440 * g <=> i < HalfYear(r)
  <2>1. i \in Nat
    BY LeapSet
  <2>2. PICK l : l = LeapSecond(i)
    OBVIOUS
  <2>3. IsValid(l) /\ Fixed(l) = HalfEnd(i) /\ l.hour = 23 /\ l.min = 59
    BY <2>1, <2>2, LeapSecondEnds DEF IsEnd
  <2>4. PICK c \in Int : c = Fixed(l)
    BY <2>3, PlainInt
  <2>5. MinutesUTC(l) = 1440 * (c - o) + 60 * 23 + 59 - z
    BY <1>2, <2>3, <2>4, MinutesOf
  <2>6. MinutesUTC(l) + z = 1440 * (c - o) + 1439
    BY <2>5
  <2>7. 1440 * (c - o) + 1439 < 1440 * g <=> c < f
    BY <1>5, SMT
  <2>8. i < HalfYear(r) <=> HalfEnd(i) < Fixed(r)
    BY <1>1, <2>1, HalfBefore
  <2> QED BY <1>2, <2>2, <2>3, <2>4, <2>6, <2>7, <2>8
<1>9. PICK q : q = MinutesUTC(e) \div 1440 /\ q = g
  BY <1>7
<1>10. {l \in {LeapSecond(i) : i \in has_leap_second} : MinutesUTC(l) + Zone < 1440 * q}
         = LeapDates(r)
  BY <1>8, <1>9 DEF LeapDates, LeapsTo
<1> QED BY <1>2, <1>5, <1>9, <1>10

(* Elapsed is the clock in UTC, from another beginning. *)
LEMMA ElapsedIs ==
  ASSUME NEW e, NEW r, LocalOf(e, r)
  PROVE  Elapsed(e) = Clocked(r) - ElapsedFrom /\ ElapsedFrom \in Int /\ Elapsed(e) \in Int
<1>1. IsValid(e) /\ IsValid(r) /\ MinutesUTC(e) = MinutesUTC(r) + Zone /\ e.sec = r.sec
  BY DEF LocalOf
<1>2. PICK L : L = {l \in {LeapSecond(i) : i \in has_leap_second} :
                      MinutesUTC(l) + Zone < 1440 * (MinutesUTC(e) \div 1440)}
  OBVIOUS
<1>3. PICK b \in Int : b = Before(HalfYear(r)) /\ b = Cardinality(L)
  <2>1. L = LeapDates(r)
    BY <1>2, LeapsCounted
  <2>2. Before(HalfYear(r)) \in Int
    BY <1>1, ClockedInt
  <2> QED BY <2>1, <2>2, LeapDatesCount
<1>4. Elapsed(e) = 60 * MinutesUTC(e) + e.sec + Cardinality(L)
  BY <1>2, Zenon DEF Elapsed
<1>5. PICK k \in Int, s \in Int, z \in Int, o \in Int, p \in Int :
        k = MinutesUTC(r) /\ s = r.sec /\ z = Zone /\ o = PlainZero /\ p = Plain(r)
  BY <1>1, MinutesOf, Clock, DatesAssumption, PlainMinutesUTC, PlainInt
<1>6. p = 60 * k + o + s
  BY <1>1, <1>5, PlainMinutesUTC
<1>7. MinutesUTC(e) = k + z /\ e.sec = s
  BY <1>1, <1>5
<1>8. Elapsed(e) = 60 * (k + z) + s + b
  BY <1>3, <1>4, <1>7
<1>9. ElapsedFrom = o - 60 * z
  BY <1>5 DEF ElapsedFrom
<1>10. Clocked(r) = p + b
  BY <1>3, <1>5 DEF Clocked
<1>11. 60 * (k + z) + s + b = (p + b) - (o - 60 * z)
  BY <1>6
<1>12. PICK x \in Int : x = o - 60 * z
  OBVIOUS
<1>13. PICK y \in Int : y = 60 * (k + z) + s + b
  OBVIOUS
<1>14. y = (p + b) - x
  BY <1>11, <1>12, <1>13
<1> QED BY <1>8, <1>9, <1>10, <1>12, <1>13, <1>14

(* A date is the local time of what it is in UTC, and the other way round. *)
LEMMA LocalOfUTC ==
  ASSUME NEW dt, IsValid(dt)
  PROVE  LocalOf(dt, ToUTC(dt)) /\ LocalOf(ToLocal(dt), dt)
<1>1. /\ IsValid(ToUTC(dt)) /\ ToUTC(dt).sec = dt.sec
      /\ MinutesUTC(ToUTC(dt)) = MinutesUTC(dt) - Zone
      /\ IsValid(ToLocal(dt)) /\ ToLocal(dt).sec = dt.sec
      /\ MinutesUTC(ToLocal(dt)) = MinutesUTC(dt) + Zone
  BY ToUTCs
<1>2. MinutesUTC(dt) \in Int /\ Zone \in Int
  BY MinutesOf, DatesAssumption
<1> QED BY <1>1, <1>2 DEF LocalOf

(* Exists is being real, in UTC. *)
LEMMA ExistsIsReal ==
  ASSUME NEW dt, IsValid(dt)
  PROVE  /\ Exists(dt) <=> Real(ToUTC(dt))
         /\ Exists(dt) => (InLeapSecond(dt) <=> Extra(ToUTC(dt)) = 1)
<1>1. PICK u : u = ToUTC(dt)
  OBVIOUS
<1>2. IsValid(u) /\ u.sec = dt.sec /\ u.sec \in 0..60
  BY <1>1, ToUTCs, Fields
<1>3. InLeapSecond(dt) <=> \E i \in has_leap_second : u = LeapSecond(i)
  BY <1>1 DEF InLeapSecond
<1>4. ASSUME NEW i \in has_leap_second, u = LeapSecond(i)
      PROVE  u.sec = 60
  <2>1. i \in Nat
    BY LeapSet
  <2> QED BY <1>4, <2>1, LeapSecondEnds DEF IsEnd
<1>5. Exists(dt) <=> Real(u)
  BY <1>2, <1>3 DEF Exists, Real
<1>6. Exists(dt) => (InLeapSecond(dt) <=> u.sec = 60)
  BY <1>2, <1>3, <1>4 DEF Exists
<1> QED BY <1>1, <1>5, <1>6 DEF Extra

(* Seconds within a day. *)
LEMMA SameDayEnd ==
  ASSUME NEW u, Real(u), NEW n \in Int, n # 0, FullSecond(u) + n >= 0, FullSecond(u) + n < 86400,
         NEW e, SecondsAfter(e, u, n)
  PROVE  Real(e) /\ Clocked(e) = Clocked(u) + n
<1>1. IsValid(u) /\ IsValid(e) /\ Plain(e) = Plain(u) + n /\ e.sec <= 59
  BY DEF SecondsAfter, Real
<1>2. Real(e)
  <2>1. e.sec \in 0..60
    BY <1>1, Fields
  <2> QED BY <1>1, <2>1 DEF Real
<1>3. PICK d \in Int : SecondsInto(u, d)
  BY <1>1, PlainDay
<1>4. PICK f \in Int, p \in Int, q \in Int, g \in Int : f = Fixed(u) /\ p = Plain(u) /\ q = Plain(e) /\ g = Fixed(e)
  BY <1>1, PlainInt
<1>5. p = 86400 * f + d /\ FullSecond(u) = d
  BY <1>3, <1>4, SMT DEF SecondsInto
<1>6. q = p + n /\ d + n >= 0 /\ d + n < 86400
  BY <1>1, <1>4, <1>5, SMT
<1>7. q >= 86400 * f /\ q < 86400 * (f + 1)
  BY <1>5, <1>6, SMT
<1>8. Fixed(e) <= f /\ Fixed(e) >= f
  BY <1>1, <1>4, <1>7, DayOfPlain
<1>9. Fixed(e) = Fixed(u)
  BY <1>4, <1>8
<1>10. HalfYear(e) = HalfYear(u)
  <2>1. HalfYear(e) <= HalfYear(u) /\ HalfYear(u) <= HalfYear(e)
    <3>1. Fixed(e) <= Fixed(u) /\ Fixed(u) <= Fixed(e)
      BY <1>4, <1>9
    <3> QED BY <1>1, <3>1, HalvesFollow
  <2>2. HalfYear(e) \in Int /\ HalfYear(u) \in Int
    BY <1>1, HalfOf
  <2> QED BY <2>1, <2>2
<1>11. Clocked(e) = Plain(e) + Before(HalfYear(u)) /\ Clocked(u) = Plain(u) + Before(HalfYear(u))
       /\ Before(HalfYear(u)) \in Int
  BY <1>1, <1>10, ClockedInt
<1>12. PICK b \in Int : b = Before(HalfYear(u))
  BY <1>11
<1>13. Clocked(e) = q + b /\ Clocked(u) = p + b
  BY <1>4, <1>11, <1>12
<1>14. q + b = (p + b) + n
  BY <1>6
<1> QED BY <1>2, <1>13, <1>14

(* A leap second is the last of a full day and one more. *)
LEMMA RealSeconds ==
  ASSUME NEW u, Real(u)
  PROVE  /\ FullSecond(u) \in Int /\ FullSecond(u) >= 0
         /\ Extra(u) = 1 => FullSecond(u) = 86400
         /\ (u.hour = 23 /\ u.min = 59 /\ u.sec = 60) <=> Extra(u) = 1
<1>1. IsValid(u)
  BY DEF Real
<1>2. PICK d \in Int : SecondsInto(u, d)
  BY <1>1, PlainDay
<1>3. FullSecond(u) = d /\ d >= 0 /\ Plain(u) = 86400 * Fixed(u) + d
  BY <1>2, SMT DEF SecondsInto
<1>4. Extra(u) = 1 <=> u.sec = 60
  BY RealExtra
<1>5. ASSUME u.sec = 60
      PROVE  u.hour = 23 /\ u.min = 59 /\ d = 86400
  <2>1. PICK i \in has_leap_second : u = LeapSecond(i)
    BY <1>5 DEF Real
  <2>2. i \in Nat
    BY LeapSet
  <2>3. IsEnd(u, i)
    BY <2>1, <2>2, LeapSecondEnds
  <2>4. Plain(u) = 86400 * (HalfEnd(i) + 1) /\ HalfEnd(i) \in Int
    BY <2>2, <2>3, PlainEnd
  <2>5. Fixed(u) = HalfEnd(i) /\ u.hour = 23 /\ u.min = 59
    BY <2>3 DEF IsEnd
  <2>6. d = 86400
    <3>1. PICK f \in Int : f = HalfEnd(i)
      BY <2>4
    <3>2. 86400 * (f + 1) = 86400 * f + d
      BY <1>3, <2>4, <2>5, <3>1, SMT
    <3> QED BY <3>2, SMT
  <2> QED BY <2>5, <2>6, SMT
<1> QED BY <1>3, <1>4, <1>5, SMT

(* One second after a leap second, Forward is asked for none. *)
LEMMA ForwardStays ==
  ASSUME NEW u, Real(u), Extra(u) = 1, NEW n \in Int, n = 0
  PROVE  Forward(u, n) = u
<1>1. IsValid(u)
  BY DEF Real
<1>2. PICK t \in Counts : IsCount(t, u, n)
  BY <1>1, ACount
<1>3. t = <<u, n>> /\ t[1] = u /\ t[2] = n
  BY <1>2 DEF IsCount
<1>4. ForwardOver(u, n)
  <2>1. CASE NextLeapSeconds(u) = {}
    BY <2>1 DEF ForwardOver
  <2>2. CASE NextLeapSeconds(u) # {}
    <3>1. PICK i \in has_leap_second : IsNextLeap(u, i)
      BY <1>1, <2>2, NextLeapIs
    <3>2. PICK h \in Int : h = HalfYear(u) /\ h \in has_leap_second /\ Fixed(u) = HalfEnd(h)
      BY <1>1, HalfOf, RealExtra
    <3>3. i \in Int /\ h >= 0
      BY <3>2, LeapSet
    <3>4. EndsAfter(u) = h + 1
      <4>1. EndsAfter(u) = (IF HalfYear(u) < 0 THEN 0 ELSE HalfYear(u)) + Extra(u)
        BY RealExtra
      <4> QED BY <3>2, <3>3, <4>1
    <3>5. h < i
      <4>1. EndsAfter(u) <= i
        BY <3>1 DEF IsNextLeap
      <4> QED BY <3>2, <3>3, <3>4, <4>1
    <3>6. PICK f \in Int, g \in Int : f = HalfEnd(h) /\ g = HalfEnd(i) /\ f < g
      BY <3>2, <3>3, <3>5, HalvesInOrder
    <3>7. Plain(u) <= 86400 * (f + 1)
      <4>1. Fixed(u) = f
        BY <3>2, <3>6
      <4> QED BY <1>1, <4>1, DayOfPlain
    <3>8. Plain(NextLeap(u)) = 86400 * (g + 1)
      <4>1. IsEnd(NextLeap(u), i)
        BY <3>1 DEF IsNextLeap
      <4> QED BY <3>3, <3>6, <4>1, PlainEnd
    <3>9. PICK p \in Int, q \in Int : p = Plain(u) /\ q = 86400 * (g + 1)
      BY <1>1, PlainInt
    <3>10. p < q
      BY <3>6, <3>7, <3>9, SMT
    <3>11. ToNextLeap(u) = q - p
      BY <3>1, <3>8, <3>9 DEF IsNextLeap
    <3>12. ToNextLeap(u) > n
      BY <3>9, <3>10, <3>11
    <3> QED BY <3>12 DEF ForwardOver
  <2> QED BY <2>1, <2>2
<1>5. LeapForward[t] = PlainSeconds(u, n)
  <2>1. t \in ForwardDone
    BY <1>3, <1>4 DEF ForwardDone
  <2>2. LeapForward[t] = ForwardResult[t]
    BY <2>1, ForwardRuns DEF Runs
  <2> QED BY <1>3, <1>4, <2>2 DEF ForwardResult
<1>6. SecondsAfter(PlainSeconds(u, n), u, n)
  BY <1>1, PlainSecondsIsExact
<1> QED BY <1>3, <1>5, <1>6 DEF Forward, SecondsAfter

(* addSeconds, in UTC. *)
AddedForward(u, n) ==
  IF FullSecond(u) + n < 86400 THEN PlainSeconds(u, n)
  ELSE Forward(u, IF u.hour = 23 /\ u.min = 59 /\ u.sec = 60 THEN n - 1 ELSE n)
UTCMidnight(u) == [u EXCEPT !.hour = 0, !.min = 0, !.sec = 0]
AddedBack(u, n, beyond) ==
  IF FullSecond(u) + n > 0 THEN PlainSeconds(u, n)
  ELSE Backward(IF FullSecond(u) + n = 0 THEN ToLocal(UTCMidnight(u)) ELSE u, n, beyond)

(* The three cases of addSeconds. *)
LEMMA AddSecondsCases ==
  ASSUME NEW dt, NEW n \in Int, NEW beyond \in BOOLEAN
  PROVE  /\ n = 0 => addSeconds(dt, n, beyond) = dt
         /\ n > 0 => addSeconds(dt, n, beyond) = ToLocal(AddedForward(ToUTC(dt), n))
         /\ n < 0 => addSeconds(dt, n, beyond) = ToLocal(AddedBack(ToUTC(dt), n, beyond))
<1> DEFINE u == ToUTC(dt)
           there == ToLocal(AddedForward(u, n))
           back == ToLocal(AddedBack(u, n, beyond))
<1>1. addSeconds(dt, n, beyond) = CASE n = 0 -> dt [] n > 0 -> there [] n < 0 -> back
  BY SMT DEF addSeconds, AddedForward, AddedBack, FullSecond, UTCMidnight
<1> HIDE DEF u, there, back
<1>2. CASE n = 0
  <2>1. ~(n > 0) /\ ~(n < 0)
    BY <1>2
  <2>2. addSeconds(dt, n, beyond) = dt
    BY <1>1, <1>2, <2>1
  <2> QED BY <2>1, <2>2
<1>3. CASE n > 0
  <2>1. ~(n = 0) /\ ~(n < 0)
    BY <1>3
  <2>2. addSeconds(dt, n, beyond) = there
    BY <1>1, <1>3, <2>1
  <2> QED BY <2>1, <2>2 DEF there, u
<1>4. CASE n < 0
  <2>1. ~(n = 0) /\ ~(n > 0)
    BY <1>4
  <2>2. addSeconds(dt, n, beyond) = back
    BY <1>1, <1>4, <2>1
  <2> QED BY <2>1, <2>2 DEF back, u
<1> QED BY <1>2, <1>3, <1>4

(* What addSeconds comes to in UTC is a date. *)
LEMMA AddedIsValid ==
  ASSUME NEW u, IsValid(u), NEW n \in Int, NEW beyond \in BOOLEAN
  PROVE  IsValid(AddedForward(u, n)) /\ IsValid(AddedBack(u, n, beyond))
<1>1. IsValid(PlainSeconds(u, n))
  BY PlainSecondsIsExact DEF SecondsAfter
<1>2. PICK k \in Int : k = IF u.hour = 23 /\ u.min = 59 /\ u.sec = 60 THEN n - 1 ELSE n
  OBVIOUS
<1>3. IsValid(Forward(u, k))
  BY ForwardIsValid
<1>4. PICK v : v = IF FullSecond(u) + n = 0 THEN ToLocal(UTCMidnight(u)) ELSE u
  OBVIOUS
<1>5. IsValid(v)
  <2>1. PICK z \in 0..23, y \in 0..59, x \in 0..60 : z = 0 /\ y = 0 /\ x = 0
    OBVIOUS
  <2>2. IsAtTime(AtTime(u, z, y, x), u, z, y, x)
    BY OtherTime
  <2>3. UTCMidnight(u) = AtTime(u, z, y, x)
    BY <2>1 DEF UTCMidnight, AtTime
  <2>4. IsValid(UTCMidnight(u))
    BY <2>2, <2>3 DEF IsAtTime
  <2>5. IsValid(ToLocal(UTCMidnight(u)))
    BY <2>4, ToUTCs
  <2> QED BY <1>4, <2>5
<1>6. IsValid(Backward(v, n, beyond))
  BY <1>5, BackwardIsValid
<1>7. IsValid(AddedForward(u, n))
  BY <1>1, <1>2, <1>3, SMT DEF AddedForward
<1>8. IsValid(AddedBack(u, n, beyond))
  BY <1>1, <1>4, <1>6, Zenon DEF AddedBack
<1> QED BY <1>7, <1>8

(* addSeconds comes to a date. *)
LEMMA AddSecondsIsValid ==
  ASSUME NEW dt, IsValid(dt), NEW n \in Int, NEW beyond \in BOOLEAN
  PROVE  IsValid(addSeconds(dt, n, beyond))
<1>1. IsValid(ToUTC(dt))
  BY ToUTCs
<1>2. IsValid(AddedForward(ToUTC(dt), n)) /\ IsValid(AddedBack(ToUTC(dt), n, beyond))
  BY <1>1, AddedIsValid
<1>3. IsValid(ToLocal(AddedForward(ToUTC(dt), n))) /\ IsValid(ToLocal(AddedBack(ToUTC(dt), n, beyond)))
  BY <1>2, ToUTCs
<1>4. /\ n = 0 => addSeconds(dt, n, beyond) = dt
      /\ n > 0 => addSeconds(dt, n, beyond) = ToLocal(AddedForward(ToUTC(dt), n))
      /\ n < 0 => addSeconds(dt, n, beyond) = ToLocal(AddedBack(ToUTC(dt), n, beyond))
  BY AddSecondsCases
<1>5. n = 0 \/ n > 0 \/ n < 0
  OBVIOUS
<1> QED BY <1>3, <1>4, <1>5

(* How far a time is moved: one second after a leap second it is there still. *)
SecondsAdded(u, n) == IF Extra(u) = 1 /\ n = 1 THEN 0 ELSE n

(* Forward the clock is moved by n seconds, or not at all in the one case. *)
LEMMA AddedForwardIsExact ==
  ASSUME NEW u, Real(u), NEW n \in Int, n > 0
  PROVE  Clocked(AddedForward(u, n)) = Clocked(u) + SecondsAdded(u, n)
<1>1. IsValid(u) /\ Clocked(u) \in Int /\ Extra(u) \in {0, 1}
  BY ClockedInt, RealExtra DEF Real
<1>2. /\ FullSecond(u) \in Int /\ FullSecond(u) >= 0
      /\ Extra(u) = 1 => FullSecond(u) = 86400
      /\ (u.hour = 23 /\ u.min = 59 /\ u.sec = 60) <=> Extra(u) = 1
  BY RealSeconds
<1>3. CASE FullSecond(u) + n < 86400
  <2>1. Extra(u) # 1
    BY <1>2, <1>3, SMT
  <2>2. AddedForward(u, n) = PlainSeconds(u, n)
    BY <1>3, SMT DEF AddedForward
  <2>3. SecondsAfter(PlainSeconds(u, n), u, n)
    BY <1>1, PlainSecondsIsExact
  <2>4. FullSecond(u) + n >= 0 /\ n # 0
    BY <1>2, SMT
  <2>5. Clocked(PlainSeconds(u, n)) = Clocked(u) + n
    BY <1>3, <2>3, <2>4, SameDayEnd
  <2> QED BY <2>1, <2>2, <2>5 DEF SecondsAdded
<1>4. CASE ~(FullSecond(u) + n < 86400) /\ Extra(u) = 0
  <2>1. AddedForward(u, n) = Forward(u, n)
    BY <1>2, <1>4, SMT DEF AddedForward
  <2>2. Clocked(Forward(u, n)) = Clocked(u) + Extra(u) + n
    <3>1. n >= 0 /\ (Extra(u) = 1 => n >= 1)
      BY <1>4
    <3> QED BY <3>1, ForwardIsExact
  <2> QED BY <1>1, <1>4, <2>1, <2>2 DEF SecondsAdded
<1>5. CASE ~(FullSecond(u) + n < 86400) /\ Extra(u) = 1
  <2>1. PICK k \in Int : k = n - 1
    OBVIOUS
  <2>2. AddedForward(u, n) = Forward(u, k)
    BY <1>2, <1>5, <2>1, SMT DEF AddedForward
  <2>3. CASE k = 0
    <3>1. Forward(u, k) = u
      BY <1>5, <2>3, ForwardStays
    <3>2. n = 1
      BY <2>1, <2>3
    <3>3. SecondsAdded(u, n) = 0
      BY <1>5, <3>2 DEF SecondsAdded
    <3> QED BY <1>1, <2>2, <3>1, <3>3
  <2>4. CASE k # 0
    <3>1. k >= 1 /\ k >= 0 /\ n # 1
      BY <2>1, <2>4
    <3>2. Clocked(Forward(u, k)) = Clocked(u) + Extra(u) + k
      BY <3>1, ForwardIsExact
    <3>3. SecondsAdded(u, n) = n
      BY <3>1 DEF SecondsAdded
    <3> QED BY <1>1, <1>5, <2>1, <2>2, <3>2, <3>3
  <2> QED BY <2>3, <2>4
<1> QED BY <1>1, <1>3, <1>4, <1>5

(* Back the clock is moved by n seconds, unless they end at midnight UTC. *)
LEMMA AddedBackIsExact ==
  ASSUME NEW u, Real(u), NEW n \in Int, NEW beyond \in BOOLEAN, n < 0, FullSecond(u) + n # 0
  PROVE  \/ Clocked(AddedBack(u, n, beyond)) = Clocked(u) + n
         \/ u.year > LS_LAST_YEAR /\ AddedBack(u, n, beyond) = StrayLeapSecond
<1>1. IsValid(u)
  BY DEF Real
<1>2. PICK d \in Int : SecondsInto(u, d)
  BY <1>1, PlainDay
<1>3. FullSecond(u) = d /\ d <= 86400
  BY <1>2, SMT DEF SecondsInto
<1>4. CASE FullSecond(u) + n > 0
  <2>1. AddedBack(u, n, beyond) = PlainSeconds(u, n)
    BY <1>4, Zenon DEF AddedBack
  <2>2. SecondsAfter(PlainSeconds(u, n), u, n)
    BY <1>1, PlainSecondsIsExact
  <2>3. FullSecond(u) + n >= 0 /\ FullSecond(u) + n < 86400 /\ n # 0
    BY <1>3, <1>4, SMT
  <2> QED BY <2>1, <2>2, <2>3, SameDayEnd
<1>5. CASE ~(FullSecond(u) + n > 0)
  <2>1. AddedBack(u, n, beyond) = Backward(u, n, beyond)
    BY <1>5, Zenon DEF AddedBack
  <2>2. n <= 0
    OBVIOUS
  <2> QED BY <2>1, <2>2, BackwardIsExact
<1> QED BY <1>4, <1>5

(* addSeconds counts every second, but for those cases. *)
LEMMA AddSecondsIsExact ==
  ASSUME NEW dt, IsValid(dt), Exists(dt), NEW n \in Int, NEW beyond \in BOOLEAN,
         ~(n < 0 /\ FullSecond(ToUTC(dt)) + n = 0)
  PROVE  \/ Elapsed(addSeconds(dt, n, beyond)) = Elapsed(dt) + SecondsAdded(ToUTC(dt), n)
         \/ /\ n < 0 /\ ToUTC(dt).year > LS_LAST_YEAR
            /\ addSeconds(dt, n, beyond) = ToLocal(StrayLeapSecond)
<1>1. PICK u : u = ToUTC(dt)
  OBVIOUS
<1>2. IsValid(u) /\ Real(u)
  BY <1>1, ToUTCs, ExistsIsReal
<1>3. PICK c \in Int, z \in Int : c = Clocked(u) /\ z = ElapsedFrom /\ Elapsed(dt) = c - z
  <2>1. LocalOf(dt, u)
    BY <1>1, LocalOfUTC
  <2>2. Elapsed(dt) = Clocked(u) - ElapsedFrom /\ ElapsedFrom \in Int
    BY <2>1, ElapsedIs
  <2>3. Clocked(u) \in Int
    BY <1>2, ClockedInt
  <2> QED BY <2>2, <2>3
<1>4. PICK k \in Int : k = SecondsAdded(u, n)
  BY DEF SecondsAdded
<1>5. ASSUME NEW r, IsValid(r), Clocked(r) = Clocked(u) + SecondsAdded(u, n)
      PROVE  Elapsed(ToLocal(r)) = Elapsed(dt) + SecondsAdded(u, n)
  <2>1. LocalOf(ToLocal(r), r)
    BY <1>5, LocalOfUTC
  <2>2. Elapsed(ToLocal(r)) = Clocked(r) - ElapsedFrom
    BY <2>1, ElapsedIs
  <2>3. Elapsed(ToLocal(r)) = (c + k) - z
    BY <1>3, <1>4, <1>5, <2>2
  <2> QED BY <1>3, <1>4, <2>3
<1>6. IsValid(AddedForward(u, n)) /\ IsValid(AddedBack(u, n, beyond))
  BY <1>2, AddedIsValid
<1>7. /\ n = 0 => addSeconds(dt, n, beyond) = dt
      /\ n > 0 => addSeconds(dt, n, beyond) = ToLocal(AddedForward(u, n))
      /\ n < 0 => addSeconds(dt, n, beyond) = ToLocal(AddedBack(u, n, beyond))
  BY <1>1, AddSecondsCases
<1>8. CASE n = 0
  <2>1. SecondsAdded(u, n) = 0
    BY <1>8 DEF SecondsAdded
  <2> QED BY <1>1, <1>3, <1>7, <1>8, <2>1
<1>9. CASE n > 0
  <2>1. Clocked(AddedForward(u, n)) = Clocked(u) + SecondsAdded(u, n)
    BY <1>2, <1>9, AddedForwardIsExact
  <2> QED BY <1>1, <1>5, <1>6, <1>7, <1>9, <2>1
<1>10. CASE n < 0
  <2>1. FullSecond(u) + n # 0
    BY <1>1, <1>10
  <2>2. SecondsAdded(u, n) = n
    BY <1>10 DEF SecondsAdded
  <2>3. CASE Clocked(AddedBack(u, n, beyond)) = Clocked(u) + n
    BY <1>1, <1>5, <1>6, <1>7, <1>10, <2>2, <2>3
  <2>4. CASE u.year > LS_LAST_YEAR /\ AddedBack(u, n, beyond) = StrayLeapSecond
    BY <1>1, <1>7, <1>10, <2>4
  <2> QED BY <1>2, <1>10, <2>1, <2>3, <2>4, AddedBackIsExact
<1> QED BY <1>8, <1>9, <1>10

------------------------------------------------------------------------------
(* The calls *)

(* What the last call made of the date before it. *)
CallDone ==
  \/ call = <<"set", 0>> /\ datetime = from
  \/ \E n \in Int :
       \/ call = <<"addDays", n>> /\ datetime = addDays(from, n)
       \/ call = <<"addMonths", n>> /\ datetime = addMonths(from, n)
       \/ call = <<"addYears", n>> /\ datetime = addYears(from, n)
       \/ call = <<"addMinutes", n>> /\ datetime = addMinutes(from, n)
       \/ \E beyond \in BOOLEAN :
            call = <<"addSeconds", n>> /\ datetime = addSeconds(from, n, beyond)
       \/ call = <<"setTimestamp", n>> /\ datetime = setTimestamp(n)

DatesInv == TypeOK /\ CallDone

(* Midnights. *)
MidnightOf(y, m, d) == DateTime(y, m, d, 0, 0, 0)

IsMidnight(e, y, m, d) ==
  /\ IsValid(e) /\ e.year = y /\ e.month = m /\ e.day = d /\ e.hour = 0 /\ e.min = 0 /\ e.sec = 0
  /\ Fixed(e) = Start(y, m) + d - 1

(* Midnight of a day that its month has is a date. *)
LEMMA MidnightIs ==
  ASSUME NEW y \in Int, NEW m \in 1..12, NEW d \in 1..31, d <= daysPerMonth(m, y)
  PROVE  IsMidnight(MidnightOf(y, m, d), y, m, d)
<1>1. PICK e : e = MidnightOf(y, m, d)
  OBVIOUS
<1>2. e \in DateTimes /\ e.year = y /\ e.month = m /\ e.day = d /\ e.hour = 0 /\ e.min = 0 /\ e.sec = 0
  BY <1>1 DEF MidnightOf, DateTime, DateTimes
<1>3. IsValid(e)
  BY <1>2 DEF IsValid, ValidDates
<1>4. Fixed(e) = Start(y, m) + d - 1
  BY <1>2, <1>3, FixedStart
<1> QED BY <1>1, <1>2, <1>3, <1>4 DEF IsMidnight

Epoch == MidnightOf(1970, 1, 1)

(* The beginning of 1970 is a date. *)
LEMMA EpochIsValid == IsValid(Epoch) /\ Epoch.sec = 0
<1>1. PICK y \in Int, m \in 1..12, d \in 1..31 : y = 1970 /\ m = 1 /\ d = 1
  OBVIOUS
<1>2. d <= daysPerMonth(m, y)
  BY <1>1 DEF daysPerMonth
<1>3. IsMidnight(MidnightOf(y, m, d), y, m, d)
  BY <1>2, MidnightIs
<1> QED BY <1>1, <1>3 DEF Epoch, IsMidnight

(* setTimestamp goes n seconds on from there. *)
LEMMA SetTimestampIs ==
  ASSUME NEW n \in Int
  PROVE  /\ setTimestamp(n) = ToLocal(PlainSeconds(Epoch, n)) /\ IsValid(setTimestamp(n))
         /\ SecondsAfter(PlainSeconds(Epoch, n), Epoch, n)
<1>1. setTimestamp(n) = ToLocal(PlainSeconds(Epoch, n))
  BY Zenon DEF setTimestamp, Epoch, MidnightOf
<1>2. SecondsAfter(PlainSeconds(Epoch, n), Epoch, n)
  BY EpochIsValid, PlainSecondsIsExact
<1>3. IsValid(PlainSeconds(Epoch, n))
  BY <1>2 DEF SecondsAfter
<1> QED BY <1>1, <1>2, <1>3, ToUTCs

(* Every other call makes a date of a date. *)
LEMMA CallsAreValid ==
  ASSUME NEW dt, IsValid(dt), NEW n \in Int
  PROVE  /\ IsValid(addDays(dt, n)) /\ IsValid(addMonths(dt, n)) /\ IsValid(addYears(dt, n))
         /\ IsValid(addMinutes(dt, n)) /\ IsValid(setTimestamp(n))
<1>1. IsValid(addDays(dt, n))
  BY AddDaysIsExact DEF DaysAfter
<1>2. IsValid(addMonths(dt, n))
  BY AddMonthsIsExact DEF MonthsAfter
<1>3. IsValid(addYears(dt, n))
  BY AddYearsIsExact DEF MonthsAfter
<1>4. IsValid(addMinutes(dt, n))
  BY AddMinutesIsExact DEF MinutesAfter
<1> QED BY <1>1, <1>2, <1>3, <1>4, SetTimestampIs

(* DatesInv is inductive. *)
LEMMA DatesInvKept == Spec => []DatesInv
<1>1. Init => DatesInv
  BY FirstDatesAssumption, DatesAssumption DEF Init, DatesInv, TypeOK, CallDone
<1>2. ASSUME DatesInv, [Next]_vars
      PROVE  DatesInv'
  <2>1. IsValid(datetime) /\ calls \in Nat /\ MaxCalls \in Nat
    BY <1>2, DatesAssumption DEF DatesInv, TypeOK
  <2>2. ASSUME NEW op, NEW n \in Int, NEW new, Call(op, n, new), IsValid(new)
        PROVE  /\ TypeOK' /\ call' = <<op, n>> /\ from' = datetime /\ datetime' = new
    <3>1. call' = <<op, n>> /\ from' = datetime /\ datetime' = new /\ calls' = calls + 1 /\ calls < MaxCalls
      BY <2>2 DEF Call
    <3>2. IsValid(datetime') /\ IsValid(from') /\ calls' \in 0..MaxCalls
      BY <2>1, <2>2, <3>1
    <3> QED BY <3>1, <3>2 DEF TypeOK, IsValid, ValidDates, DateTimes, daysPerMonth
  <2>3. CASE AddDays
    <3>1. PICK n \in Days : Call("addDays", n, addDays(datetime, n))
      BY <2>3 DEF AddDays
    <3>2. n \in Int
      BY DatesAssumption
    <3>3. IsValid(addDays(datetime, n))
      BY <2>1, <3>2, CallsAreValid
    <3>4. TypeOK' /\ call' = <<"addDays", n>> /\ datetime' = addDays(from', n)
      BY <2>2, <3>1, <3>2, <3>3
    <3>5. CallDone'
      BY <3>2, <3>4 DEF CallDone
    <3> QED BY <3>4, <3>5 DEF DatesInv
  <2>4. CASE AddMonths
    <3>1. PICK n \in Months : Call("addMonths", n, addMonths(datetime, n))
      BY <2>4 DEF AddMonths
    <3>2. n \in Int
      BY DatesAssumption
    <3>3. IsValid(addMonths(datetime, n))
      BY <2>1, <3>2, CallsAreValid
    <3>4. TypeOK' /\ call' = <<"addMonths", n>> /\ datetime' = addMonths(from', n)
      BY <2>2, <3>1, <3>2, <3>3
    <3>5. CallDone'
      BY <3>2, <3>4 DEF CallDone
    <3> QED BY <3>4, <3>5 DEF DatesInv
  <2>5. CASE AddYears
    <3>1. PICK n \in Years : Call("addYears", n, addYears(datetime, n))
      BY <2>5 DEF AddYears
    <3>2. n \in Int
      BY DatesAssumption
    <3>3. IsValid(addYears(datetime, n))
      BY <2>1, <3>2, CallsAreValid
    <3>4. TypeOK' /\ call' = <<"addYears", n>> /\ datetime' = addYears(from', n)
      BY <2>2, <3>1, <3>2, <3>3
    <3>5. CallDone'
      BY <3>2, <3>4 DEF CallDone
    <3> QED BY <3>4, <3>5 DEF DatesInv
  <2>6. CASE AddMinutes
    <3>1. PICK n \in Minutes : Call("addMinutes", n, addMinutes(datetime, n))
      BY <2>6 DEF AddMinutes
    <3>2. n \in Int
      BY DatesAssumption
    <3>3. IsValid(addMinutes(datetime, n))
      BY <2>1, <3>2, CallsAreValid
    <3>4. TypeOK' /\ call' = <<"addMinutes", n>> /\ datetime' = addMinutes(from', n)
      BY <2>2, <3>1, <3>2, <3>3
    <3>5. CallDone'
      BY <3>2, <3>4 DEF CallDone
    <3> QED BY <3>4, <3>5 DEF DatesInv
  <2>7. CASE AddSeconds
    <3>1. PICK n \in Seconds, beyond \in BOOLEAN :
            Call("addSeconds", n, addSeconds(datetime, n, beyond))
      BY <2>7 DEF AddSeconds
    <3>2. n \in Int
      BY DatesAssumption
    <3>3. IsValid(addSeconds(datetime, n, beyond))
      BY <2>1, <3>2, AddSecondsIsValid
    <3>4. TypeOK' /\ call' = <<"addSeconds", n>> /\ datetime' = addSeconds(from', n, beyond)
      BY <2>2, <3>1, <3>2, <3>3
    <3>5. CallDone'
      BY <3>2, <3>4 DEF CallDone
    <3> QED BY <3>4, <3>5 DEF DatesInv
  <2>8. CASE SetTimestamp
    <3>1. PICK n \in Timestamps : Call("setTimestamp", n, setTimestamp(n))
      BY <2>8 DEF SetTimestamp
    <3>2. n \in Int
      BY DatesAssumption
    <3>3. IsValid(setTimestamp(n))
      BY <2>1, <3>2, CallsAreValid
    <3>4. TypeOK' /\ call' = <<"setTimestamp", n>> /\ datetime' = setTimestamp(n)
      BY <2>2, <3>1, <3>2, <3>3
    <3>5. CallDone'
      BY <3>2, <3>4 DEF CallDone
    <3> QED BY <3>4, <3>5 DEF DatesInv
  <2>9. CASE UNCHANGED vars
    <3>1. datetime' = datetime /\ from' = from /\ call' = call /\ calls' = calls
      BY <2>9 DEF vars
    <3>2. TypeOK'
      BY <1>2, <3>1 DEF DatesInv, TypeOK, IsValid, ValidDates, DateTimes, daysPerMonth
    <3>3. CallDone'
      BY <1>2, <3>1 DEF DatesInv, CallDone
    <3> QED BY <3>2, <3>3 DEF DatesInv
  <2> QED BY <1>2, <2>3, <2>4, <2>5, <2>6, <2>7, <2>8, <2>9 DEF Next
<1> QED BY <1>1, <1>2, PTL DEF Spec

(* The object is a date whatever was added to it. *)
THEOREM DatesTyping == Spec => []TypeOK
<1>1. DatesInv => TypeOK
  BY DEF DatesInv
<1> QED BY <1>1, DatesInvKept, PTL

(* What DatesInv says of the last call, by its name. *)
LEMMA DatesInvCases ==
  ASSUME DatesInv
  PROVE  /\ IsValid(datetime) /\ IsValid(from)
         /\ \/ call[1] = "set" /\ datetime = from
            \/ \E n \in Int :
                 /\ call[2] = n
                 /\ \/ call[1] = "addDays" /\ DaysAfter(datetime, from, n)
                    \/ call[1] = "addMonths" /\ MonthsAfter(datetime, from, n)
                    \/ call[1] = "addYears" /\ MonthsAfter(datetime, from, 12 * n)
                    \/ /\ call[1] = "addMinutes"
                       /\ MinutesAfter(datetime, from, n, IF from.sec = 60 THEN 59 ELSE from.sec)
                    \/ /\ call[1] = "addSeconds"
                       /\ \E beyond \in BOOLEAN : datetime = addSeconds(from, n, beyond)
                    \/ call[1] = "setTimestamp" /\ datetime = setTimestamp(n)
<1>1. IsValid(datetime) /\ IsValid(from)
  BY DEF DatesInv, TypeOK
<1>2. CASE call = <<"set", 0>> /\ datetime = from
  <2>1. call[1] = "set"
    BY <1>2
  <2> QED BY <1>1, <1>2, <2>1
<1>3. ASSUME NEW n \in Int,
             \/ call = <<"addDays", n>> /\ datetime = addDays(from, n)
             \/ call = <<"addMonths", n>> /\ datetime = addMonths(from, n)
             \/ call = <<"addYears", n>> /\ datetime = addYears(from, n)
             \/ call = <<"addMinutes", n>> /\ datetime = addMinutes(from, n)
             \/ \E beyond \in BOOLEAN :
                  call = <<"addSeconds", n>> /\ datetime = addSeconds(from, n, beyond)
             \/ call = <<"setTimestamp", n>> /\ datetime = setTimestamp(n)
      PROVE  /\ call[2] = n
             /\ \/ call[1] = "addDays" /\ DaysAfter(datetime, from, n)
                \/ call[1] = "addMonths" /\ MonthsAfter(datetime, from, n)
                \/ call[1] = "addYears" /\ MonthsAfter(datetime, from, 12 * n)
                \/ /\ call[1] = "addMinutes"
                   /\ MinutesAfter(datetime, from, n, IF from.sec = 60 THEN 59 ELSE from.sec)
                \/ /\ call[1] = "addSeconds"
                   /\ \E beyond \in BOOLEAN : datetime = addSeconds(from, n, beyond)
                \/ call[1] = "setTimestamp" /\ datetime = setTimestamp(n)
  <2>1. /\ DaysAfter(addDays(from, n), from, n)
        /\ MonthsAfter(addMonths(from, n), from, n)
        /\ MonthsAfter(addYears(from, n), from, 12 * n)
        /\ MinutesAfter(addMinutes(from, n), from, n, IF from.sec = 60 THEN 59 ELSE from.sec)
    BY <1>1, AddDaysIsExact, AddMonthsIsExact, AddYearsIsExact, AddMinutesIsExact
  <2>2. call[2] = n
    BY <1>3
  <2>3. \A name : call = <<name, n>> => call[1] = name
    OBVIOUS
  <2> QED BY <1>3, <2>1, <2>2, <2>3
<1>4. CallDone
  BY DEF DatesInv
<1> QED BY <1>1, <1>2, <1>3, <1>4 DEF CallDone

(* The same, from the invariant alone. *)
LEMMA DatesExactByInv ==
  ASSUME DatesInv
  PROVE  DatesAreExact
<1>1. CASE call[1] = "addDays"
  <2>1. PICK n \in Int : call[2] = n /\ DaysAfter(datetime, from, n)
    BY <1>1, DatesInvCases
  <2> QED BY <1>1, <2>1 DEF DaysAfter, SameTime, DatesAreExact
<1>2. ASSUME NEW n \in Int, MonthsAfter(datetime, from, n), IsValid(from),
             n = IF call[1] = "addYears" THEN 12 * call[2] ELSE call[2],
             call[1] # "addDays"
      PROVE  DatesAreExact
  <2>1. PICK y \in Int, m \in 1..12 :
          /\ 12 * y + m - 1 = 12 * from.year + from.month - 1 + n
          /\ Fixed(datetime) = gregorian_to_fixed(y, m, from.day)
    BY <1>2 DEF MonthsAfter
  <2>2. PICK k \in Int : k = 12 * from.year + from.month - 1 + n
    BY <1>2, Fields
  <2>3. y = k \div 12 /\ m = (k % 12) + 1
    BY <2>1, <2>2, SMT
  <2>4. datetime.hour = from.hour /\ datetime.min = from.min /\ datetime.sec = from.sec
    BY <1>2 DEF MonthsAfter, SameTime
  <2>5. Fixed(datetime) = gregorian_to_fixed(k \div 12, (k % 12) + 1, from.day)
    BY <2>1, <2>3
  <2>6. k = 12 * from.year + from.month - 1
              + (IF call[1] = "addYears" THEN 12 * call[2] ELSE call[2])
    BY <1>2, <2>2
  <2> QED BY <1>2, <2>4, <2>5, <2>6 DEF DatesAreExact
<1>3. CASE call[1] = "addMonths"
  <2>1. PICK n \in Int : call[2] = n /\ MonthsAfter(datetime, from, n)
    BY <1>3, DatesInvCases
  <2> QED BY <1>2, <1>3, <2>1, DatesInvCases
<1>4. CASE call[1] = "addYears"
  <2>1. PICK n \in Int : call[2] = n /\ MonthsAfter(datetime, from, 12 * n)
    BY <1>4, DatesInvCases
  <2>2. PICK k \in Int : k = 12 * n
    OBVIOUS
  <2> QED BY <1>2, <1>4, <2>1, <2>2, DatesInvCases
<1> QED BY <1>1, <1>3, <1>4 DEF DatesAreExact

(* Whole days land on the day that is meant, months and years in the month that
   is meant, and the time of day stays what it was. *)
THEOREM DatesExact == Spec => []DatesAreExact
<1>1. DatesInv => DatesAreExact
  BY DatesExactByInv
<1> QED BY <1>1, DatesInvKept, PTL

(* The same, from the invariant alone. *)
LEMMA TimesExactByInv ==
  ASSUME DatesInv
  PROVE  TimesAreExact
<1>1. IsValid(from)
  BY DEF DatesInv, TypeOK
<1>2. ASSUME call[1] = "addMinutes"
      PROVE  /\ MinutesUTC(datetime) = MinutesUTC(from) + call[2]
             /\ datetime.sec = IF from.sec = 60 THEN 59 ELSE from.sec
  <2>1. PICK n \in Int :
          /\ call[2] = n
          /\ MinutesAfter(datetime, from, n, IF from.sec = 60 THEN 59 ELSE from.sec)
    BY <1>2, DatesInvCases
  <2> QED BY <2>1 DEF MinutesAfter
<1>3. ASSUME call[1] = "addSeconds", Exists(from),
             ~(call[2] < 0 /\ SecondOfDay(ToUTC(from), FALSE) + call[2] = 0)
      PROVE  \/ Elapsed(datetime)
                  = Elapsed(from) + (IF InLeapSecond(from) /\ call[2] = 1 THEN 0 ELSE call[2])
             \/ /\ call[2] < 0 /\ ToUTC(from).year > LS_LAST_YEAR
                /\ datetime = ToLocal(StrayLeapSecond)
  <2>1. PICK n \in Int, beyond \in BOOLEAN : call[2] = n /\ datetime = addSeconds(from, n, beyond)
    BY <1>3, DatesInvCases
  <2>2. ~(n < 0 /\ FullSecond(ToUTC(from)) + n = 0)
    BY <1>3, <2>1, Zenon DEF FullSecond
  <2>3. \/ Elapsed(datetime) = Elapsed(from) + SecondsAdded(ToUTC(from), n)
        \/ /\ n < 0 /\ ToUTC(from).year > LS_LAST_YEAR
           /\ datetime = ToLocal(StrayLeapSecond)
    BY <1>1, <1>3, <2>1, <2>2, AddSecondsIsExact
  <2>4. InLeapSecond(from) <=> Extra(ToUTC(from)) = 1
    BY <1>1, <1>3, ExistsIsReal
  <2>5. SecondsAdded(ToUTC(from), n) = IF InLeapSecond(from) /\ call[2] = 1 THEN 0 ELSE call[2]
    BY <2>1, <2>4, Zenon DEF SecondsAdded
  <2> QED BY <2>1, <2>3, <2>5
<1> QED BY <1>2, <1>3, Zenon DEF TimesAreExact

(* At any fixed distance from UTC, addMinutes moves the clock by the minutes it
   is given, and addSeconds counts each second and leap second, but for the three
   cases that the property names: whatever is read behind the table of leap
   seconds, it ends where it should or on the one that never was. *)
THEOREM TimesExact == Spec => []TimesAreExact
<1>1. DatesInv => TimesAreExact
  BY TimesExactByInv
<1> QED BY <1>1, DatesInvKept, PTL

------------------------------------------------------------------------------
(* The time elapsed between two dates *)

(* Two times in order. *)
EarlierClock(c, d) ==
  Fixed(c) < Fixed(d) \/ (Fixed(c) = Fixed(d) /\ FullSecond(c) <= FullSecond(d))

(* Two times are in the order of their clocks. *)
LEMMA OrderIs ==
  ASSUME NEW c, NEW d, IsValid(c), IsValid(d)
  PROVE  (~Later(c, d) => EarlierClock(c, d)) /\ (Later(c, d) => EarlierClock(d, c))
<1>1. Later(c, d) <=> DateLater(c, d) \/ (SameDay(c, d) /\ TimeLater(c, d))
  BY LaterIs
<1>2. /\ DateLater(c, d) <=> Fixed(c) > Fixed(d)
      /\ SameDay(c, d) <=> Fixed(c) = Fixed(d)
  BY DateLaterIs
<1>3. PICK h \in Int, m \in Int, s \in Int :
           /\ h = c.hour /\ m = c.min /\ s = c.sec
           /\ h >= 0 /\ h <= 23 /\ m >= 0 /\ m <= 59 /\ s >= 0 /\ s <= 60
  BY Clock
<1>4. PICK i \in Int, n \in Int, t \in Int :
           /\ i = d.hour /\ n = d.min /\ t = d.sec
           /\ i >= 0 /\ i <= 23 /\ n >= 0 /\ n <= 59 /\ t >= 0 /\ t <= 60
  BY Clock
<1>5. PICK v \in Int, w \in Int : v = 3600 * h + 60 * m + s /\ w = 3600 * i + 60 * n + t
  OBVIOUS
<1>6. FullSecond(c) = v /\ FullSecond(d) = w
  BY <1>3, <1>4, <1>5, SMT DEF FullSecond, SecondOfDay
<1>7. TimeLater(c, d) <=> h > i \/ (h = i /\ m > n) \/ (h = i /\ m = n /\ s > t)
  BY <1>3, <1>4 DEF TimeLater
<1>8. (h > i \/ (h = i /\ m > n) \/ (h = i /\ m = n /\ s > t)) => w <= v
  BY <1>3, <1>4, <1>5, SMT
<1>9. ~(h > i \/ (h = i /\ m > n) \/ (h = i /\ m = n /\ s > t)) => v <= w
  <2>1. h < i => v <= w
    BY <1>3, <1>4, <1>5, SMT
  <2>2. h = i /\ m < n => v <= w
    BY <1>3, <1>4, <1>5, SMT
  <2>3. h = i /\ m = n /\ s <= t => v <= w
    BY <1>3, <1>4, <1>5, SMT
  <2> QED BY <2>1, <2>2, <2>3, SMT
<1>10. PICK f \in Int, g \in Int : f = Fixed(c) /\ g = Fixed(d)
  BY PlainInt
<1>11. Later(c, d) => g < f \/ (f = g /\ w <= v)
  BY <1>1, <1>2, <1>7, <1>8, <1>10
<1>12. ~Later(c, d) => f < g \/ (f = g /\ v <= w)
  BY <1>1, <1>2, <1>7, <1>9, <1>10
<1> QED BY <1>6, <1>10, <1>11, <1>12 DEF EarlierClock

(* The leap seconds counted are those from one half-year to the other. *)
LEMMA LeapsBetweenAre ==
  ASSUME NEW c, NEW d, Real(c), Real(d), HalfYear(c) <= HalfYear(d)
  PROVE  LeapsBetween(c, d) = IF HalfYear(c) < HalfYear(d)
                              THEN Before(HalfYear(d)) - Before(HalfYear(c)) - Extra(c) ELSE 0
<1>1. IsValid(c) /\ IsValid(d)
  BY DEF Real
<1>2. PICK h \in Int, k \in Int, x \in {0, 1}, a \in Int :
        /\ h = HalfYear(c) /\ k = HalfYear(d) /\ h <= k /\ x = Extra(c)
        /\ a = EndsAfter(c) /\ a = (IF h < 0 THEN 0 ELSE h) + x
        /\ (x = 1 => h \in has_leap_second)
  <2>1. HalfYear(c) \in Int /\ HalfYear(d) \in Int
    BY <1>1, HalfOf
  <2>2. EndsAfter(c) = (IF HalfYear(c) < 0 THEN 0 ELSE HalfYear(c)) + Extra(c) /\ Extra(c) \in {0, 1}
        /\ (Extra(c) = 1 => HalfYear(c) \in has_leap_second)
    BY RealExtra
  <2> QED BY <2>1, <2>2
<1>3. \A j \in has_leap_second : j \in Int /\ j >= 0 /\ j <= 89
  BY LeapSet
<1>4. PICK m \in Int : m = h + x
  BY <1>2
<1>5. \A j \in has_leap_second : a <= j <=> m <= j
  BY <1>2, <1>3, <1>4
<1>6. PICK S : S = {j \in has_leap_second : m <= j /\ j < k}
  OBVIOUS
<1>7. LeapsBetween(c, d) = Cardinality(S)
  <2>1. c.year > 2016 <=> h > 89
    BY <1>1, <1>2, EndsAre
  <2>2. d.year < 1972 <=> k < 0
    BY <1>1, <1>2, EndsAre
  <2>3. EndsBefore(d) = k - 1
    BY <1>1, <1>2, EndsAre
  <2>4. CASE c.year > 2016 \/ d.year < 1972
    <3>1. LeapsBetween(c, d) = 0
      BY <2>4 DEF LeapsBetween, LS_LAST_YEAR, LS_FIRST_YEAR
    <3>2. S = {}
      BY <1>2, <1>3, <1>4, <1>6, <2>1, <2>2, <2>4
    <3> QED BY <3>1, <3>2, FS_EmptySet
  <2>5. CASE ~(c.year > 2016 \/ d.year < 1972)
    <3>1. LeapsBetween(c, d) = Cardinality(has_leap_second \cap EndsAfter(c)..EndsBefore(d))
      BY <2>5 DEF LeapsBetween, LS_LAST_YEAR, LS_FIRST_YEAR
    <3>2. has_leap_second \cap a..(k - 1) = S
      BY <1>2, <1>3, <1>5, <1>6
    <3> QED BY <1>2, <2>3, <3>1, <3>2
  <2> QED BY <2>4, <2>5
<1>8. CASE h = k
  <2>1. S = {}
    BY <1>2, <1>3, <1>4, <1>6, <1>8
  <2> QED BY <1>2, <1>7, <1>8, <2>1, FS_EmptySet
<1>9. CASE h < k
  <2>1. m <= k
    BY <1>2, <1>4, <1>9
  <2>2. Before(m) = Before(h) + x
    <3>1. CASE x = 0
      <4>1. Before(h) \in Nat
        BY BeforeInt
      <4> QED BY <1>4, <3>1, <4>1
    <3>2. CASE x = 1
      BY <1>2, <1>4, <3>2, BeforeLeap
    <3> QED BY <1>2, <3>1, <3>2
  <2>3. PICK A : A = {j \in has_leap_second : j < m}
    OBVIOUS
  <2>4. {j \in has_leap_second : j < k} = A \cup S
    BY <1>3, <1>6, <2>1, <2>3
  <2>5. A \cap S = {}
    BY <1>3, <1>6, <2>3
  <2>6. IsFiniteSet(A) /\ Cardinality(A) = Before(m) /\ Before(m) \in Nat
    BY <2>3, BeforeInt DEF Before
  <2>7. IsFiniteSet(S) /\ Cardinality(S) \in Nat
    <3>1. S \in SUBSET has_leap_second
      BY <1>6
    <3>2. IsFiniteSet(S)
      BY <3>1, LeapSet, FS_Subset
    <3> QED BY <3>2, FS_CardinalityType
  <2>8. Cardinality(A \cup S) = Cardinality(A) + Cardinality(S)
    <3>1. Cardinality(A \cup S) = Cardinality(A) + Cardinality(S) - Cardinality(A \cap S)
      BY <2>6, <2>7, FS_Union
    <3>2. Cardinality(A \cap S) = 0
      BY <2>5, FS_EmptySet
    <3> QED BY <2>6, <2>7, <3>1, <3>2
  <2>9. Before(k) = Before(h) + x + Cardinality(S)
    <3>1. Before(k) = Cardinality(A \cup S)
      BY <2>4 DEF Before
    <3> QED BY <2>2, <2>6, <2>8, <3>1
  <2>10. Before(h) \in Nat
    BY BeforeInt
  <2>11. Cardinality(S) = Before(k) - Before(h) - x
    BY <1>2, <2>7, <2>9, <2>10
  <2> QED BY <1>2, <1>7, <1>9, <2>11
<1> QED BY <1>2, <1>8, <1>9

(* Counted in order, the leap seconds are those between the clocks, but for the
   one that it starts in. *)
Begun(c, d) == IF Extra(c) = 1 /\ Clocked(c) < Clocked(d) THEN 1 ELSE 0

InOrder(c, d) ==
  /\ LeapsBetween(c, d) = (Before(HalfYear(d)) - Before(HalfYear(c))) - Begun(c, d)
  /\ Clocked(c) <= Clocked(d)

(* For times that there were, in order, the seconds counted are the difference of
   the clocks, one less when they begin in a leap second. *)
LEMMA OrderedCount ==
  ASSUME NEW c, NEW d, Real(c), Real(d), EarlierClock(c, d)
  PROVE  InOrder(c, d)
<1>1. IsValid(c) /\ IsValid(d)
  BY DEF Real
<1>2. PICK s \in Int : SecondsInto(c, s)
  BY <1>1, PlainDay
<1>3. PICK t \in Int : SecondsInto(d, t)
  BY <1>1, PlainDay
<1>4. PICK f \in Int, g \in Int, p \in Int, q \in Int :
        f = Fixed(c) /\ g = Fixed(d) /\ p = Plain(c) /\ q = Plain(d)
  BY <1>1, PlainInt
<1>5. /\ p = 86400 * f + s /\ q = 86400 * g + t
      /\ s >= 0 /\ s <= 86400 /\ t >= 0 /\ t <= 86400
      /\ FullSecond(c) = s /\ FullSecond(d) = t
  BY <1>2, <1>3, <1>4, SMT DEF SecondsInto
<1>6. f < g \/ (f = g /\ s <= t)
  BY <1>4, <1>5, SMT DEF EarlierClock
<1>7. p <= q
  BY <1>5, <1>6, SMT
<1>8. PICK h \in Int, k \in Int : h = HalfYear(c) /\ k = HalfYear(d) /\ h <= k
  <2>1. Fixed(c) <= Fixed(d)
    BY <1>4, <1>6
  <2>2. HalfYear(c) \in Int /\ HalfYear(d) \in Int
    BY <1>1, HalfOf
  <2> QED BY <1>1, <2>1, <2>2, HalvesFollow
<1>9. PICK b \in Int, e \in Int : b = Before(h) /\ e = Before(k)
  <2>1. Before(h) \in Nat /\ Before(k) \in Nat
    BY BeforeInt
  <2> QED BY <2>1
<1>10. Clocked(c) = p + b /\ Clocked(d) = q + e
  BY <1>4, <1>8, <1>9 DEF Clocked
<1>11. Extra(c) \in {0, 1}
  BY RealExtra
<1>12. LeapsBetween(c, d) = IF h < k THEN e - b - Extra(c) ELSE 0
  BY <1>8, <1>9, LeapsBetweenAre
<1>13. LeapsBetween(c, d) \in Nat
  BY <1>1, CountInt
<1>14. CASE h < k
  <2>1. b + Extra(c) <= e
    BY <1>9, <1>11, <1>12, <1>13, <1>14
  <2>2. CASE Extra(c) = 1
    <3>1. p + b < q + e
      BY <1>7, <2>1, <2>2
    <3>2. Begun(c, d) = 1
      BY <1>10, <2>2, <3>1 DEF Begun
    <3>3. LeapsBetween(c, d) = (e - b) - 1
      BY <1>12, <1>14, <2>2
    <3> QED BY <1>8, <1>9, <1>10, <3>1, <3>2, <3>3 DEF InOrder
  <2>3. CASE Extra(c) = 0
    <3>1. p + b <= q + e
      BY <1>7, <2>1, <2>3
    <3>2. Begun(c, d) = 0
      BY <2>3 DEF Begun
    <3>3. LeapsBetween(c, d) = (e - b) - 0
      BY <1>12, <1>14, <2>3
    <3> QED BY <1>8, <1>9, <1>10, <3>1, <3>2, <3>3 DEF InOrder
  <2> QED BY <1>11, <2>2, <2>3
<1>15. CASE h = k
  <2>1. b = e
    BY <1>9, <1>15
  <2>2. Begun(c, d) = 0
    <3>1. CASE Extra(c) = 0
      BY <3>1 DEF Begun
    <3>2. CASE Extra(c) = 1
      <4>1. FullSecond(c) = 86400 /\ Fixed(c) = HalfEnd(h)
        BY <1>8, <3>2, RealSeconds, RealExtra
      <4>2. Fixed(d) <= HalfEnd(h)
        BY <1>1, <1>8, <1>15, HalfOf
      <4>3. PICK o \in Int : o = HalfEnd(h) /\ o = f
        BY <1>4, <4>1
      <4>4. g <= f
        BY <1>4, <4>2, <4>3
      <4>5. p = q
        BY <1>5, <1>6, <4>1, <4>4, SMT
      <4>6. ~(Clocked(c) < Clocked(d))
        BY <1>10, <2>1, <4>5
      <4> QED BY <4>6 DEF Begun
    <3> QED BY <1>11, <3>1, <3>2
  <2>3. LeapsBetween(c, d) = (e - b) - 0
    BY <1>12, <1>15, <2>1
  <2>4. p + b <= q + e
    BY <1>7, <2>1
  <2> QED BY <1>8, <1>9, <1>10, <2>2, <2>3, <2>4 DEF InOrder
<1> QED BY <1>8, <1>14, <1>15

(* The seconds between two times are the difference of their clocks. *)
LEMMA SecondsBetweenAre ==
  ASSUME NEW c, NEW d, Real(c), Real(d)
  PROVE  SecondsBetween(c, d) = ((Clocked(d) - Clocked(c)) - Begun(c, d)) + Begun(d, c)
<1>1. IsValid(c) /\ IsValid(d)
  BY DEF Real
<1>2. PICK p \in Int, q \in Int, b \in Int, e \in Int :
        /\ p = Plain(c) /\ q = Plain(d) /\ b = Before(HalfYear(c)) /\ e = Before(HalfYear(d))
        /\ Clocked(c) = p + b /\ Clocked(d) = q + e
  BY <1>1, ClockedInt
<1>3. SecondsBetween(c, d) = (q - p) + countLeapSeconds(c, d)
  BY <1>1, <1>2, SecondsToIs
<1>4. PICK x \in Int, y \in Int : x = Begun(c, d) /\ y = Begun(d, c)
  BY DEF Begun
<1>5. countLeapSeconds(c, d) = IF Later(c, d) THEN -LeapsBetween(d, c) ELSE LeapsBetween(c, d)
  BY CountIs
<1>6. CASE ~Later(c, d)
  <2>1. EarlierClock(c, d)
    BY <1>1, <1>6, OrderIs
  <2>2. InOrder(c, d)
    BY <2>1, OrderedCount
  <2>3. LeapsBetween(c, d) = (e - b) - x /\ p + b <= q + e
    BY <1>2, <1>4, <2>2 DEF InOrder
  <2>4. y = 0
    BY <1>2, <1>4, <2>3 DEF Begun
  <2>5. countLeapSeconds(c, d) = (e - b) - x
    BY <1>5, <1>6, <2>3
  <2>6. (q - p) + ((e - b) - x) = (((q + e) - (p + b)) - x) + y
    BY <2>4
  <2> QED BY <1>2, <1>3, <1>4, <2>5, <2>6
<1>7. CASE Later(c, d)
  <2>1. EarlierClock(d, c)
    BY <1>1, <1>7, OrderIs
  <2>2. InOrder(d, c)
    BY <2>1, OrderedCount
  <2>3. LeapsBetween(d, c) = (b - e) - y /\ q + e <= p + b
    BY <1>2, <1>4, <2>2 DEF InOrder
  <2>4. x = 0
    BY <1>2, <1>4, <2>3 DEF Begun
  <2>5. PICK z \in Int : z = (b - e) - y
    OBVIOUS
  <2>6. countLeapSeconds(c, d) = -z
    BY <1>5, <1>7, <2>3, <2>5
  <2>7. (q - p) + (-z) = (((q + e) - (p + b)) - x) + y
    BY <2>4, <2>5
  <2> QED BY <1>2, <1>3, <1>4, <2>6, <2>7
<1> QED BY <1>6, <1>7

(* secondsTo with a conversion is secondsTo in UTC. *)
LEMMA SecondsInUTC ==
  ASSUME NEW a, NEW b
  PROVE  secondsTo(a, b, TRUE, TRUE) = SecondsBetween(ToUTC(a), ToUTC(b))
  BY SMT DEF secondsTo, SecondsBetween

(* The seconds a timestamp counts leave out leap seconds. *)
SecondsWithout(a, b) == secondsTo(a, b, FALSE, TRUE)

(* Without leap seconds they are the difference of the seconds in UTC. *)
LEMMA SecondsWithoutAre ==
  ASSUME NEW a, NEW b, NEW c, NEW d, c = ToUTC(a), d = ToUTC(b),
         IsValid(c), IsValid(d), c.sec <= 59, d.sec <= 59
  PROVE  SecondsWithout(a, b) = Plain(d) - Plain(c)
<1>1. PICK remove \in BOOLEAN : remove = TRUE
  OBVIOUS
<1>2. daysTo(c, d, remove) = <<Fixed(d) - Fixed(c), SecondOfDay(d, remove) - SecondOfDay(c, remove)>>
  BY DaysToIs
<1>3. PICK s \in Int : SecondsInto(c, s)
  BY PlainDay
<1>4. PICK t \in Int : SecondsInto(d, t)
  BY PlainDay
<1>5. s = FullSecond(c) /\ t = FullSecond(d)
  BY <1>3, <1>4 DEF SecondsInto
<1>6. s = SecondOfDay(c, remove) /\ t = SecondOfDay(d, remove)
  <2>1. c.sec \in 0..60 /\ d.sec \in 0..60
    BY Fields
  <2>2. ~(c.sec >= 60) /\ ~(d.sec >= 60)
    BY <2>1
  <2>3. ASSUME NEW u, ~(u.sec >= 60) PROVE SecondOfDay(u, remove) = FullSecond(u)
    <3>1. SecondOfDay(u, remove) = 3600 * u.hour + 60 * u.min + u.sec
      BY <2>3, SMT DEF SecondOfDay
    <3>2. FullSecond(u) = 3600 * u.hour + 60 * u.min + u.sec
      BY SMT DEF FullSecond, SecondOfDay
    <3> QED BY <3>1, <3>2
  <2> QED BY <1>5, <2>2, <2>3
<1>7. PICK f \in Int, g \in Int : f = Fixed(c) /\ g = Fixed(d)
  BY FixedStart
<1>8. PICK x : x = daysTo(c, d, ~FALSE)
  OBVIOUS
<1>9. x = <<g - f, t - s>>
  <2>1. (~FALSE) = TRUE
    OBVIOUS
  <2>2. x = daysTo(c, d, remove)
    BY <1>1, <1>8, <2>1, Zenon
  <2> QED BY <1>2, <1>6, <1>7, <2>2, Zenon
<1>10. x[1] = g - f /\ x[2] = t - s
  BY <1>9
<1>11. SecondsWithout(a, b) = 86400 * x[1] + x[2] + 0
  BY <1>8, SMT DEF secondsTo, SecondsWithout
<1>12. SecondsWithout(a, b) = 86400 * (g - f) + (t - s)
  BY <1>10, <1>11, SMT
<1>13. PICK p \in Int, q \in Int : p = 86400 * f + s /\ q = 86400 * g + t
  BY SMT
<1>14. Plain(c) = p /\ Plain(d) = q
  <2>1. Plain(c) = 86400 * Fixed(c) + s /\ Plain(d) = 86400 * Fixed(d) + t
    BY <1>3, <1>4, SMT DEF SecondsInto
  <2> QED BY <1>7, <1>13, <2>1, SMT
<1>15. 86400 * (g - f) + (t - s) = q - p
  BY <1>13, SMT
<1> QED BY <1>12, <1>14, <1>15, SMT

(* setTimestamp is as far from the epoch as it says, in UTC. *)
UTCTimestamp(c, n) == IsValid(c) /\ c.sec <= 59 /\ Plain(c) = Plain(Epoch) + n

(* In UTC setTimestamp is n seconds after 1970. *)
LEMMA TimestampIsSet ==
  ASSUME NEW n \in Int
  PROVE  UTCTimestamp(ToUTC(setTimestamp(n)), n)
<1>1. PICK e, l, c : e = PlainSeconds(Epoch, n) /\ l = ToLocal(e) /\ c = ToUTC(l)
  OBVIOUS
<1>2. SecondsAfter(e, Epoch, n) /\ setTimestamp(n) = l
  BY <1>1, SetTimestampIs
<1>3. IsValid(e) /\ Plain(e) = Plain(Epoch) + n /\ (n # 0 => e.sec <= 59) /\ (n = 0 => e = Epoch)
  BY <1>2 DEF SecondsAfter
<1>4. e.sec <= 59
  <2>1. Epoch.sec <= 59
    BY EpochIsValid
  <2> QED BY <1>3, <2>1
<1>5. IsValid(l) /\ l.sec = e.sec /\ MinutesUTC(l) = MinutesUTC(e) + Zone
  BY <1>1, <1>3, ToUTCs
<1>6. IsValid(c) /\ c.sec = l.sec /\ MinutesUTC(c) = MinutesUTC(l) - Zone
  BY <1>1, <1>5, ToUTCs
<1>7. MinutesUTC(e) \in Int /\ Zone \in Int
  BY <1>3, MinutesOf, DatesAssumption
<1>8. MinutesUTC(c) = MinutesUTC(e)
  BY <1>5, <1>6, <1>7
<1>9. Plain(c) = Plain(e)
  <2>1. Plain(c) = 60 * MinutesUTC(c) + PlainZero + c.sec
    BY <1>6, PlainMinutesUTC
  <2>2. Plain(e) = 60 * MinutesUTC(e) + PlainZero + e.sec
    BY <1>3, PlainMinutesUTC
  <2> QED BY <1>5, <1>6, <1>8, <2>1, <2>2
<1> QED BY <1>1, <1>2, <1>3, <1>4, <1>5, <1>6, <1>9 DEF UTCTimestamp

(* timestamp undoes setTimestamp. *)
LEMMA TimestampReturns ==
  ASSUME NEW n \in Int
  PROVE  timestamp(setTimestamp(n)) = n
<1>1. PICK z \in Int : z = 0
  OBVIOUS
<1>2. PICK a, b, c, d : a = setTimestamp(z) /\ b = setTimestamp(n) /\ c = ToUTC(a) /\ d = ToUTC(b)
  OBVIOUS
<1>3. UTCTimestamp(c, z) /\ UTCTimestamp(d, n)
  BY <1>2, TimestampIsSet
<1>4. SecondsWithout(a, b) = Plain(d) - Plain(c)
  BY <1>2, <1>3, SecondsWithoutAre DEF UTCTimestamp
<1>5. PICK p \in Int : p = Plain(Epoch)
  BY EpochIsValid, PlainInt
<1>6. Plain(d) = p + n /\ Plain(c) = p + z
  BY <1>3, <1>5 DEF UTCTimestamp
<1>7. SecondsWithout(a, b) = n
  BY <1>1, <1>4, <1>6
<1>8. timestamp(setTimestamp(n)) = SecondsWithout(a, b)
  BY <1>1, <1>2, Zenon DEF timestamp, SecondsWithout
<1> QED BY <1>7, <1>8

(* secondsTo is the time elapsed between two times that there were, a second
   less when it starts in a leap second. *)
THEOREM SecondsElapsed == Spec => []SecondsToIsElapsed
<1> SUFFICES DatesInv => SecondsToIsElapsed
  BY DatesInvKept, PTL
<1> SUFFICES ASSUME DatesInv PROVE SecondsToIsElapsed
  OBVIOUS
<1>1. IsValid(from) /\ IsValid(datetime)
  BY DEF DatesInv, TypeOK
<1>2. ASSUME Exists(from), Exists(datetime)
      PROVE  secondsTo(from, datetime, TRUE, TRUE) =
               Elapsed(datetime) - Elapsed(from)
                 - (IF InLeapSecond(from) /\ Elapsed(from) < Elapsed(datetime) THEN 1 ELSE 0)
                 + (IF InLeapSecond(datetime) /\ Elapsed(datetime) < Elapsed(from) THEN 1 ELSE 0)
  <2>1. PICK c, d : c = ToUTC(from) /\ d = ToUTC(datetime)
    OBVIOUS
  <2>2. Real(c) /\ Real(d) /\ IsValid(c) /\ IsValid(d)
    BY <1>1, <1>2, <2>1, ExistsIsReal DEF Real
  <2>3. secondsTo(from, datetime, TRUE, TRUE) = SecondsBetween(c, d)
    BY <2>1, SecondsInUTC, Zenon
  <2>4. SecondsBetween(c, d) = ((Clocked(d) - Clocked(c)) - Begun(c, d)) + Begun(d, c)
    BY <2>2, SecondsBetweenAre
  <2>5. PICK v \in Int, w \in Int, z \in Int :
          /\ v = Clocked(c) /\ w = Clocked(d) /\ z = ElapsedFrom
          /\ Elapsed(from) = v - z /\ Elapsed(datetime) = w - z
    <3>1. LocalOf(from, c) /\ LocalOf(datetime, d)
      BY <1>1, <2>1, LocalOfUTC
    <3>2. Clocked(c) \in Int /\ Clocked(d) \in Int
      BY <2>2, ClockedInt
    <3> QED BY <3>1, <3>2, ElapsedIs
  <2>6. (InLeapSecond(from) <=> Extra(c) = 1) /\ (InLeapSecond(datetime) <=> Extra(d) = 1)
    BY <1>1, <1>2, <2>1, ExistsIsReal
  <2>7. PICK x \in Int, y \in Int : x = Begun(c, d) /\ y = Begun(d, c)
    BY DEF Begun
  <2>8. x = IF InLeapSecond(from) /\ Elapsed(from) < Elapsed(datetime) THEN 1 ELSE 0
    <3>1. v < w <=> v - z < w - z
      OBVIOUS
    <3> QED BY <2>5, <2>6, <2>7, <3>1, Zenon DEF Begun
  <2>9. y = IF InLeapSecond(datetime) /\ Elapsed(datetime) < Elapsed(from) THEN 1 ELSE 0
    <3>1. w < v <=> w - z < v - z
      OBVIOUS
    <3> QED BY <2>5, <2>6, <2>7, <3>1, Zenon DEF Begun
  <2>10. secondsTo(from, datetime, TRUE, TRUE) = ((w - v) - x) + y
    BY <2>3, <2>4, <2>5, <2>7, Zenon
  <2>11. ((w - v) - x) + y = (w - z) - (v - z) - x + y
    OBVIOUS
  <2>12. secondsTo(from, datetime, TRUE, TRUE) = Elapsed(datetime) - Elapsed(from) - x + y
    BY <2>5, <2>10, <2>11, Zenon
  <2> QED BY <2>8, <2>9, <2>12, Zenon
<1>3. ASSUME call[1] = "setTimestamp"
      PROVE  timestamp(datetime) = call[2]
  <2>1. PICK n \in Int : call[2] = n /\ datetime = setTimestamp(n)
    BY <1>3, DatesInvCases
  <2> QED BY <2>1, TimestampReturns
<1> QED BY <1>2, <1>3, Zenon DEF SecondsToIsElapsed

------------------------------------------------------------------------------
(* Weekdays and weeks *)

(* The first day of a year. *)
FirstDay(y) == Start(y, 1)

(* A year has 365 or 366 days. *)
LEMMA FirstDays ==
  ASSUME NEW y \in Int, NEW z \in Int, z = y + 1
  PROVE  FirstDay(y) \in Int /\ FirstDay(z) - FirstDay(y) \in {365, 366} /\ FirstDay(z) \in Int
<1>1. PICK m \in 1..12 : m = 1
  OBVIOUS
<1>2. Start(y + 1, m) = Start(y, m) + daysPerYear(IF m <= 2 THEN y ELSE y + 1)
  BY YearsOn
<1>3. daysPerYear(y) \in {365, 366}
  BY <1>1, YearsOn
<1>4. Start(y, m) \in Int
  BY Starts28
<1>5. Start(z, m) = Start(y, m) + daysPerYear(y)
  BY <1>1, <1>2
<1> QED BY <1>1, <1>3, <1>4, <1>5 DEF FirstDay

(* Years begin in their order. *)
LEMMA FirstDaysInOrder ==
  ASSUME NEW y \in Int, NEW z \in Int, y < z
  PROVE  FirstDay(y) < FirstDay(z) /\ FirstDay(y) \in Int /\ FirstDay(z) \in Int
<1>1. PICK m \in 1..12 : m = 1
  OBVIOUS
<1>2. Start(y, m) + daysPerMonth(m, y) <= Start(z, m)
  BY MonthsInOrder
<1>3. daysPerMonth(m, y) \in 28..31 /\ Start(y, m) \in Int
  BY Starts28
<1>4. Start(z, m) \in Int
  BY Starts28
<1> QED BY <1>1, <1>2, <1>3, <1>4 DEF FirstDay

(* A date is one of the days of its year, and yearday is its number there. *)
LEMMA YearDay ==
  ASSUME NEW e, IsValid(e)
  PROVE  /\ yearday(e) = Fixed(e) - FirstDay(e.year) + 1
         /\ FirstDay(e.year) <= Fixed(e) /\ Fixed(e) < FirstDay(e.year + 1)
<1>1. PICK y \in Int, z \in Int, m \in 1..12, d \in 1..31, l \in 28..31 :
        y = e.year /\ z = y + 1 /\ m = e.month /\ d = e.day /\ l = daysPerMonth(m, y) /\ d <= l
  <2>1. PICK y \in Int, m \in 1..12, d \in 1..31 :
             y = e.year /\ m = e.month /\ d = e.day /\ d <= daysPerMonth(m, y)
    BY Fields
  <2>2. daysPerMonth(m, y) \in 28..31
    BY Starts28
  <2>3. PICK z \in Int, l \in 28..31 : z = y + 1 /\ l = daysPerMonth(m, y)
    BY <2>2
  <2> QED BY <2>1, <2>3
<1>2. PICK one \in 1..12 : one = 1
  OBVIOUS
<1>3. PICK i \in Int, j \in Int, k \in Int : i = Start(y, m) /\ j = Start(y, one) /\ k = Start(z, one)
  <2>1. Start(y, m) \in Int
    BY Starts28
  <2>2. Start(y, one) \in Int
    BY Starts28
  <2>3. Start(z, one) \in Int
    BY Starts28
  <2> QED BY <2>1, <2>2, <2>3
<1>4. Fixed(e) = i + d - 1
  BY <1>1, <1>3, FixedStart
<1>5. i + l <= k
  <2>1. y < z
    BY <1>1
  <2>2. Start(y, m) + daysPerMonth(m, y) <= Start(z, one)
    BY <2>1, MonthsInOrder
  <2> QED BY <1>1, <1>3, <2>2
<1>6. j <= i
  <2>1. CASE m = one
    BY <1>3, <2>1
  <2>2. CASE m # one
    <3>1. one < m
      BY <1>2, <2>2
    <3>2. Start(y, one) + daysPerMonth(one, y) <= Start(y, m)
      BY <3>1, MonthsInOrder
    <3>3. daysPerMonth(one, y) \in 28..31
      BY Starts28
    <3> QED BY <1>3, <3>2, <3>3
  <2> QED BY <2>1, <2>2
<1>7. DaysOf(y, one, m - 1) = i - j
  <2>1. PICK last \in 0..12, next \in 1..13 : last = m - 1 /\ next = m
    OBVIOUS
  <2>2. next = last + 1 /\ one <= next
    BY <1>2, <2>1
  <2>3. DaysOf(y, one, last) = gregorian_to_fixed(y, next, 1) - gregorian_to_fixed(y, one, 1)
    BY <2>2, DaysOfIs
  <2> QED BY <1>3, <2>1, <2>3 DEF Start
<1>8. yearday(e) = d + (i - j)
  BY <1>1, <1>2, <1>7, Zenon DEF yearday
<1>9. FirstDay(e.year) = j /\ FirstDay(e.year + 1) = k
  BY <1>1, <1>2, <1>3 DEF FirstDay
<1>10. d \in Int /\ l \in Int
  OBVIOUS
<1> QED BY <1>1, <1>4, <1>5, <1>6, <1>8, <1>9, <1>10

(* The year of a day, by where it lies. *)
LEMMA YearOf ==
  ASSUME NEW e, IsValid(e), NEW z \in Int, FirstDay(z) <= Fixed(e), Fixed(e) < FirstDay(z + 1)
  PROVE  e.year = z
<1>1. PICK y \in Int, x \in Int, w \in Int, f \in Int : y = e.year /\ x = y + 1 /\ w = z + 1 /\ f = Fixed(e)
  BY Fields, PlainInt
<1>2. FirstDay(y) <= f /\ f < FirstDay(x)
  BY <1>1, YearDay
<1>3. FirstDay(x) \in Int /\ FirstDay(w) \in Int /\ FirstDay(y) \in Int /\ FirstDay(z) \in Int
  BY <1>1, FirstDays
<1>4. ~(y < z)
  <2>1. SUFFICES ASSUME y < z PROVE FALSE
    OBVIOUS
  <2>2. CASE x = z
    BY <1>1, <1>2, <1>3, <2>2
  <2>3. CASE x # z
    <3>1. x < z
      BY <1>1, <2>1, <2>3
    <3>2. FirstDay(x) < FirstDay(z)
      BY <3>1, FirstDaysInOrder
    <3> QED BY <1>1, <1>2, <1>3, <3>2
  <2> QED BY <2>2, <2>3
<1>5. ~(z < y)
  <2>1. SUFFICES ASSUME z < y PROVE FALSE
    OBVIOUS
  <2>2. CASE w = y
    BY <1>1, <1>2, <1>3, <2>2
  <2>3. CASE w # y
    <3>1. w < y
      BY <1>1, <2>1, <2>3
    <3>2. FirstDay(w) < FirstDay(y)
      BY <3>1, FirstDaysInOrder
    <3> QED BY <1>1, <1>2, <1>3, <3>2
  <2> QED BY <2>2, <2>3
<1> QED BY <1>1, <1>4, <1>5

(* The Monday that weekday counts from. *)
TheMonday == MidnightOf(2017, 7, 31)

(* It is a date, and its day is number 736541. *)
LEMMA MondayIs ==
  /\ IsValid(TheMonday) /\ Fixed(TheMonday) = 736541 /\ gregorian_to_fixed(2017, 7, 31) = 736541
  /\ TheMonday.hour = 0 /\ TheMonday.min = 0 /\ TheMonday.sec = 0
<1>1. PICK y \in Int, m \in 1..12, d \in 1..31 : y = 2017 /\ m = 7 /\ d = 31
  OBVIOUS
<1>2. d <= daysPerMonth(m, y)
  BY <1>1 DEF daysPerMonth
<1>3. IsMidnight(MidnightOf(y, m, d), y, m, d)
  BY <1>2, MidnightIs
<1>4. ~isLeapYear(2017)
  BY SMT DEF isLeapYear
<1>5. gregorian_to_fixed(2017, 7, 31) = 736541
  BY <1>4, SMT DEF gregorian_to_fixed, BeforeMonth, quotient
<1>6. IsValid(TheMonday) /\ TheMonday.year = 2017 /\ TheMonday.month = 7 /\ TheMonday.day = 31
      /\ TheMonday.hour = 0 /\ TheMonday.min = 0 /\ TheMonday.sec = 0
  BY <1>1, <1>3, SMT DEF TheMonday, IsMidnight
<1> QED BY <1>5, <1>6, SMT DEF Fixed

(* After midnight of its day. *)
AfterMidnight(e) == e.hour # 0 \/ e.min # 0 \/ e.sec # 0
IsLate(e) == AfterMidnight(e) /\ Fixed(e) < 736541

ShortSecond(u) == SecondOfDay(u, TRUE)

(* The second of the day that daysTo looks at is 0 at midnight only. *)
LEMMA ShortSeconds ==
  ASSUME NEW u, IsValid(u)
  PROVE  /\ ShortSecond(u) \in Int /\ ShortSecond(u) >= 0
         /\ ShortSecond(u) > 0 <=> AfterMidnight(u)
<1>1. PICK h \in Int, m \in Int, s \in Int :
           /\ h = u.hour /\ m = u.min /\ s = u.sec
           /\ h >= 0 /\ h <= 23 /\ m >= 0 /\ m <= 59 /\ s >= 0 /\ s <= 60
  BY Clock
<1>2. PICK k \in Int : k = (IF s >= 60 THEN s - 1 ELSE s) /\ k >= 0 /\ (k > 0 <=> s # 0)
  BY <1>1
<1>3. ShortSecond(u) = 3600 * h + 60 * m + k
  BY <1>1, <1>2, SMT DEF ShortSecond, SecondOfDay
<1>4. PICK n \in Int : n = 3600 * h + 60 * m + k
  OBVIOUS
<1>5. n >= 0
  BY <1>1, <1>2, <1>4, SMT
<1>6. CASE h # 0 \/ m # 0 \/ k > 0
  <2>1. n > 0
    <3>1. h >= 0 /\ m >= 0 /\ k >= 0
      BY <1>1, <1>2
    <3>2. CASE h >= 1
      BY <3>1, <3>2, <1>4, SMT
    <3>3. CASE m >= 1
      BY <3>1, <3>3, <1>4, SMT
    <3>4. CASE k >= 1
      BY <3>1, <3>4, <1>4, SMT
    <3>5. h >= 1 \/ m >= 1 \/ k >= 1
      BY <3>1, <1>6, SMT
    <3> QED BY <3>2, <3>3, <3>4, <3>5
  <2>2. h # 0 \/ m # 0 \/ s # 0
    BY <1>2, <1>6
  <2>3. AfterMidnight(u)
    BY <1>1, <2>2 DEF AfterMidnight
  <2> QED BY <1>3, <1>4, <2>1, <2>3
<1>7. CASE ~(h # 0 \/ m # 0 \/ k > 0)
  <2>1. h = 0 /\ m = 0 /\ k = 0
    BY <1>2, <1>7, SMT
  <2>2. n = 0
    BY <1>4, <2>1, SMT
  <2>3. ~AfterMidnight(u)
    BY <1>1, <1>2, <2>1, SMT DEF AfterMidnight
  <2> QED BY <1>3, <1>4, <2>2, <2>3
<1> QED BY <1>6, <1>7

(* C division by the days of a week. *)
LEMMA RemainderBySeven ==
  ASSUME NEW n \in Int
  PROVE  \E q \in Int, r \in Int : r = Remainder(n, 7) /\ n = 7 * q + r /\ r > -7 /\ r < 7
<1>1. PICK a \in {7, 12, 24, 60} : a = 7
  OBVIOUS
<1>2. /\ Truncated(n, a) \in Int /\ Remainder(n, a) \in Int
      /\ n = a * Truncated(n, a) + Remainder(n, a)
      /\ Remainder(n, a) > -a /\ Remainder(n, a) < a
  BY RemainderIs, ZenonT(60)
<1> QED BY <1>1, <1>2

SinceMonday(e) == -WholeDays(daysTo(e, TheMonday, TRUE))
DaysInto(e) == Remainder(SinceMonday(e), 7)

(* weekday, by the days since that Monday. *)
LEMMA WeekdayByDays ==
  ASSUME NEW e
  PROVE  weekday(e) = IF DaysInto(e) < 0 THEN 8 + DaysInto(e) ELSE DaysInto(e) + 1
BY SMT DEF weekday, DaysInto, SinceMonday, TheMonday, MidnightOf

(* weekday repeats every seven days; before that Monday a time of day makes it
   the next day's. *)
LEMMA WeekdayIs ==
  ASSUME NEW e, IsValid(e)
  PROVE  weekday(e) = ((Fixed(e) - (IF IsLate(e) THEN 0 ELSE 1)) % 7) + 1
<1>1. PICK remove \in BOOLEAN : remove = TRUE
  OBVIOUS
<1>2. PICK t, x : t = TheMonday /\ x = daysTo(e, t, remove)
  OBVIOUS
<1>3. IsValid(t) /\ Fixed(t) = 736541 /\ ~AfterMidnight(t)
  BY <1>2, MondayIs DEF AfterMidnight
<1>4. x = <<Fixed(t) - Fixed(e), SecondOfDay(t, remove) - SecondOfDay(e, remove)>>
  BY <1>2, <1>3, DaysToIs
<1>5. SecondOfDay(t, remove) = ShortSecond(t) /\ SecondOfDay(e, remove) = ShortSecond(e)
  BY <1>1, Zenon DEF ShortSecond
<1>6. ShortSecond(t) = 0
  <2>1. ShortSecond(t) \in Int /\ ShortSecond(t) >= 0 /\ ~(ShortSecond(t) > 0)
    BY <1>3, ShortSeconds
  <2> QED BY <2>1
<1>7. PICK f \in Int, s \in Int : f = Fixed(e) /\ s = ShortSecond(e) /\ s >= 0 /\ (s > 0 <=> AfterMidnight(e))
  BY PlainInt, ShortSeconds
<1>8. x[1] = 736541 - f /\ x[2] = 0 - s
  BY <1>3, <1>4, <1>5, <1>6, <1>7
<1>9. PICK k \in Int : k = f - 736541 + (IF IsLate(e) THEN 1 ELSE 0)
  OBVIOUS
<1>10. WholeDays(x) = -k
  <2>1. WholeDays(x) = IF x[1] > 0 /\ x[2] < 0 THEN x[1] - 1
                       ELSE IF x[1] < 0 /\ x[2] > 0 THEN x[1] + 1 ELSE x[1]
    BY DEF WholeDays
  <2>2. ~(x[2] > 0)
    BY <1>7, <1>8
  <2>3. (x[1] > 0 /\ x[2] < 0) <=> IsLate(e)
    BY <1>7, <1>8 DEF IsLate
  <2>4. CASE IsLate(e)
    <3>1. WholeDays(x) = x[1] - 1
      BY <2>1, <2>3, <2>4
    <3>2. k = f - 736541 + 1
      BY <1>9, <2>4
    <3> QED BY <1>8, <3>1, <3>2
  <2>5. CASE ~IsLate(e)
    <3>1. WholeDays(x) = x[1]
      BY <2>1, <2>2, <2>3, <2>5
    <3>2. k = f - 736541
      BY <1>9, <2>5
    <3> QED BY <1>8, <3>1, <3>2
  <2> QED BY <2>4, <2>5
<1>11. -WholeDays(x) = k
  BY <1>10
<1>12. PICK q \in Int, r \in Int : r = Remainder(k, 7) /\ k = 7 * q + r /\ r > -7 /\ r < 7
  BY RemainderBySeven
<1>13. weekday(e) = IF r < 0 THEN 8 + r ELSE r + 1
  <2>1. SinceMonday(e) = k
    BY <1>1, <1>2, <1>11, Zenon DEF SinceMonday
  <2>2. DaysInto(e) = r
    BY <1>12, <2>1, Zenon DEF DaysInto
  <2> QED BY <2>2, WeekdayByDays, Zenon
<1>14. (IF r < 0 THEN 8 + r ELSE r + 1) = (k % 7) + 1
  BY <1>12, SMT
<1>15. k % 7 = (f - (IF IsLate(e) THEN 0 ELSE 1)) % 7
  <2>1. CASE IsLate(e)
    <3>1. k = f - 736540
      BY <1>9, <2>1
    <3>2. k % 7 = f % 7
      BY <3>1, SMT
    <3> QED BY <2>1, <3>2
  <2>2. CASE ~IsLate(e)
    <3>1. k = f - 736541
      BY <1>9, <2>2
    <3>2. k % 7 = (f - 1) % 7
      BY <3>1, SMT
    <3> QED BY <2>2, <3>2
  <2> QED BY <2>1, <2>2
<1> QED BY <1>7, <1>13, <1>14, <1>15

(* The weekday of the first day of a year. *)
FirstWeekday(y) == weekday(DateTime(y, 1, 1, 0, 0, 0))

(* A year begins on the weekday of its first day. *)
LEMMA FirstWeekdayIs ==
  ASSUME NEW y \in Int
  PROVE  FirstWeekday(y) = ((FirstDay(y) - 1) % 7) + 1
<1>1. PICK m \in 1..12, d \in 1..31 : m = 1 /\ d = 1
  OBVIOUS
<1>2. PICK e : e = MidnightOf(y, m, d)
  OBVIOUS
<1>3. daysPerMonth(m, y) \in 28..31 /\ Start(y, m) \in Int
  BY Starts28
<1>4. d <= daysPerMonth(m, y)
  BY <1>1, <1>3
<1>5. IsMidnight(e, y, m, d)
  BY <1>2, <1>4, MidnightIs
<1>6. IsValid(e) /\ ~IsLate(e)
  BY <1>5 DEF IsMidnight, IsLate, AfterMidnight
<1>7. weekday(e) = ((Fixed(e) - 1) % 7) + 1
  BY <1>6, WeekdayIs
<1>8. Fixed(e) = FirstDay(y)
  BY <1>1, <1>3, <1>5 DEF IsMidnight, FirstDay
<1>9. FirstWeekday(y) = weekday(e)
  BY <1>1, <1>2, Zenon DEF FirstWeekday, MidnightOf
<1> QED BY <1>7, <1>8, <1>9

(* The Thursday of the week of a day. *)
ThursdayOf(f) == f + 3 - ((f - 1) % 7)

(* WeekInYear numbers the weeks of a year by its Thursdays. *)
LEMMA WeekInYearIs ==
  ASSUME NEW e, IsValid(e)
  PROVE  WeekInYear(e) = (ThursdayOf(Fixed(e)) - FirstDay(e.year)) \div 7 + 1
<1>1. PICK y \in Int, f \in Int, j \in Int, w \in Int, n \in Int :
           y = e.year /\ f = Fixed(e) /\ j = FirstDay(y) /\ w = ((j - 1) % 7) + 1 /\ n = f - j + 1
  <2>1. PICK y \in Int, z \in Int : y = e.year /\ z = y + 1
    BY Fields
  <2>2. FirstDay(y) \in Int
    BY <2>1, FirstDays
  <2>3. PICK f \in Int, j \in Int : f = Fixed(e) /\ j = FirstDay(y)
    BY <2>2, PlainInt
  <2>4. PICK w \in Int, n \in Int : w = ((j - 1) % 7) + 1 /\ n = f - j + 1
    OBVIOUS
  <2> QED BY <2>1, <2>3, <2>4
<1>2. FirstWeekday(y) = w /\ w \in 1..7
  BY <1>1, FirstWeekdayIs
<1>3. yearday(e) = n /\ n >= 1
  BY <1>1, YearDay
<1>4. WeekInYear(e) = (IF w <= 4 THEN 1 ELSE 0) + (IF n - (8 - w) > 0 THEN (n - (8 - w) - 1) \div 7 + 1 ELSE 0)
  BY <1>1, <1>2, <1>3, SMT DEF WeekInYear, FirstWeekday
<1>5. PICK q \in Int, r \in 0..6, p \in Int, s \in 0..6 :
           j - 1 = 7 * q + r /\ f - 1 = 7 * p + s /\ r = (j - 1) % 7 /\ s = (f - 1) % 7
  <2>1. PICK q \in Int, r \in 0..6 : q = (j - 1) \div 7 /\ r = (j - 1) % 7
    BY SMT
  <2>2. PICK p \in Int, s \in 0..6 : p = (f - 1) \div 7 /\ s = (f - 1) % 7
    BY SMT
  <2>3. j - 1 = 7 * q + r /\ f - 1 = 7 * p + s
    BY <2>1, <2>2, SMT
  <2> QED BY <2>1, <2>2, <2>3
<1>6. w = r + 1 /\ ThursdayOf(f) = 7 * p + 4
  BY <1>1, <1>5, SMT DEF ThursdayOf
<1>7. n = 7 * (p - q) + s - r + 1 /\ ThursdayOf(f) - j = 7 * (p - q) + 3 - r
  BY <1>1, <1>5, <1>6, SMT
<1>8. (ThursdayOf(f) - j) \div 7 = (p - q) + (IF r <= 3 THEN 0 ELSE -1)
  BY <1>5, <1>7, SMT
<1>9. PICK c \in Int : c = p - q
  OBVIOUS
<1>10. c >= 0
  BY <1>1, <1>3, <1>5, <1>7, <1>9, SMT
<1>11. WeekInYear(e) = (IF r <= 3 THEN 1 ELSE 0) + c
  <2>1. n - (8 - w) = 7 * c + s - 6
    BY <1>5, <1>6, <1>7, <1>9, SMT
  <2>2. CASE c = 0
    <3>1. ~(n - (8 - w) > 0)
      BY <1>5, <2>1, <2>2, SMT
    <3> QED BY <1>4, <1>5, <1>6, <2>2, <3>1, SMT
  <2>3. CASE c > 0
    <3>1. n - (8 - w) > 0
      BY <1>5, <1>9, <2>1, <2>3, SMT
    <3>2. (n - (8 - w) - 1) \div 7 + 1 = c
      BY <1>5, <1>9, <2>1, <2>3, SMT
    <3> QED BY <1>4, <1>5, <1>6, <3>1, <3>2, SMT
  <2> QED BY <1>9, <1>10, <2>2, <2>3
<1> QED BY <1>1, <1>5, <1>8, <1>9, <1>11, SMT

(* The day of the year of a Thursday, in weeks. *)
WeekOf(t) == (yearday(t) - 1) \div 7 + 1

(* The week of a day in the year where it lies. *)
LEMMA WeekOfIs ==
  ASSUME NEW t, IsValid(t), NEW z \in Int, FirstDay(z) <= Fixed(t), Fixed(t) < FirstDay(z + 1)
  PROVE  WeekOf(t) = (Fixed(t) - FirstDay(z)) \div 7 + 1
<1>1. t.year = z
  BY YearOf
<1>2. PICK j \in Int, f \in Int, k \in Int : j = FirstDay(z) /\ f = Fixed(t) /\ k = z + 1
  <2>1. PICK k \in Int : k = z + 1
    OBVIOUS
  <2>2. FirstDay(z) \in Int
    BY <2>1, FirstDays
  <2> QED BY <2>1, <2>2, PlainInt
<1>3. yearday(t) = f - j + 1
  BY <1>1, <1>2, YearDay
<1>4. yearday(t) - 1 = f - j
  BY <1>2, <1>3
<1> QED BY <1>2, <1>4 DEF WeekOf

(* The year of a day that is not after the Thursday of its week ends later. *)
LEMMA EndOfYear ==
  ASSUME NEW e, IsValid(e)
  PROVE  /\ e.month = 12 => Fixed(e) = FirstDay(e.year + 1) - 32 + e.day
         /\ e.month # 12 => Fixed(e) < FirstDay(e.year + 1) - 31
<1>1. PICK y \in Int, z \in Int, m \in 1..12, d \in 1..31, l \in 28..31 :
        y = e.year /\ z = y + 1 /\ m = e.month /\ d = e.day /\ l = daysPerMonth(m, y) /\ d <= l
  <2>1. PICK y \in Int, m \in 1..12, d \in 1..31 :
             y = e.year /\ m = e.month /\ d = e.day /\ d <= daysPerMonth(m, y)
    BY Fields
  <2>2. daysPerMonth(m, y) \in 28..31
    BY Starts28
  <2>3. PICK z \in Int, l \in 28..31 : z = y + 1 /\ l = daysPerMonth(m, y)
    BY <2>2
  <2> QED BY <2>1, <2>3
<1>2. PICK one \in 1..12, dec \in 1..12 : one = 1 /\ dec = 12
  OBVIOUS
<1>3. Next12(y, dec, z, one)
  BY <1>1, <1>2 DEF Next12
<1>4. Start(z, one) = Start(y, dec) + daysPerMonth(dec, y) /\ Start(y, dec) \in Int
  BY <1>3, NextStarts
<1>5. daysPerMonth(dec, y) = 31
  BY <1>2 DEF daysPerMonth
<1>6. PICK i \in Int, k \in Int, c \in Int :
           i = Start(y, m) /\ k = Start(z, one) /\ c = Start(y, dec) /\ k = c + 31
  <2>1. Start(y, m) \in Int
    BY Starts28
  <2> QED BY <1>4, <1>5, <2>1
<1>7. Fixed(e) = i + d - 1 /\ d \in Int /\ l \in Int
  BY <1>1, <1>6, FixedStart
<1>8. FirstDay(e.year + 1) = k
  BY <1>1, <1>2, <1>6 DEF FirstDay
<1>9. CASE m = dec
  <2>1. i = c
    BY <1>6, <1>9
  <2>2. Fixed(e) = k - 32 + d
    BY <1>6, <1>7, <2>1
  <2> QED BY <1>1, <1>2, <1>8, <1>9, <2>2
<1>10. CASE m # dec
  <2>1. m < dec
    BY <1>2, <1>10
  <2>2. i + l <= c
    BY <1>1, <1>6, <2>1, MonthsInOrder
  <2>3. Fixed(e) < k - 31
    BY <1>1, <1>6, <1>7, <2>2
  <2> QED BY <1>1, <1>2, <1>8, <1>10, <2>3
<1> QED BY <1>9, <1>10

(* ISO weeks: a day's week is that of its Thursday. *)
LEMMA WeekIs ==
  ASSUME NEW e, IsValid(e), ~IsLate(e),
         NEW t, IsValid(t), Fixed(t) = ThursdayOf(Fixed(e))
  PROVE  week(e) = WeekOf(t)
<1>1. PICK y \in Int, z \in Int, x \in Int, d \in Int, f \in Int, w \in Int :
        /\ y = e.year /\ z = y + 1 /\ x = y - 1 /\ d = e.day /\ f = Fixed(e) /\ w = ((f - 1) % 7) + 1
        /\ d <= 31
  <2>1. PICK y \in Int, d \in Int : y = e.year /\ d = e.day /\ d <= 31
    BY Fields
  <2>2. PICK f \in Int : f = Fixed(e)
    BY PlainInt
  <2>3. PICK z \in Int, x \in Int, w \in Int : z = y + 1 /\ x = y - 1 /\ w = ((f - 1) % 7) + 1
    OBVIOUS
  <2> QED BY <2>1, <2>2, <2>3
<1>2. PICK j \in Int, k \in Int, i \in Int, o \in Int :
        j = FirstDay(y) /\ k = FirstDay(z) /\ i = FirstDay(x) /\ o = FirstDay(z + 1)
  <2>1. PICK n \in Int : n = z + 1
    OBVIOUS
  <2>2. FirstDay(y) \in Int /\ FirstDay(z) \in Int
    BY <1>1, FirstDays
  <2>3. FirstDay(x) \in Int
    <3>1. y = x + 1
      BY <1>1
    <3> QED BY <3>1, FirstDays
  <2>4. FirstDay(n) \in Int
    BY <2>1, FirstDays
  <2> QED BY <2>1, <2>2, <2>3, <2>4
<1>3. j <= f /\ f < k
  BY <1>1, <1>2, YearDay
<1>4. o - k >= 365 /\ j - i >= 365
  <2>1. PICK n \in Int : n = z + 1
    OBVIOUS
  <2>2. FirstDay(n) - FirstDay(z) \in {365, 366}
    BY <2>1, FirstDays
  <2>3. y = x + 1
    BY <1>1
  <2>4. FirstDay(y) - FirstDay(x) \in {365, 366}
    BY <2>3, FirstDays
  <2> QED BY <1>2, <2>1, <2>2, <2>4
<1>5. PICK th \in Int : th = Fixed(t) /\ th = f + 4 - w
  <2>1. Fixed(t) = f + 3 - ((f - 1) % 7)
    BY <1>1 DEF ThursdayOf
  <2>2. f + 4 - w = f + 3 - ((f - 1) % 7) /\ f + 4 - w \in Int
    BY <1>1, SMT
  <2> QED BY <2>1, <2>2
<1>6. w \in 1..7
  BY <1>1, SMT
<1>7. weekday(e) = w
  BY <1>1, WeekdayIs
<1>8. WeekInYear(e) = (th - j) \div 7 + 1
  <2>1. ThursdayOf(f) = th
    BY <1>1, <1>5
  <2> QED BY <1>1, <1>2, <2>1, WeekInYearIs
<1>9. /\ e.month = 12 => f = k - 32 + d
      /\ e.month # 12 => f < k - 31
  BY <1>1, <1>2, EndOfYear
<1>10. CASE e.month = 12 /\ d >= 29 /\ w <= d - 28
  <2>1. week(e) = 1
    BY <1>1, <1>7, <1>10 DEF week
  <2>2. k <= th /\ th < k + 7
    BY <1>1, <1>3, <1>5, <1>6, <1>9, <1>10, SMT
  <2>3. th < o
    BY <1>4, <2>2
  <2>4. WeekOf(t) = (th - k) \div 7 + 1
    BY <1>2, <1>5, <2>2, <2>3, WeekOfIs
  <2>5. (th - k) \div 7 = 0
    BY <2>2, SMT
  <2> QED BY <2>1, <2>4, <2>5
<1>11. CASE ~(e.month = 12 /\ d >= 29 /\ w <= d - 28)
  <2>1. week(e) = IF WeekInYear(e) = 0 THEN WeekInYear(DateTime(x, 12, 31, 0, 0, 0)) ELSE WeekInYear(e)
    BY <1>1, <1>7, <1>11 DEF week
  <2>2. th < k
    BY <1>1, <1>3, <1>5, <1>6, <1>9, <1>11, SMT
  <2>3. th >= j - 3 /\ th <= f + 3
    BY <1>3, <1>5, <1>6
  <2>4. CASE th >= j
    <3>1. WeekInYear(e) # 0
      BY <1>8, <2>4, SMT
    <3>2. WeekOf(t) = (th - j) \div 7 + 1
      BY <1>1, <1>2, <1>5, <2>2, <2>4, WeekOfIs
    <3> QED BY <1>8, <2>1, <3>1, <3>2
  <2>5. CASE th < j
    <3>1. WeekInYear(e) = 0
      BY <1>8, <2>3, <2>5, SMT
    <3>2. PICK m \in 1..12, l \in 1..31 : m = 12 /\ l = 31
      OBVIOUS
    <3>3. l <= daysPerMonth(m, x)
      BY <3>2 DEF daysPerMonth
    <3>4. PICK v : v = MidnightOf(x, m, l)
      OBVIOUS
    <3>5. IsMidnight(v, x, m, l)
      BY <3>3, <3>4, MidnightIs
    <3>6. IsValid(v) /\ v.year = x /\ v.month = 12 /\ v.day = 31
      BY <3>2, <3>5 DEF IsMidnight
    <3>7. Fixed(v) = j - 1
      <4>1. v.year + 1 = y
        BY <1>1, <3>6
      <4>2. Fixed(v) = FirstDay(v.year + 1) - 32 + v.day
        BY <3>6, EndOfYear
      <4> QED BY <1>2, <3>6, <4>1, <4>2
    <3>8. week(e) = WeekInYear(v)
      BY <2>1, <3>1, <3>2, <3>4, Zenon DEF MidnightOf
    <3>9. WeekInYear(v) = (ThursdayOf(j - 1) - i) \div 7 + 1
      BY <1>2, <3>6, <3>7, WeekInYearIs
    <3>10. ThursdayOf(j - 1) = th
      <4>1. ThursdayOf(j - 1) = j - 1 + 3 - ((j - 2) % 7)
        BY DEF ThursdayOf
      <4>2. j - 1 + 3 - ((j - 2) % 7) = th
        <5>1. th = f + 3 - ((f - 1) % 7)
          BY <1>1, <1>5
        <5> QED BY <1>3, <2>3, <2>5, <5>1, SMT
      <4> QED BY <4>1, <4>2
    <3>11. WeekOf(t) = (th - i) \div 7 + 1
      <4>1. i <= th
        BY <1>4, <2>3
      <4>2. x + 1 = y
        BY <1>1
      <4> QED BY <1>2, <1>5, <2>5, <4>1, <4>2, WeekOfIs
    <3> QED BY <3>8, <3>9, <3>10, <3>11
  <2> QED BY <2>4, <2>5
<1> QED BY <1>10, <1>11

(* Weeks that begin on Sunday, by the number of Sundays. *)
LEMMA SundayWeekIs ==
  ASSUME NEW e, IsValid(e), NEW j \in Int, j = FirstDay(e.year)
  PROVE  sundayWeek(e) = IF Fixed(e) \div 7 - j \div 7 + 1 > 52 THEN 1
                         ELSE Fixed(e) \div 7 - j \div 7 + 1
<1>1. PICK y \in Int, f \in Int, n \in Int, w \in Int :
           y = e.year /\ f = Fixed(e) /\ n = f - j + 1 /\ w = (j % 7) + 1
  <2>1. PICK y \in Int, f \in Int : y = e.year /\ f = Fixed(e)
    BY Fields, PlainInt
  <2>2. PICK n \in Int, w \in Int : n = f - j + 1 /\ w = (j % 7) + 1
    OBVIOUS
  <2> QED BY <2>1, <2>2
<1>2. yearday(e) = n
  BY <1>1, YearDay
<1>3. PICK v \in Int : v = FirstWeekday(y) /\ v = ((j - 1) % 7) + 1
  <2>1. FirstWeekday(y) = ((j - 1) % 7) + 1
    BY <1>1, FirstWeekdayIs
  <2> QED BY <2>1
<1>4. (v % 7) + 1 = w
  BY <1>1, <1>3, SMT
<1>5. sundayWeek(e) = IF (n + w - 2) \div 7 + 1 > 52 THEN 1 ELSE (n + w - 2) \div 7 + 1
  <2>1. sundayWeek(e) = IF (yearday(e) + ((FirstWeekday(y) % 7) + 1) - 2) \div 7 + 1 > 52 THEN 1
                        ELSE (yearday(e) + ((FirstWeekday(y) % 7) + 1) - 2) \div 7 + 1
    BY <1>1, Zenon DEF sundayWeek, FirstWeekday
  <2> QED BY <1>2, <1>3, <1>4, <2>1
<1>6. (n + w - 2) \div 7 = f \div 7 - j \div 7
  BY <1>1, SMT
<1> QED BY <1>1, <1>5, <1>6

(* A day has the week of the Saturday after it, in the next year as well. *)
LEMMA SundayWeeks ==
  ASSUME NEW e, IsValid(e), NEW s, IsValid(s), Fixed(s) = Fixed(e) + 6 - (Fixed(e) % 7)
  PROVE  sundayWeek(e) = sundayWeek(s)
<1>1. PICK y \in Int, z \in Int, f \in Int, g \in Int :
        y = e.year /\ z = y + 1 /\ f = Fixed(e) /\ g = Fixed(s) /\ g = f + 6 - (f % 7)
  <2>1. PICK y \in Int, f \in Int : y = e.year /\ f = Fixed(e)
    BY Fields, PlainInt
  <2>2. PICK g \in Int : g = Fixed(s)
    BY PlainInt
  <2>3. PICK z \in Int : z = y + 1
    OBVIOUS
  <2> QED BY <2>1, <2>2, <2>3
<1>2. PICK j \in Int, k \in Int, o \in Int : j = FirstDay(y) /\ k = FirstDay(z) /\ o = FirstDay(z + 1)
                                             /\ k - j >= 365 /\ o - k >= 365
  <2>1. PICK n \in Int : n = z + 1
    OBVIOUS
  <2>2. FirstDay(y) \in Int /\ FirstDay(z) \in Int /\ FirstDay(z) - FirstDay(y) \in {365, 366}
    BY <1>1, FirstDays
  <2>3. FirstDay(n) \in Int /\ FirstDay(n) - FirstDay(z) \in {365, 366}
    BY <2>1, FirstDays
  <2> QED BY <2>1, <2>2, <2>3
<1>3. j <= f /\ f < k
  BY <1>1, <1>2, YearDay
<1>4. PICK b \in Int, a \in Int : b = f \div 7 /\ a = j \div 7
  OBVIOUS
<1>5. g \div 7 = b /\ f <= g /\ g <= f + 6
  BY <1>1, <1>4, SMT
<1>6. sundayWeek(e) = IF b - a + 1 > 52 THEN 1 ELSE b - a + 1
  BY <1>1, <1>2, <1>4, SundayWeekIs
<1>7. CASE g < k
  <2>1. j <= g
    BY <1>3, <1>5
  <2>2. s.year = y
    BY <1>1, <1>2, <1>7, <2>1, YearOf
  <2>3. sundayWeek(s) = IF b - a + 1 > 52 THEN 1 ELSE b - a + 1
    BY <1>1, <1>2, <1>4, <1>5, <2>2, SundayWeekIs
  <2> QED BY <1>6, <2>3
<1>8. CASE k <= g
  <2>1. g < o
    BY <1>2, <1>3, <1>5
  <2>2. s.year = z
    BY <1>1, <1>2, <1>8, <2>1, YearOf
  <2>3. k \div 7 = b
    BY <1>1, <1>3, <1>4, <1>8, SMT
  <2>4. sundayWeek(s) = 1
    <3>1. sundayWeek(s) = IF b - b + 1 > 52 THEN 1 ELSE b - b + 1
      BY <1>1, <1>2, <1>5, <2>2, <2>3, SundayWeekIs
    <3> QED BY <3>1
  <2>5. b - a + 1 > 52
    BY <1>2, <1>4, <2>3, SMT
  <2> QED BY <1>6, <2>4, <2>5
<1> QED BY <1>7, <1>8

(* Midnight of a date is on the same day, and another date unless it is midnight. *)
LEMMA MidnightOfDay ==
  ASSUME NEW e, IsValid(e)
  PROVE  /\ IsValid(AtMidnight(e)) /\ Fixed(AtMidnight(e)) = Fixed(e) /\ ~IsLate(AtMidnight(e))
         /\ AfterMidnight(e) <=> e # AtMidnight(e)
<1>1. PICK h \in 0..23, m \in 0..59, s \in 0..60, v \in {AtTime(e, 0, 0, 0)} : h = 0 /\ m = 0 /\ s = 0 /\ v = AtTime(e, h, m, s)
  OBVIOUS
<1>2. IsAtTime(v, e, h, m, s)
  BY <1>1, OtherTime
<1>3. v = AtMidnight(e)
  BY <1>1, Zenon DEF AtTime, AtMidnight
<1>4. IsValid(v) /\ Fixed(v) = Fixed(e) /\ ~AfterMidnight(v)
  BY <1>1, <1>2 DEF IsAtTime, AfterMidnight
<1>5. AfterMidnight(e) => e # v
  BY <1>4
<1>6. ASSUME ~AfterMidnight(e) PROVE e = v
  <2>1. e.hour = 0 /\ e.min = 0 /\ e.sec = 0 /\ e \in DateTimes
    BY <1>6, Fields DEF AfterMidnight
  <2> QED BY <1>1, <2>1 DEF AtTime, DateTimes
<1> QED BY <1>3, <1>4, <1>5, <1>6 DEF IsLate

(* Weekdays and both kinds of weeks follow each other, on every date that the
   object can be. *)
THEOREM WeeksAlwaysFollow == Spec => []WeeksFollow
<1>1. SUFFICES ASSUME DatesInv PROVE WeeksFollow
  BY DatesInvKept, PTL
<1>0. PICK e : e = datetime /\ IsValid(e)
  BY <1>1 DEF DatesInv, TypeOK
<1>2. PICK f \in Int, d \in {AtMidnight(e)} : d = AtMidnight(e) /\ f = Fixed(e)
  BY <1>0, PlainInt
<1>3. IsValid(d) /\ Fixed(d) = f /\ ~IsLate(d) /\ (AfterMidnight(e) <=> e # d)
  BY <1>0, <1>2, MidnightOfDay
<1>4. PICK n \in Int, t \in {addDays(d, 3 - ((f - 1) % 7))} : n = 3 - ((f - 1) % 7) /\ t = addDays(d, n)
  <2>1. 3 - ((f - 1) % 7) \in Int
    BY SMT
  <2> QED BY <2>1
<1>5. DaysAfter(t, d, n)
  BY <1>3, <1>4, AddDaysIsExact
<1>6. IsValid(t) /\ Fixed(t) = ThursdayOf(f)
  <2>1. f + n = f + 3 - ((f - 1) % 7)
    BY <1>4, SMT
  <2> QED BY <1>3, <1>5, <2>1 DEF DaysAfter, ThursdayOf
<1>7. week(d) = WeekOf(t)
  BY <1>3, <1>6, WeekIs
<1>8. PICK l \in Int, s \in {addDays(e, 6 - (f % 7))} : l = 6 - (f % 7) /\ s = addDays(e, l)
  <2>1. 6 - (f % 7) \in Int
    BY SMT
  <2> QED BY <2>1
<1>9. DaysAfter(s, e, l)
  BY <1>0, <1>2, <1>8, AddDaysIsExact
<1>10. IsValid(s) /\ Fixed(s) = f + 6 - (f % 7)
  <2>1. f + l = f + 6 - (f % 7)
    BY <1>8, SMT
  <2> QED BY <1>0, <1>2, <1>9, <2>1 DEF DaysAfter
<1>11. sundayWeek(e) = sundayWeek(s)
  BY <1>0, <1>2, <1>10, SundayWeeks
<1>12. weekday(e) = ((f - (IF IsLate(e) THEN 0 ELSE 1)) % 7) + 1
  BY <1>0, <1>2, WeekdayIs
<1>13. IsLate(e) <=> e # d /\ Fixed(e) < gregorian_to_fixed(2017, 7, 31)
  <2>1. gregorian_to_fixed(2017, 7, 31) = 736541
    BY MondayIs, SMT
  <2>2. CASE AfterMidnight(e)
    BY <1>3, <2>1, <2>2, SMT DEF IsLate
  <2>3. CASE ~AfterMidnight(e)
    BY <1>3, <2>3, SMT DEF IsLate
  <2> QED BY <2>2, <2>3, SMT
<1>14. week(d) = (yearday(t) - 1) \div 7 + 1
  BY <1>7 DEF WeekOf
<1>15. weekday(e) = ((Fixed(e) - (IF e # d /\ Fixed(e) < gregorian_to_fixed(2017, 7, 31) THEN 0 ELSE 1)) % 7) + 1
  BY <1>2, <1>12, <1>13
<1>16. t = addDays(d, 3 - ((Fixed(d) - 1) % 7)) /\ s = addDays(e, 6 - (Fixed(e) % 7))
  BY <1>2, <1>3, <1>4, <1>8
<1>17. /\ weekday(e) = ((Fixed(e) - (IF e # AtMidnight(e) /\ Fixed(e) < gregorian_to_fixed(2017, 7, 31) THEN 0 ELSE 1)) % 7) + 1
        /\ week(AtMidnight(e)) = (yearday(addDays(AtMidnight(e), 3 - ((Fixed(AtMidnight(e)) - 1) % 7))) - 1) \div 7 + 1
        /\ sundayWeek(e) = sundayWeek(addDays(e, 6 - (Fixed(e) % 7)))
  <2>1. weekday(e) = ((Fixed(e) - (IF e # AtMidnight(e) /\ Fixed(e) < gregorian_to_fixed(2017, 7, 31) THEN 0 ELSE 1)) % 7) + 1
    BY <1>2, <1>15
  <2>2. week(AtMidnight(e)) = (yearday(addDays(AtMidnight(e), 3 - ((Fixed(AtMidnight(e)) - 1) % 7))) - 1) \div 7 + 1
    <3>1. week(d) = (yearday(addDays(d, 3 - ((Fixed(d) - 1) % 7))) - 1) \div 7 + 1
      BY <1>14, <1>16
    <3> QED BY <1>2, <3>1
  <2>3. sundayWeek(e) = sundayWeek(addDays(e, 6 - (Fixed(e) % 7)))
    BY <1>11, <1>16
  <2> QED BY <2>1, <2>2, <2>3
<1> QED BY <1>0, <1>17 DEF WeeksFollow

==============================================================================
