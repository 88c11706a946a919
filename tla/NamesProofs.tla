----------------------------- MODULE NamesProofs -----------------------------
(***************************************************************************)
(* The five invariants of Names, for any number of items, names and calls. *)
(* They follow from NamesInv, which says that between two calls the tables *)
(* are exact. Within a call they are not: an item is changed while its     *)
(* entries are those of before, and one may be destroyed meanwhile. So     *)
(* the lemmas on the handlers speak of tables that are exact but for items *)
(* set aside (Held), and of a list in order but for those (Sorted).        *)
(***************************************************************************)
EXTENDS Names, SequenceTheorems, FiniteSetTheorems, NaturalsInduction,
        WellFoundedInduction, TLAPS

------------------------------------------------------------------------------
(* The invariant *)

(* What is at an address: every definition an item can have, and none that is
   not typed. *)
ItemRecords == [kind : Kinds, names : Seq(AllNames), local : BOOLEAN, used : Used, active : BOOLEAN]

(* The registries: what TypeOK says, with the lists, tables and records as
   sequences and functions of their sets. *)
Registries ==
  [item : [Items -> ItemRecords], list : [Kinds -> Seq(Items)],
   deleted : [Kinds -> SUBSET Items], ufv : [Kinds -> Seq(EntryType)],
   ufvl : Seq(EntryType), alive : SUBSET Items, dying : SUBSET Items, replaced : BOOLEAN]

(* The registered items: those of the three vectors. *)
ListedIn(r) == UNION {ToSet(r.list[k]) : k \in Kinds}

(* The vectors hold no item twice, each item in that of its kind, alive, named,
   and not noted as deleted; an item that waits for its last reference is not
   freed. *)
Sound(r) ==
  /\ \A k \in Kinds : /\ IsInjective(r.list[k])
                      /\ \A i \in ToSet(r.list[k]) :
                           /\ r.item[i].kind = k /\ r.item[i].names # <<>>
                           /\ i \in r.alive /\ i \notin r.dying /\ i \notin r.deleted[k]
  /\ r.dying \subseteq r.alive

(* The tables of the parser, by name: the one of a kind for short names, ufvl
   for long ones. *)
Wheres == Kinds \cup {"ufvl"}
Table(r, w) == IF w = "ufvl" THEN r.ufvl ELSE r.ufv[w]

(* The table that an entry belongs to: by the length of its name and the kind of
   its item. *)
Place(r, e) == IF LengthOf(r.item[e[1]].names[e[2]]) > UFV_LENGTHS THEN "ufvl"
               ELSE r.item[e[1]].kind

(* The entries that active registered items have, those in X set aside. *)
Entered(r, X) == UNION {{<<i, k>> : k \in DOMAIN r.item[i].names} :
                          i \in {j \in ListedIn(r) \ X : r.item[j].active}}

(* Each table holds what belongs to it once and nothing else, except that of the
   items in X (which are in the middle of a change) it holds what P says. *)
Held(r, X, P) ==
  \A w \in Wheres : /\ IsInjective(Table(r, w))
                    /\ ToSet(Table(r, w)) = {e \in Entered(r, X) : Place(r, e) = w} \cup P[w]

(* No entries of items that are set aside. *)
Nothing == [w \in Wheres |-> {}]

(* Of names of equal length, functions are tried before units and units before
   variables. *)
Rank(kind) == CASE kind = "function" -> 0 [] kind = "unit" -> 1 [] OTHER -> 2

(* The length of the name of an entry. *)
LengthAt(r, e) == LengthOf(r.item[e[1]].names[e[2]])

(* One entry may stand before another. *)
Before(r, e, f) == \/ LengthAt(r, e) > LengthAt(r, f)
                   \/ /\ LengthAt(r, e) = LengthAt(r, f)
                      /\ Rank(r.item[e[1]].kind) <= Rank(r.item[f[1]].kind)
(* ufvl is in order, the entries of the items in Y apart: those may have stale
   indices. *)
Sorted(r, Y) ==
  /\ \A p \in DOMAIN r.ufvl :
       r.ufvl[p][1] \notin Y => r.ufvl[p][2] \in DOMAIN r.item[r.ufvl[p][1]].names
  /\ \A p, q \in DOMAIN r.ufvl :
       p < q /\ r.ufvl[p][1] \notin Y /\ r.ufvl[q][1] \notin Y => Before(r, r.ufvl[p], r.ufvl[q])

(* NameIsUnique of a registry, without its conditions. *)
Unique(r) ==
  \A i, j \in ListedIn(r) :
    (i # j /\ r.item[i].active /\ r.item[j].active /\ Class(r, i) = Class(r, j)) => ~ShareName(r, i, j)

(* Another registered item shares a name with this one. *)
Shaded(r, i) == \E j \in ListedIn(r) \ {i} : ShareName(r, i, j)

(* InactiveIsShadowed of a registry, without its conditions. *)
Shadowed(r) == \A i \in ListedIn(r) : ~r.item[i].active => ~r.item[i].local /\ Shaded(r, i)

\* An inactive item may also share a name of a set.
ShadowedBy(r, S) ==
  \A i \in ListedIn(r) : ~r.item[i].active =>
    ~r.item[i].local /\ (Shaded(r, i) \/ ToSet(r.item[i].names) \cap S # {})

(* The inductive invariant. The tables are exact between calls; their order
   holds while tidy, and the two properties of names while their conditions do.
   *)
NamesInv ==
  /\ reg \in Registries
  /\ Sound(reg)
  /\ Held(reg, {}, Nothing)
  /\ tidy => Sorted(reg, {})
  /\ apart => Apart(reg)
  /\ plain /\ apart => Shadowed(reg)
  /\ plain /\ ~reg.replaced => Unique(reg)
  /\ calls \in 0..MaxCalls
  /\ {plain, apart, tidy} \subseteq BOOLEAN

------------------------------------------------------------------------------
(* Numbers and loops *)

(* A set of numbers that is not empty has a least one. *)
LEMMA LeastNumber ==
  ASSUME NEW T, T \subseteq Nat, T # {}
  PROVE  \E m \in T : \A y \in T : m <= y
<1> DEFINE R == {p \in Nat \X Nat : p[1] < p[2]}
<1>1. IsWellFoundedOn(R, Nat)
  BY NatLessThanWellFounded DEF OpToRel
<1>2. PICK x \in T : \A y \in T : ~(<<y, x>> \in R)
  BY <1>1, WFMin
<1>3. \A y \in T : x <= y
  <2> SUFFICES ASSUME NEW y \in T PROVE x <= y
    OBVIOUS
  <2>1. x \in Nat /\ y \in Nat
    OBVIOUS
  <2>2. (y < x) => <<y, x>> \in R
    BY <2>1
  <2> HIDE DEF R
  <2> QED BY <1>2, <2>1, <2>2
<1> QED BY <1>3

(* The minimum of a set of numbers is in it, and no other is less. *)
LEMMA MinIsLeast ==
  ASSUME NEW T, T \subseteq Nat, T # {}
  PROVE  Min(T) \in T /\ \A y \in T : Min(T) <= y
<1>1. PICK m \in T : \A y \in T : m <= y
  BY LeastNumber
<1> QED BY <1>1, Zenon DEF Min

(* What holds of 0, and of k when it holds of k - 1, holds of all up to N. *)
LEMMA InductionUpTo ==
  ASSUME NEW N \in Nat, NEW Q, 0 \in Q, \A k \in 1..N : k - 1 \in Q => k \in Q
  PROVE  \A k \in 0..N : k \in Q
<1> DEFINE T == {k \in 0..N : k \notin Q}
<1> SUFFICES ASSUME T # {} PROVE FALSE
  OBVIOUS
<1>1. T \subseteq Nat
  OBVIOUS
<1> HIDE DEF T
<1>2. PICK m \in T : \A y \in T : m <= y
  BY <1>1, LeastNumber
<1>3. m \in 1..N /\ m \notin Q
  BY <1>2 DEF T
<1>4. m - 1 \in 0..N /\ m - 1 \notin T
  BY <1>1, <1>2, <1>3
<1>5. m - 1 \in Q
  BY <1>4 DEF T
<1> QED BY <1>3, <1>5

(* The states that a loop of N rounds may be in after each: W[0] at first, and
   round k leads from W[k - 1] to W[k]. *)
Rounds(W, N, b, F) == b \in W[0] /\ \A k \in 1..N : \A t \in W[k - 1] : F[<<k, t>>] \in W[k]

(* A loop runs: there is the function of what it has made after each round. *)
LEMMA LoopRuns ==
  ASSUME NEW N \in Nat, NEW W, NEW b, NEW F, Rounds(W, N, b, F)
  PROVE  \E g : /\ g = [k \in 0..N |-> IF k = 0 THEN b ELSE F[<<k, g[k - 1]>>]]
                /\ \A k \in 0..N : g[k] \in W[k]
<1> DEFINE Good(n, g) == /\ g[0] = b /\ \A k \in 1..n : g[k] = F[<<k, g[k - 1]>>]
                         /\ \A k \in 0..n : g[k] \in W[k]
           Q == {n \in Nat : \E g : g = [k \in 0..n |-> g[k]] /\ Good(n, g)}
<1>1. 0 \in Q
  <2>1. PICK g : g = [k \in 0..0 |-> b]
    OBVIOUS
  <2>2. g = [k \in 0..0 |-> g[k]] /\ Good(0, g)
    BY <2>1 DEF Rounds
  <2> QED BY <2>2
<1>2. ASSUME NEW m \in 1..N, m - 1 \in Q
      PROVE  m \in Q
  <2>1. PICK n \in Nat : n = m - 1 /\ m = n + 1 /\ n \in Q
    BY <1>2
  <2>2. PICK g : Good(n, g)
    BY <2>1
  <2>3. PICK h : h = [k \in 0..m |-> IF k <= n THEN g[k] ELSE F[<<m, g[n]>>]]
    OBVIOUS
  <2>a. m \in 0..m /\ ~(m <= n) /\ 0 \in 0..n /\ \A k \in 0..n : k \in 0..m /\ k <= n
    BY <2>1
  <2>b. \A k \in 0..m : h[k] = IF k <= n THEN g[k] ELSE F[<<m, g[n]>>]
    BY <2>3
  <2>4. (\A k \in 0..n : h[k] = g[k]) /\ h[m] = F[<<m, g[n]>>] /\ h = [k \in 0..m |-> h[k]]
    <3>1. h = [k \in 0..m |-> h[k]]
      BY <2>3, Zenon
    <3> QED BY <2>a, <2>b, <3>1
  <2>5. h[0] = b
    BY <2>a, <2>2, <2>4
  <2>6. ASSUME NEW k \in 1..m
        PROVE  h[k] = F[<<k, h[k - 1]>>] /\ h[k] \in W[k]
    <3>1. CASE k = m
      <4>1. k - 1 = n /\ n \in 0..n /\ g[n] \in W[m - 1]
        BY <2>1, <2>2, <3>1
      <4>2. F[<<m, g[n]>>] \in W[m]
        BY <1>2, <4>1 DEF Rounds
      <4> QED BY <2>4, <3>1, <4>1, <4>2
    <3>2. CASE k # m
      <4>1. k \in 1..n /\ k \in 0..n /\ k - 1 \in 0..n
        BY <2>1, <3>2
      <4> QED BY <2>2, <2>4, <4>1
    <3> QED BY <3>1, <3>2
  <2>7. h[0] \in W[0]
    BY <2>5 DEF Rounds
  <2>8. \A k \in 0..m : h[k] \in W[k]
    <3> SUFFICES ASSUME NEW k \in 0..m PROVE h[k] \in W[k]
      OBVIOUS
    <3>1. k = 0 \/ k \in 1..m
      BY <2>1
    <3> QED BY <2>6, <2>7, <3>1
  <2>9. Good(m, h)
    BY <2>5, <2>6, <2>8
  <2>10. m \in Nat
    BY <2>1
  <2> QED BY <2>4, <2>9, <2>10
<1>3. N \in Q
  <2> HIDE DEF Q
  <2> QED BY <1>1, <1>2, InductionUpTo
<1>4. PICK g : g = [k \in 0..N |-> g[k]] /\ Good(N, g)
  BY <1>3
<1>5. PICK h : h = [k \in 0..N |-> IF k = 0 THEN b ELSE F[<<k, g[k - 1]>>]]
  OBVIOUS
<1>6. \A k \in 0..N : h[k] = g[k]
  <2> SUFFICES ASSUME NEW k \in 0..N PROVE h[k] = g[k]
    OBVIOUS
  <2>1. k = 0 \/ k \in 1..N
    OBVIOUS
  <2>2. h[k] = IF k = 0 THEN b ELSE F[<<k, g[k - 1]>>]
    BY <1>5
  <2>3. k \in 1..N => k # 0 /\ g[k] = F[<<k, g[k - 1]>>]
    BY <1>4
  <2>4. g[0] = b
    BY <1>4
  <2> QED BY <2>1, <2>2, <2>3, <2>4
<1>7. h = g
  BY <1>4, <1>5, <1>6
<1> QED BY <1>4, <1>5, <1>7

(* What a function that runs as a loop has made after each round. *)
LEMMA LoopKeeps ==
  ASSUME NEW N \in Nat, NEW W, NEW b, NEW F, Rounds(W, N, b, F),
         NEW g, g[0] = b, \A k \in 1..N : g[k - 1] \in W[k - 1] => g[k] = F[<<k, g[k - 1]>>]
  PROVE  \A k \in 0..N : g[k] \in W[k]
<1> DEFINE Q == {k \in 0..N : g[k] \in W[k]}
<1>1. 0 \in Q
  BY DEF Rounds
<1>2. ASSUME NEW k \in 1..N, k - 1 \in Q
      PROVE  k \in Q
  <2>1. g[k - 1] \in W[k - 1] /\ k \in 0..N
    BY <1>2
  <2>2. F[<<k, g[k - 1]>>] \in W[k]
    BY <2>1 DEF Rounds
  <2> QED BY <2>1, <2>2
<1> HIDE DEF Q
<1>3. \A k \in 0..N : k \in Q
  BY <1>1, <1>2, InductionUpTo
<1> QED BY <1>3 DEF Q

------------------------------------------------------------------------------
(* Sequences: First, Only, Append and InsertAt *)

(* The first of a sequence in a set is one of both, or there is none. *)
LEMMA FirstOf ==
  ASSUME NEW T, NEW s \in Seq(T), NEW S
  PROVE  \/ First(s, S) \in S /\ First(s, S) \in ToSet(s)
         \/ First(s, S) = NoItem /\ \A x \in ToSet(s) : x \notin S
<1> DEFINE P == {p \in DOMAIN s : s[p] \in S}
<1>1. P \subseteq Nat
  OBVIOUS
<1>2. CASE P = {}
  <2>1. First(s, S) = NoItem
    BY <1>2 DEF First
  <2>2. \A x \in ToSet(s) : x \notin S
    BY <1>2 DEF ToSet
  <2> QED BY <2>1, <2>2
<1>3. CASE P # {}
  <2>1. Min(P) \in P
    <3> HIDE DEF P
    <3> QED BY <1>1, <1>3, MinIsLeast
  <2>2. First(s, S) = s[Min(P)]
    BY <1>3 DEF First
  <2> QED BY <2>1, <2>2 DEF ToSet
<1> QED BY <1>2, <1>3

(* What Only has made of the first k elements: they are those of the set, in the
   order that they had. *)
OnlyUpTo(s, S, k, t) ==
  /\ \A x : x \in ToSet(t) <=> x \in S /\ \E a \in 1..k : s[a] = x
  /\ \E h : /\ \A p \in 1..Len(t) : h[p] \in 1..k /\ s[h[p]] = t[p]
            /\ \A p, q \in 1..Len(t) : p < q => h[p] < h[q]

(* What Append gives, element by element. *)
LEMMA AppendOf ==
  ASSUME NEW T, NEW s \in Seq(T), NEW x \in T
  PROVE  /\ Append(s, x) \in Seq(T)
         /\ Len(s) \in Nat /\ Len(Append(s, x)) = Len(s) + 1
         /\ \A p \in 1..Len(s) : Append(s, x)[p] = s[p]
         /\ Append(s, x)[Len(s) + 1] = x
         /\ ToSet(Append(s, x)) = ToSet(s) \cup {x}
<1>1. /\ Append(s, x) \in Seq(T)
      /\ Len(s) \in Nat /\ Len(Append(s, x)) = Len(s) + 1
      /\ \A p \in 1..Len(s) : Append(s, x)[p] = s[p]
      /\ Append(s, x)[Len(s) + 1] = x
  OBVIOUS
<1>2. DOMAIN Append(s, x) = 1..(Len(s) + 1) /\ DOMAIN s = 1..Len(s)
  BY <1>1
<1> DEFINE u == Append(s, x)
<1> HIDE DEF u
<1>3. \A y : y \in ToSet(u) <=> \E p \in 1..(Len(s) + 1) : u[p] = y
  BY <1>2 DEF ToSet, u
<1>4. \A y : y \in ToSet(s) <=> \E p \in 1..Len(s) : s[p] = y
  BY <1>2 DEF ToSet
<1>5. \A p \in 1..Len(s) : u[p] = s[p]
  BY <1>1 DEF u
<1>6. u[Len(s) + 1] = x
  BY <1>1 DEF u
<1>7. \A y : y \in ToSet(u) <=> y \in ToSet(s) \/ y = x
  <2> TAKE y
  <2>0. Len(s) \in Nat
    BY <1>1
  <2>1. ASSUME y \in ToSet(u) PROVE y \in ToSet(s) \/ y = x
    <3>1. PICK p \in 1..(Len(s) + 1) : u[p] = y
      BY <2>1, <1>3
    <3>2. p \in 1..Len(s) \/ p = Len(s) + 1
      BY <2>0
    <3> QED BY <3>1, <3>2, <1>4, <1>5, <1>6
  <2>2. ASSUME y \in ToSet(s) PROVE y \in ToSet(u)
    <3>1. PICK p \in 1..Len(s) : s[p] = y
      BY <2>2, <1>4
    <3>2. p \in 1..(Len(s) + 1)
      BY <2>0
    <3> QED BY <3>1, <3>2, <1>3, <1>5
  <2>3. x \in ToSet(u)
    <3>1. Len(s) + 1 \in 1..(Len(s) + 1)
      BY <2>0
    <3> QED BY <3>1, <1>3, <1>6
  <2> QED BY <2>1, <2>2, <2>3
<1> QED BY <1>1, <1>7 DEF u

(* The loop of Only takes one more element. *)
LEMMA OnlyStep ==
  ASSUME NEW T, NEW s \in Seq(T), NEW S, NEW k \in 1..Len(s), NEW t \in Seq(T),
         OnlyUpTo(s, S, k - 1, t)
  PROVE  /\ s[k] \in S => OnlyUpTo(s, S, k, Append(t, s[k]))
         /\ s[k] \notin S => OnlyUpTo(s, S, k, t)
<1>1. s[k] \in T /\ k \in Nat /\ k \in 1..k /\ Len(t) \in Nat
  OBVIOUS
<1>2. \A a \in 1..k : a = k \/ a \in 1..(k - 1)
  OBVIOUS
<1>3. \A a \in 1..(k - 1) : a \in 1..k /\ a < k
  BY <1>1
<1>4. \A x : x \in ToSet(t) <=> x \in S /\ \E a \in 1..(k - 1) : s[a] = x
  BY DEF OnlyUpTo
<1>5. PICK h : /\ \A p \in 1..Len(t) : h[p] \in 1..(k - 1) /\ s[h[p]] = t[p]
               /\ \A p, q \in 1..Len(t) : p < q => h[p] < h[q]
  BY DEF OnlyUpTo
<1>6. ASSUME s[k] \in S PROVE OnlyUpTo(s, S, k, Append(t, s[k]))
  <2>1. PICK u : u = Append(t, s[k])
    OBVIOUS
  <2>2. /\ Len(u) = Len(t) + 1 /\ u[Len(t) + 1] = s[k] /\ ToSet(u) = ToSet(t) \cup {s[k]}
        /\ \A p \in 1..Len(t) : u[p] = t[p]
    BY <1>1, <2>1, AppendOf
  <2>3. \A x : x \in ToSet(u) <=> x \in S /\ \E a \in 1..k : s[a] = x
    BY <1>1, <1>2, <1>3, <1>4, <1>6, <2>2
  <2>4. PICK g : g = [p \in 1..(Len(t) + 1) |-> IF p = Len(t) + 1 THEN k ELSE h[p]]
    OBVIOUS
  <2>5. g[Len(t) + 1] = k /\ \A p \in 1..Len(t) : g[p] = h[p]
    BY <1>1, <2>4
  <2>6. \A p \in 1..Len(u) : p \in 1..Len(t) \/ p = Len(t) + 1
    BY <1>1, <2>2
  <2>7. \A p \in 1..Len(u) : g[p] \in 1..k /\ s[g[p]] = u[p]
    BY <1>1, <1>3, <1>5, <2>2, <2>5, <2>6
  <2>8. \A p, q \in 1..Len(u) : p < q => g[p] < g[q]
    <3> SUFFICES ASSUME NEW p \in 1..Len(u), NEW q \in 1..Len(u), p < q
                 PROVE  g[p] < g[q]
      OBVIOUS
    <3>1. p \in 1..Len(t)
      BY <1>1, <2>2
    <3>2. CASE q \in 1..Len(t)
      BY <1>5, <2>5, <3>1, <3>2
    <3>3. CASE q = Len(t) + 1
      BY <1>3, <1>5, <2>5, <3>1, <3>3
    <3> QED BY <2>6, <3>2, <3>3
  <2> QED BY <2>1, <2>3, <2>7, <2>8 DEF OnlyUpTo
<1>7. ASSUME s[k] \notin S PROVE OnlyUpTo(s, S, k, t)
  <2>1. \A x : x \in ToSet(t) <=> x \in S /\ \E a \in 1..k : s[a] = x
    BY <1>2, <1>3, <1>4, <1>7
  <2>2. \A p \in 1..Len(t) : h[p] \in 1..k
    BY <1>3, <1>5
  <2> QED BY <1>5, <2>1, <2>2 DEF OnlyUpTo
<1> QED BY <1>6, <1>7

(* Only keeps the elements that are in the set, in their order. *)
LEMMA OnlyKeeps ==
  ASSUME NEW T, NEW s \in Seq(T), NEW S
  PROVE  Only(s, S) \in Seq(T) /\ OnlyUpTo(s, S, Len(s), Only(s, S))
<1>1. PICK N \in Nat : N = Len(s)
  OBVIOUS
<1>2. PICK F : F = [p \in (1..N) \X Seq(T) |->
                      IF s[p[1]] \in S THEN Append(p[2], s[p[1]]) ELSE p[2]]
  OBVIOUS
<1>3. PICK W : W = [k \in 0..N |-> {t \in Seq(T) : OnlyUpTo(s, S, k, t)}]
  OBVIOUS
<1>4. PICK b : b = <<>>
  OBVIOUS
<1>5. \A k \in 1..N : \A t \in Seq(T) :
        F[<<k, t>>] = IF s[k] \in S THEN Append(t, s[k]) ELSE t
  BY <1>2
<1>6. Rounds(W, N, b, F)
  <2>1. b \in W[0]
    <3>1. OnlyUpTo(s, S, 0, b)
      BY <1>4 DEF OnlyUpTo, ToSet
    <3> QED BY <1>3, <1>4, <3>1
  <2>2. ASSUME NEW k \in 1..N, NEW t \in W[k - 1]
        PROVE  F[<<k, t>>] \in W[k]
    <3>1. k - 1 \in 0..N /\ k \in 0..N
      OBVIOUS
    <3>2. t \in Seq(T) /\ OnlyUpTo(s, S, k - 1, t)
      BY <1>3, <3>1
    <3>3. s[k] \in T
      BY <1>1
    <3>4. F[<<k, t>>] \in Seq(T)
      <4>1. Append(t, s[k]) \in Seq(T)
        BY <3>2, <3>3, AppendOf
      <4>2. F[<<k, t>>] = IF s[k] \in S THEN Append(t, s[k]) ELSE t
        BY <1>5, <3>2
      <4> QED BY <3>2, <4>1, <4>2
    <3>5. OnlyUpTo(s, S, k, F[<<k, t>>])
      BY <1>1, <1>5, <3>2, OnlyStep
    <3> QED BY <1>3, <3>1, <3>4, <3>5
  <2> QED BY <2>1, <2>2 DEF Rounds
<1>7. PICK g : /\ g = [k \in 0..N |-> IF k = 0 THEN b ELSE F[<<k, g[k - 1]>>]]
               /\ \A k \in 0..N : g[k] \in W[k]
  BY <1>6, LoopRuns
<1>8. g = [k \in 0..Len(s) |->
             IF k = 0 THEN <<>> ELSE IF s[k] \in S THEN Append(g[k - 1], s[k]) ELSE g[k - 1]]
  <2>1. g = [k \in 0..N |-> g[k]]
    BY <1>7, Zenon
  <2>2. \A k \in 0..N : g[k] = IF k = 0 THEN <<>> ELSE
                               IF s[k] \in S THEN Append(g[k - 1], s[k]) ELSE g[k - 1]
    <3> SUFFICES ASSUME NEW k \in 0..N
                 PROVE  g[k] = IF k = 0 THEN <<>> ELSE
                               IF s[k] \in S THEN Append(g[k - 1], s[k]) ELSE g[k - 1]
      OBVIOUS
    <3>1. g[k] = IF k = 0 THEN b ELSE F[<<k, g[k - 1]>>]
      BY <1>7, Zenon
    <3>2. CASE k = 0
      BY <1>4, <3>1, <3>2
    <3>3. CASE k # 0
      <4>1. k \in 1..N /\ k - 1 \in 0..N
        BY <3>3
      <4>2. g[k - 1] \in Seq(T)
        BY <1>3, <1>7, <4>1
      <4> QED BY <1>5, <3>1, <3>3, <4>1, <4>2
    <3> QED BY <3>2, <3>3
  <2> QED BY <1>1, <2>1, <2>2
<1>9. \E a : /\ a = [k \in 0..Len(s) |-> IF k = 0 THEN <<>> ELSE
                        IF s[k] \in S THEN Append(a[k - 1], s[k]) ELSE a[k - 1]]
             /\ Only(s, S) = a[Len(s)]
  BY <1>8, Zenon DEF Only
<1>10. PICK a : /\ a = [k \in 0..Len(s) |-> IF k = 0 THEN <<>> ELSE
                        IF s[k] \in S THEN Append(a[k - 1], s[k]) ELSE a[k - 1]]
                /\ Only(s, S) = a[Len(s)]
  BY <1>9
<1>11. \A k \in 0..N : a[k] = IF k = 0 THEN <<>> ELSE
                              IF s[k] \in S THEN Append(a[k - 1], s[k]) ELSE a[k - 1]
  BY <1>1, <1>10, Zenon
<1>12. \A k \in 0..N : a[k] \in W[k]
  <2>1. a[0] = b
    BY <1>4, <1>11
  <2>2. ASSUME NEW k \in 1..N, a[k - 1] \in W[k - 1]
        PROVE  a[k] = F[<<k, a[k - 1]>>]
    <3>1. k \in 0..N /\ k - 1 \in 0..N /\ k # 0
      OBVIOUS
    <3>2. a[k - 1] \in Seq(T)
      BY <1>3, <2>2, <3>1
    <3> QED BY <1>5, <1>11, <3>1, <3>2
  <2> QED BY <1>6, <2>1, <2>2, LoopKeeps
<1>13. a[N] \in W[N] /\ N \in 0..N
  BY <1>12
<1> QED BY <1>1, <1>3, <1>10, <1>13

(* The elements that Only keeps. *)
LEMMA OnlyOf ==
  ASSUME NEW T, NEW s \in Seq(T), NEW S
  PROVE  /\ Only(s, S) \in Seq(T)
         /\ ToSet(Only(s, S)) = ToSet(s) \cap S
         /\ IsInjective(s) => IsInjective(Only(s, S))
<1>1. PICK t : t = Only(s, S)
  OBVIOUS
<1>2. t \in Seq(T) /\ OnlyUpTo(s, S, Len(s), t)
  BY <1>1, OnlyKeeps
<1>3. DOMAIN s = 1..Len(s) /\ DOMAIN t = 1..Len(t)
  BY <1>2
<1>4. ToSet(t) = ToSet(s) \cap S
  <2>1. \A x : x \in ToSet(s) <=> \E a \in 1..Len(s) : s[a] = x
    BY <1>3 DEF ToSet
  <2> QED BY <1>2, <2>1 DEF OnlyUpTo
<1>5. ASSUME IsInjective(s) PROVE IsInjective(t)
  <2>1. PICK h : /\ \A p \in 1..Len(t) : h[p] \in 1..Len(s) /\ s[h[p]] = t[p]
                 /\ \A p, q \in 1..Len(t) : p < q => h[p] < h[q]
    BY <1>2 DEF OnlyUpTo
  <2> SUFFICES ASSUME NEW p \in 1..Len(t), NEW q \in 1..Len(t), t[p] = t[q], p # q
               PROVE  FALSE
    BY <1>3 DEF IsInjective
  <2>2. h[p] = h[q]
    BY <1>3, <1>5, <2>1 DEF IsInjective
  <2>3. p < q \/ q < p
    OBVIOUS
  <2>4. h[p] < h[q] \/ h[q] < h[p]
    BY <2>1, <2>3
  <2> QED BY <2>1, <2>2, <2>4
<1> QED BY <1>1, <1>2, <1>4, <1>5

(* The order that Only keeps. *)
LEMMA OnlyInOrder ==
  ASSUME NEW T, NEW s \in Seq(T), NEW S,
         NEW p \in DOMAIN Only(s, S), NEW q \in DOMAIN Only(s, S), p < q
  PROVE  \E a, b \in DOMAIN s : a < b /\ s[a] = Only(s, S)[p] /\ s[b] = Only(s, S)[q]
<1>1. PICK t : t = Only(s, S)
  OBVIOUS
<1>2. t \in Seq(T) /\ OnlyUpTo(s, S, Len(s), t)
  BY <1>1, OnlyKeeps
<1>3. DOMAIN s = 1..Len(s) /\ DOMAIN t = 1..Len(t)
  BY <1>2
<1>4. PICK h : /\ \A i \in 1..Len(t) : h[i] \in 1..Len(s) /\ s[h[i]] = t[i]
               /\ \A i, j \in 1..Len(t) : i < j => h[i] < h[j]
  BY <1>2 DEF OnlyUpTo
<1>5. p \in 1..Len(t) /\ q \in 1..Len(t)
  BY <1>1, <1>3
<1>6. h[p] \in DOMAIN s /\ h[q] \in DOMAIN s /\ h[p] < h[q] /\ s[h[p]] = t[p] /\ s[h[q]] = t[q]
  BY <1>3, <1>4, <1>5
<1> QED BY <1>1, <1>6

(* What is inserted takes its place and moves what follows. *)
LEMMA InsertOf ==
  ASSUME NEW T, NEW s \in Seq(T), NEW p \in 1..(Len(s) + 1), NEW x \in T
  PROVE  /\ InsertAt(s, p, x) \in Seq(T)
         /\ Len(InsertAt(s, p, x)) = Len(s) + 1
         /\ InsertAt(s, p, x)[p] = x
         /\ \A q \in 1..Len(s) : q < p => InsertAt(s, p, x)[q] = s[q]
         /\ \A q \in 1..Len(s) : q >= p => InsertAt(s, p, x)[q + 1] = s[q]
<1> DEFINE a == SubSeq(s, 1, p - 1)
           b == SubSeq(s, p, Len(s))
<1>1. /\ a \in Seq(T) /\ Len(a) = p - 1 /\ \A q \in 1..(p - 1) : a[q] = s[q]
      /\ Len(s) \in Nat
  OBVIOUS
<1>2. /\ b \in Seq(T) /\ Len(b) = Len(s) + 1 - p
      /\ \A q \in 1..(Len(s) + 1 - p) : b[q] = s[p + q - 1]
  OBVIOUS
<1>3. InsertAt(s, p, x) = a \o <<x>> \o b
  BY DEF InsertAt
<1> HIDE DEF a, b
<1>4. PICK c : c = a \o <<x>>
  OBVIOUS
<1>5. /\ c \in Seq(T) /\ Len(c) = p /\ c[p] = x
      /\ \A q \in 1..(p - 1) : c[q] = s[q]
  BY <1>1, <1>4
<1>6. PICK d : d = c \o b
  OBVIOUS
<1>7. /\ d \in Seq(T) /\ Len(d) = Len(s) + 1
      /\ \A q \in 1..p : d[q] = c[q]
      /\ \A q \in 1..(Len(s) + 1 - p) : d[p + q] = b[q]
  BY <1>1, <1>2, <1>5, <1>6
<1>8. d = InsertAt(s, p, x)
  BY <1>3, <1>4, <1>6
<1>9. d[p] = x
  BY <1>5, <1>7
<1>10. \A q \in 1..Len(s) : q < p => d[q] = s[q]
  BY <1>5, <1>7
<1>11. ASSUME NEW q \in 1..Len(s), q >= p
       PROVE  d[q + 1] = s[q]
  <2>1. PICK r \in 1..(Len(s) + 1 - p) : r = q + 1 - p
    BY <1>1, <1>11
  <2>2. q + 1 = p + r /\ p + r - 1 = q
    BY <1>1, <2>1
  <2>3. d[p + r] = b[r] /\ b[r] = s[p + r - 1]
    BY <1>2, <1>7
  <2> QED BY <2>2, <2>3
<1> QED BY <1>7, <1>8, <1>9, <1>10, <1>11

(* Inserting adds one element, and no element twice. *)
LEMMA InsertSet ==
  ASSUME NEW T, NEW s \in Seq(T), NEW p \in 1..(Len(s) + 1), NEW x \in T
  PROVE  /\ ToSet(InsertAt(s, p, x)) = ToSet(s) \cup {x}
         /\ IsInjective(s) /\ x \notin ToSet(s) => IsInjective(InsertAt(s, p, x))
<1>1. PICK u : u = InsertAt(s, p, x)
  OBVIOUS
<1>2. /\ u \in Seq(T) /\ Len(u) = Len(s) + 1 /\ u[p] = x
      /\ \A q \in 1..Len(s) : q < p => u[q] = s[q]
      /\ \A q \in 1..Len(s) : q >= p => u[q + 1] = s[q]
  BY <1>1, InsertOf
<1>3. DOMAIN s = 1..Len(s) /\ DOMAIN u = 1..(Len(s) + 1) /\ Len(s) \in Nat
  BY <1>2
<1>4. \A q \in 1..(Len(s) + 1) :
        q = p \/ (q \in 1..Len(s) /\ q < p) \/ (q - 1 \in 1..Len(s) /\ q - 1 >= p)
  BY <1>3
<1>5. \A q \in 1..(Len(s) + 1) : q - 1 \in 1..Len(s) /\ q - 1 >= p => u[q] = s[q - 1]
  <2> SUFFICES ASSUME NEW q \in 1..(Len(s) + 1), q - 1 \in 1..Len(s), q - 1 >= p
               PROVE  u[q] = s[q - 1]
    OBVIOUS
  <2>1. PICK r \in 1..Len(s) : r = q - 1 /\ r + 1 = q /\ r >= p
    BY <1>3
  <2> QED BY <1>2, <2>1
<1>6. ToSet(u) = ToSet(s) \cup {x}
  <2>1. \A y : y \in ToSet(u) <=> \E q \in 1..(Len(s) + 1) : u[q] = y
    BY <1>3 DEF ToSet
  <2>2. \A y : y \in ToSet(s) <=> \E q \in 1..Len(s) : s[q] = y
    BY <1>3 DEF ToSet
  <2>3. ASSUME NEW y \in ToSet(u) PROVE y \in ToSet(s) \cup {x}
    <3>1. PICK q \in 1..(Len(s) + 1) : u[q] = y
      BY <2>1
    <3> QED BY <1>2, <1>4, <1>5, <2>2, <3>1
  <2>4. ASSUME NEW y \in ToSet(s) PROVE y \in ToSet(u)
    <3>1. PICK q \in 1..Len(s) : s[q] = y
      BY <2>2
    <3>2. q \in 1..(Len(s) + 1) /\ q + 1 \in 1..(Len(s) + 1) /\ (q < p \/ q >= p)
      BY <1>3
    <3> QED BY <1>2, <2>1, <3>1, <3>2
  <2>5. x \in ToSet(u)
    BY <1>2, <2>1
  <2> QED BY <2>3, <2>4, <2>5
<1>7. ASSUME IsInjective(s), x \notin ToSet(s) PROVE IsInjective(u)
  <2>1. \A q \in 1..Len(s) : s[q] # x
    BY <1>3, <1>7 DEF ToSet
  <2>2. \A a, b \in 1..Len(s) : s[a] = s[b] => a = b
    BY <1>3, <1>7 DEF IsInjective
  <2> SUFFICES ASSUME NEW a \in 1..(Len(s) + 1), NEW b \in 1..(Len(s) + 1), u[a] = u[b]
               PROVE  a = b
    BY <1>3 DEF IsInjective
  <2>3. a = p \/ (a \in 1..Len(s) /\ a < p /\ u[a] = s[a])
             \/ (a - 1 \in 1..Len(s) /\ a - 1 >= p /\ u[a] = s[a - 1])
    BY <1>2, <1>4, <1>5
  <2>4. b = p \/ (b \in 1..Len(s) /\ b < p /\ u[b] = s[b])
             \/ (b - 1 \in 1..Len(s) /\ b - 1 >= p /\ u[b] = s[b - 1])
    BY <1>2, <1>4, <1>5
  <2>5. CASE a = p \/ b = p
    BY <1>2, <2>1, <2>3, <2>4, <2>5
  <2>6. CASE a # p /\ b # p
    <3>1. PICK i \in 1..Len(s) : u[a] = s[i] /\ ((i = a /\ a < p) \/ (i = a - 1 /\ i >= p))
      BY <2>3, <2>6
    <3>2. PICK j \in 1..Len(s) : u[b] = s[j] /\ ((j = b /\ b < p) \/ (j = b - 1 /\ j >= p))
      BY <2>4, <2>6
    <3>3. i = j
      BY <2>2, <3>1, <3>2
    <3> HIDE <1>7
    <3> QED BY <3>1, <3>2, <3>3
  <2> QED BY <2>5, <2>6
<1> QED BY <1>1, <1>6, <1>7

(* Removing one element of several leaves some. *)
LEMMA RemoveOf ==
  ASSUME NEW T, NEW s \in Seq(T), NEW p \in DOMAIN s, Len(s) > 1
  PROVE  RemoveAt(s, p) \in Seq(T) /\ RemoveAt(s, p) # <<>>
<1>1. p \in 1..Len(s) /\ Len(s) \in Nat
  OBVIOUS
<1>2. SubSeq(s, 1, p - 1) \in Seq(T) /\ Len(SubSeq(s, 1, p - 1)) = p - 1
  BY <1>1
<1>3. SubSeq(s, p + 1, Len(s)) \in Seq(T) /\ Len(SubSeq(s, p + 1, Len(s))) = Len(s) - p
  BY <1>1
<1>4. PICK a \in Seq(T) : a = SubSeq(s, 1, p - 1) /\ Len(a) = p - 1
  BY <1>2
<1>5. PICK b \in Seq(T) : b = SubSeq(s, p + 1, Len(s)) /\ Len(b) = Len(s) - p
  BY <1>3
<1>6. a \o b \in Seq(T) /\ Len(a \o b) = Len(s) - 1
  <2>1. Len(a \o b) = Len(a) + Len(b)
    OBVIOUS
  <2>2. a \o b \in Seq(T)
    OBVIOUS
  <2>3. PICK n \in Nat, m \in Int : n = Len(s) /\ m = p
    BY <1>1
  <2>4. (m - 1) + (n - m) = n - 1
    BY <2>3
  <2>5. Len(a) + Len(b) = Len(s) - 1
    BY <1>4, <1>5, <2>3, <2>4
  <2> QED BY <2>1, <2>2, <2>5
<1>7. a \o b # <<>>
  BY <1>1, <1>6
<1> QED BY <1>4, <1>5, <1>6, <1>7 DEF RemoveAt

(* The elements of two sequences. *)
LEMMA ConcatSet ==
  ASSUME NEW T, NEW a \in Seq(T), NEW b \in Seq(T)
  PROVE  a \o b \in Seq(T) /\ ToSet(a \o b) = ToSet(a) \cup ToSet(b)
<1>1. /\ a \o b \in Seq(T) /\ Len(a) \in Nat /\ Len(b) \in Nat
      /\ DOMAIN (a \o b) = 1..(Len(a) + Len(b)) /\ DOMAIN a = 1..Len(a) /\ DOMAIN b = 1..Len(b)
      /\ \A i \in 1..Len(a) : (a \o b)[i] = a[i]
      /\ \A i \in 1..Len(b) : (a \o b)[Len(a) + i] = b[i]
  OBVIOUS
<1>2. PICK c : c = a \o b
  OBVIOUS
<1>3. PICK m \in Nat, n \in Nat : m = Len(a) /\ n = Len(b)
  BY <1>1
<1>4. /\ \A y : y \in ToSet(a) <=> \E i \in 1..m : a[i] = y
      /\ \A y : y \in ToSet(b) <=> \E i \in 1..n : b[i] = y
      /\ \A y : y \in ToSet(c) <=> \E i \in 1..(m + n) : c[i] = y
      /\ \A i \in 1..m : c[i] = a[i]
      /\ \A i \in 1..n : c[m + i] = b[i]
  BY <1>1, <1>2, <1>3 DEF ToSet
<1>5. ASSUME NEW y \in ToSet(c) PROVE y \in ToSet(a) \cup ToSet(b)
  <2>1. PICK i \in 1..(m + n) : c[i] = y
    BY <1>4
  <2>2. CASE i \in 1..m
    BY <1>4, <2>1, <2>2
  <2>3. CASE i \notin 1..m
    <3>1. PICK j \in 1..n : i = m + j
      <4>1. i - m \in 1..n /\ i = m + (i - m)
        BY <2>3
      <4> QED BY <4>1
    <3> QED BY <1>4, <2>1, <3>1
  <2> QED BY <2>2, <2>3
<1>6. \A y \in ToSet(a) \cup ToSet(b) : y \in ToSet(c)
  <2>1. (\A i \in 1..m : i \in 1..(m + n)) /\ (\A i \in 1..n : m + i \in 1..(m + n))
    OBVIOUS
  <2> QED BY <1>4, <2>1
<1> QED BY <1>1, <1>2, <1>5, <1>6

------------------------------------------------------------------------------
(* What deleting and entering a name does to the tables *)

(* The length of a name is a number. *)
LEMMA LengthIsNumber ==
  ASSUME NEW n \in AllNames
  PROVE  LengthOf(n) \in Nat
<1>1. n \in Seq(BaseNames \cup Nat) /\ n # <<>> /\ n[1] \in BaseNames
  BY DEF AllNames
<1>2. Len(n) \in Nat /\ Len(n) # 0
  BY <1>1
<1>3. Length[n[1]] \in Nat
  BY <1>1, NamesAssumption
<1> QED BY <1>2, <1>3 DEF LengthOf

(* What a call of a handler leaves alone besides the items and the tables. *)
SameBooks(r, t) ==
  /\ t.list = r.list /\ t.deleted = r.deleted
  /\ t.alive = r.alive /\ t.dying = r.dying /\ t.replaced = r.replaced

(* The fields of a registry. *)
LEMMA Fields ==
  ASSUME NEW r \in Registries
  PROVE  /\ r.item \in [Items -> ItemRecords] /\ r.list \in [Kinds -> Seq(Items)]
         /\ r.ufv \in [Kinds -> Seq(EntryType)] /\ r.ufvl \in Seq(EntryType)
         /\ r.alive \subseteq Items /\ r.dying \subseteq Items /\ r.replaced \in BOOLEAN
         /\ r.deleted \in [Kinds -> SUBSET Items]
         /\ \A i \in Items : /\ r.item[i] \in ItemRecords
                             /\ r.item[i].kind \in Kinds /\ r.item[i].names \in Seq(AllNames)
                             /\ r.item[i].active \in BOOLEAN /\ r.item[i].local \in BOOLEAN
                             /\ r.item[i].used \in Used
         /\ \A k \in Kinds : r.list[k] \in Seq(Items) /\ r.deleted[k] \subseteq Items
         /\ \A w \in Wheres : Table(r, w) \in Seq(EntryType)
<1>1. /\ r.item \in [Items -> ItemRecords] /\ r.list \in [Kinds -> Seq(Items)]
      /\ r.ufv \in [Kinds -> Seq(EntryType)] /\ r.ufvl \in Seq(EntryType)
      /\ r.alive \subseteq Items /\ r.dying \subseteq Items /\ r.replaced \in BOOLEAN
      /\ r.deleted \in [Kinds -> SUBSET Items]
  BY DEF Registries
<1>2. \A i \in Items : /\ r.item[i] \in ItemRecords
                       /\ r.item[i].kind \in Kinds /\ r.item[i].names \in Seq(AllNames)
                       /\ r.item[i].active \in BOOLEAN /\ r.item[i].local \in BOOLEAN
                       /\ r.item[i].used \in Used
  BY <1>1 DEF ItemRecords
<1>3. \A w \in Wheres : Table(r, w) \in Seq(EntryType)
  BY <1>1 DEF Wheres, Table
<1> QED BY <1>1, <1>2, <1>3

(* Deleting the entries of an item from the tables. *)
LEMMA DelOf ==
  ASSUME NEW r \in Registries, NEW i \in Items
  PROVE  LET t == delUFV(r, i)
             Others(s) == Only(s, {e \in ToSet(s) : e[1] # i})
         IN  /\ t \in Registries /\ t.item = r.item /\ SameBooks(r, t)
             /\ t.ufvl = Others(r.ufvl)
             /\ t.ufv[r.item[i].kind] = Others(r.ufv[r.item[i].kind])
             /\ \A k \in Kinds : k # r.item[i].kind => t.ufv[k] = r.ufv[k]
<1>1. PICK k \in Kinds : k = r.item[i].kind
  BY Fields
<1>2. PICK ul \in Seq(EntryType) : ul = Only(r.ufvl, {e \in ToSet(r.ufvl) : e[1] # i})
  BY Fields, OnlyOf
<1>3. PICK u \in Seq(EntryType) : u = Only(r.ufv[k], {e \in ToSet(r.ufv[k]) : e[1] # i})
  BY Fields, OnlyOf
<1>4. delUFV(r, i) =
        [r EXCEPT !.ufvl = Only(r.ufvl, {e \in ToSet(r.ufvl) : e[1] # i}),
                  !.ufv[r.item[i].kind] =
                    Only(r.ufv[r.item[i].kind], {e \in ToSet(r.ufv[r.item[i].kind]) : e[1] # i})]
  BY DEF delUFV
<1>5. PICK t : t = [r EXCEPT !.ufvl = ul, !.ufv[k] = u]
  OBVIOUS
<1>6. t = delUFV(r, i)
  BY <1>1, <1>2, <1>3, <1>4, <1>5, Zenon
<1>7. t \in Registries /\ t.item = r.item /\ SameBooks(r, t)
  BY <1>5 DEF Registries, SameBooks
<1>8. t.ufvl = ul /\ t.ufv[k] = u /\ \A l \in Kinds : l # k => t.ufv[l] = r.ufv[l]
  BY <1>5 DEF Registries
<1> QED BY <1>1, <1>2, <1>3, <1>6, <1>7, <1>8

(* An item has no entries in the table of another kind. *)
AtHome(r, i) ==
  \A w \in Wheres : \A e \in ToSet(Table(r, w)) : e[1] = i => w \in {"ufvl", r.item[i].kind}

(* The entries that are left, and their order. *)
LEMMA DelLeaves ==
  ASSUME NEW r \in Registries, NEW i \in Items, AtHome(r, i)
  PROVE  \A w \in Wheres :
           /\ ToSet(Table(delUFV(r, i), w)) = {e \in ToSet(Table(r, w)) : e[1] # i}
           /\ IsInjective(Table(r, w)) => IsInjective(Table(delUFV(r, i), w))
<1> SUFFICES ASSUME NEW w \in Wheres
             PROVE  /\ ToSet(Table(delUFV(r, i), w)) = {e \in ToSet(Table(r, w)) : e[1] # i}
                    /\ IsInjective(Table(r, w)) => IsInjective(Table(delUFV(r, i), w))
  OBVIOUS
<1>1. PICK s \in Seq(EntryType) : s = Table(r, w)
  BY Fields
<1>2. PICK S : S = {e \in ToSet(s) : e[1] # i}
  OBVIOUS
<1>3. CASE w \in {"ufvl", r.item[i].kind}
  <2>1. Table(delUFV(r, i), w) = Only(s, {e \in ToSet(s) : e[1] # i})
    <3>1. r.item[i].kind \in Kinds /\ "ufvl" \notin Kinds
      BY Fields DEF Kinds
    <3> QED BY <1>1, <1>3, <3>1, DelOf, ZenonT(60) DEF Table
  <2>2. Table(delUFV(r, i), w) = Only(s, S)
    BY <1>2, <2>1
  <2>3. ToSet(Only(s, S)) = ToSet(s) \cap S /\ (IsInjective(s) => IsInjective(Only(s, S)))
    BY OnlyOf
  <2> QED BY <1>1, <1>2, <2>2, <2>3
<1>4. CASE w \notin {"ufvl", r.item[i].kind}
  <2>1. w \in Kinds /\ w # "ufvl"
    BY <1>4 DEF Wheres
  <2>2. Table(delUFV(r, i), w) = Table(r, w)
    BY <1>4, <2>1, DelOf DEF Table
  <2>3. \A e \in ToSet(Table(r, w)) : e[1] # i
    BY <1>4 DEF AtHome
  <2> QED BY <2>2, <2>3
<1> QED BY <1>3, <1>4

(* The place of an entry of ufvl, and that of a name that is entered there. *)
EnterAt(r, i, k) ==
  Min({q \in 1..Len(r.ufvl) + 1 :
         q <= Len(r.ufvl) => Precedes(r, i, LengthAt(r, <<i, k>>), r.ufvl[q])})

(* The place that Enter finds: one of the list or just behind it, the first that
   the item may precede. *)
LEMMA EnterAtOf ==
  ASSUME NEW r \in Registries, NEW i \in Items, NEW k
  PROVE  /\ EnterAt(r, i, k) \in 1..(Len(r.ufvl) + 1)
         /\ EnterAt(r, i, k) <= Len(r.ufvl) =>
              Precedes(r, i, LengthAt(r, <<i, k>>), r.ufvl[EnterAt(r, i, k)])
         /\ \A q \in 1..Len(r.ufvl) :
              q < EnterAt(r, i, k) => ~Precedes(r, i, LengthAt(r, <<i, k>>), r.ufvl[q])
<1>1. PICK n \in Nat : n = Len(r.ufvl)
  BY Fields
<1>2. PICK T : T = {q \in 1..n + 1 : q <= n => Precedes(r, i, LengthAt(r, <<i, k>>), r.ufvl[q])}
  OBVIOUS
<1>3. T \subseteq Nat /\ n + 1 \in T
  BY <1>2
<1>4. PICK m \in T : m = Min(T) /\ \A q \in T : m <= q
  BY <1>3, MinIsLeast
<1>5. EnterAt(r, i, k) = m
  BY <1>1, <1>2, <1>4 DEF EnterAt
<1>6. m \in 1..(n + 1) /\ (m <= n => Precedes(r, i, LengthAt(r, <<i, k>>), r.ufvl[m]))
  BY <1>2, <1>4
<1>7. \A q \in 1..n : q < m => ~Precedes(r, i, LengthAt(r, <<i, k>>), r.ufvl[q])
  <2> SUFFICES ASSUME NEW q \in 1..n, q < m, Precedes(r, i, LengthAt(r, <<i, k>>), r.ufvl[q])
               PROVE  FALSE
    OBVIOUS
  <2>1. q \in T
    BY <1>2
  <2> QED BY <1>4, <1>6, <2>1
<1> QED BY <1>1, <1>5, <1>6, <1>7

(* Entering a name: it is put in its place. *)
LEMMA EnterOf ==
  ASSUME NEW r \in Registries, NEW i \in Items, NEW k \in DOMAIN r.item[i].names
  PROVE  LET t == Enter(r, i, k)
             w == Place(r, <<i, k>>)
         IN  /\ t \in Registries /\ t.item = r.item /\ SameBooks(r, t)
             /\ w \in Wheres /\ <<i, k>> \in EntryType
             /\ \A v \in Wheres : v # w => Table(t, v) = Table(r, v)
             /\ w # "ufvl" => Table(t, w) = Append(Table(r, w), <<i, k>>)
             /\ w = "ufvl" => t.ufvl = InsertAt(r.ufvl, EnterAt(r, i, k), <<i, k>>)
<1>1. PICK K \in Kinds : K = r.item[i].kind
  BY Fields
<1>2. <<i, k>> \in EntryType
  <2>1. r.item[i].names \in Seq(AllNames)
    BY Fields
  <2>2. k \in Nat \ {0}
    BY <2>1
  <2> QED BY <2>2 DEF EntryType
<1>3. PICK e \in EntryType : e = <<i, k>>
  BY <1>2
<1>4. LengthAt(r, e) = LengthOf(r.item[i].names[k])
  BY <1>3 DEF LengthAt
<1>5. PICK p : p = EnterAt(r, i, k)
  OBVIOUS
<1>6. Place(r, e) = IF LengthOf(r.item[i].names[k]) > UFV_LENGTHS THEN "ufvl" ELSE K
  BY <1>1, <1>3 DEF Place
<1>7. Enter(r, i, k) = IF LengthOf(r.item[i].names[k]) > UFV_LENGTHS
                       THEN [r EXCEPT !.ufvl = InsertAt(r.ufvl, p, <<i, k>>)]
                       ELSE [r EXCEPT !.ufv[r.item[i].kind] = Append(r.ufv[r.item[i].kind], <<i, k>>)]
  <2>1. p = Min({q \in 1..Len(r.ufvl) + 1 :
                   q <= Len(r.ufvl) => Precedes(r, i, LengthOf(r.item[i].names[k]), r.ufvl[q])})
    BY <1>3, <1>4, <1>5 DEF EnterAt
  <2> QED BY <2>1 DEF Enter
<1>8. K # "ufvl" /\ K \in Wheres /\ "ufvl" \in Wheres
  BY DEF Kinds, Wheres
<1>9. CASE LengthOf(r.item[i].names[k]) > UFV_LENGTHS
  <2>1. Place(r, e) = "ufvl"
    BY <1>6, <1>9
  <2>2. PICK u \in Seq(EntryType) : u = InsertAt(r.ufvl, p, e)
    <3>1. r.ufvl \in Seq(EntryType) /\ p \in 1..(Len(r.ufvl) + 1)
      BY <1>5, Fields, EnterAtOf
    <3> QED BY <3>1, InsertOf
  <2>3. PICK t : t = [r EXCEPT !.ufvl = u]
    OBVIOUS
  <2>4. t = Enter(r, i, k)
    BY <1>3, <1>7, <1>9, <2>2, <2>3
  <2>5. t \in Registries /\ t.item = r.item /\ SameBooks(r, t) /\ t.ufvl = u /\ t.ufv = r.ufv
    BY <2>3 DEF Registries, SameBooks
  <2>6. \A v \in Wheres : v # "ufvl" => Table(t, v) = Table(r, v)
    BY <2>5 DEF Table
  <2> QED BY <1>3, <1>5, <1>8, <2>1, <2>2, <2>4, <2>5, <2>6
<1>10. CASE ~(LengthOf(r.item[i].names[k]) > UFV_LENGTHS)
  <2>1. Place(r, e) = K
    BY <1>6, <1>10
  <2>2. PICK u \in Seq(EntryType) : u = Append(r.ufv[K], e)
    BY Fields, AppendOf
  <2>3. PICK t : t = [r EXCEPT !.ufv[K] = u]
    OBVIOUS
  <2>4. t = Enter(r, i, k)
    BY <1>1, <1>3, <1>7, <1>10, <2>2, <2>3
  <2>5. /\ t \in Registries /\ t.item = r.item /\ SameBooks(r, t) /\ t.ufvl = r.ufvl
        /\ t.ufv[K] = u /\ \A v \in Kinds : v # K => t.ufv[v] = r.ufv[v]
    BY <2>3 DEF Registries, SameBooks
  <2>6. \A v \in Wheres : v # K => Table(t, v) = Table(r, v)
    BY <2>5 DEF Table, Wheres
  <2>7. Table(t, K) = Append(Table(r, K), e)
    BY <1>8, <2>2, <2>5 DEF Table
  <2> QED BY <1>3, <1>8, <2>1, <2>4, <2>5, <2>6, <2>7
<1> QED BY <1>9, <1>10

(* What is entered: the names of the active registered items. *)
LEMMA EnteredOf ==
  ASSUME NEW r \in Registries, NEW X
  PROVE  /\ \A i \in Items : \A k : <<i, k>> \in Entered(r, X) <=>
              /\ i \in ListedIn(r) /\ i \notin X /\ r.item[i].active
              /\ k \in DOMAIN r.item[i].names
         /\ \A e \in Entered(r, X) :
              /\ e \in EntryType /\ e = <<e[1], e[2]>> /\ e[1] \in Items
              /\ e[1] \in ListedIn(r) /\ e[1] \notin X /\ r.item[e[1]].active
              /\ e[2] \in DOMAIN r.item[e[1]].names
<1>1. ListedIn(r) \subseteq Items
  BY Fields DEF ListedIn, ToSet
<1>2. \A i \in Items : r.item[i].names \in Seq(AllNames)
  BY Fields
<1>3. ASSUME NEW i \in Items, NEW k
      PROVE  <<i, k>> \in Entered(r, X) <=>
              /\ i \in ListedIn(r) /\ i \notin X /\ r.item[i].active
              /\ k \in DOMAIN r.item[i].names
  BY DEF Entered
<1>4. ASSUME NEW e \in Entered(r, X)
      PROVE  /\ e \in EntryType /\ e = <<e[1], e[2]>> /\ e[1] \in Items
             /\ e[1] \in ListedIn(r) /\ e[1] \notin X /\ r.item[e[1]].active
             /\ e[2] \in DOMAIN r.item[e[1]].names
  <2>1. PICK i, k : /\ e = <<i, k>> /\ i \in ListedIn(r) \ X /\ r.item[i].active
                    /\ k \in DOMAIN r.item[i].names
    BY DEF Entered
  <2>2. i \in Items /\ k \in Nat \ {0}
    BY <1>1, <1>2, <2>1
  <2> QED BY <2>1, <2>2 DEF EntryType
<1> QED BY <1>3, <1>4

(* The tables hold the same after a change of what is not in them. *)
LEMMA HeldChange ==
  ASSUME NEW r \in Registries, NEW t \in Registries, NEW X, NEW P, Held(r, X, P),
         t.ufv = r.ufv, t.ufvl = r.ufvl, ListedIn(t) \ X = ListedIn(r) \ X,
         \A j \in ListedIn(r) \ X : /\ t.item[j].active = r.item[j].active
                                    /\ t.item[j].names = r.item[j].names
                                    /\ t.item[j].kind = r.item[j].kind
  PROVE  Held(t, X, P)
<1>1. Entered(t, X) = Entered(r, X)
  BY DEF Entered
<1>2. \A w \in Wheres : Table(t, w) = Table(r, w)
  BY DEF Table
<1>3. \A e \in Entered(r, X) : Place(t, e) = Place(r, e)
  BY EnteredOf DEF Place
<1>4. \A w \in Wheres : {e \in Entered(t, X) : Place(t, e) = w} = {e \in Entered(r, X) : Place(r, e) = w}
  BY <1>1, <1>3
<1> QED BY <1>2, <1>4 DEF Held

(* An item may be left out when none of its names is entered. *)
LEMMA HeldBack ==
  ASSUME NEW r \in Registries, NEW i \in Items, NEW X, NEW P, Held(r, X \cup {i}, P),
         i \notin ListedIn(r) \/ ~r.item[i].active
  PROVE  Held(r, X, P)
<1>1. Entered(r, X) = Entered(r, X \cup {i})
  BY DEF Entered
<1> QED BY <1>1 DEF Held

(* What is held of the items set aside, without one of them. *)
Without(P, i) == [w \in Wheres |-> {e \in P[w] : e[1] # i}]

(* Of an item that stays as it is in the tables while it changes: its entries.
   *)
Aside(r, X, P, i) ==
  [w \in Wheres |-> P[w] \cup {e \in Entered(r, X) : e[1] = i /\ Place(r, e) = w}]

(* Setting an item aside changes nothing in the tables. *)
LEMMA HeldAside ==
  ASSUME NEW r \in Registries, NEW i \in Items, NEW X, NEW P, Held(r, X, P)
  PROVE  Held(r, X \cup {i}, Aside(r, X, P, i))
<1>1. \A e : e \in Entered(r, X \cup {i}) <=> e \in Entered(r, X) /\ e[1] # i
  <2>1. \A e \in Entered(r, X) : e[1] # i => e \in Entered(r, X \cup {i})
    BY DEF Entered
  <2>2. \A e \in Entered(r, X \cup {i}) : e \in Entered(r, X) /\ e[1] # i
    BY DEF Entered
  <2> QED BY <2>1, <2>2
<1>2. \A w \in Wheres : {e \in Entered(r, X) : Place(r, e) = w} \cup P[w]
                       = {e \in Entered(r, X \cup {i}) : Place(r, e) = w} \cup Aside(r, X, P, i)[w]
  BY <1>1 DEF Aside
<1> QED BY <1>2 DEF Held

(* The entries kept aside are of that item, and in the tables of its kind. *)
OfKind(P, i, kind) == \A w \in Wheres : \A e \in P[w] : e[1] = i => w \in {"ufvl", kind}

(* What is held of an item set aside is its own, and of its kind if it was. *)
LEMMA AsideOf ==
  ASSUME NEW r \in Registries, NEW i \in Items, NEW X, NEW P
  PROVE  /\ \A w \in Wheres : \A e \in Aside(r, X, P, i)[w] : e \in P[w] \/ e[1] = i
         /\ OfKind(P, i, r.item[i].kind) => OfKind(Aside(r, X, P, i), i, r.item[i].kind)
         /\ \A j, kind : j # i /\ OfKind(P, j, kind) => OfKind(Aside(r, X, P, i), j, kind)
         /\ (\A w \in Wheres : \A e \in P[w] : e[1] # i) =>
              Without(Aside(r, X, P, i), i) = [w \in Wheres |-> P[w]]
<1>1. \A e \in Entered(r, X) : Place(r, e) \in {"ufvl", r.item[e[1]].kind}
  BY DEF Place
<1>2. \A w \in Wheres : Aside(r, X, P, i)[w] = P[w] \cup {e \in Entered(r, X) : e[1] = i /\ Place(r, e) = w}
  BY DEF Aside
<1>3. (\A w \in Wheres : \A e \in P[w] : e[1] # i) =>
              Without(Aside(r, X, P, i), i) = [w \in Wheres |-> P[w]]
  BY <1>2 DEF Without
<1>4. OfKind(P, i, r.item[i].kind) => OfKind(Aside(r, X, P, i), i, r.item[i].kind)
  BY <1>1, <1>2 DEF OfKind
<1>5. \A j, kind : j # i /\ OfKind(P, j, kind) => OfKind(Aside(r, X, P, i), j, kind)
  BY <1>2 DEF OfKind
<1> QED BY <1>2, <1>3, <1>4, <1>5

(* Items are in the tables of their kind. *)
LEMMA HeldAtHome ==
  ASSUME NEW r \in Registries, NEW i \in Items, NEW X, NEW P, Held(r, X, P),
         OfKind(P, i, r.item[i].kind)
  PROVE  AtHome(r, i)
<1>1. \A e \in Entered(r, X) : Place(r, e) \in {"ufvl", r.item[e[1]].kind}
  BY DEF Place
<1> QED BY <1>1 DEF AtHome, Held, OfKind

(* Deleting an item's entries leaves those of the others. *)
LEMMA HeldDel ==
  ASSUME NEW r \in Registries, NEW i \in Items, NEW X, NEW P, Held(r, X, P),
         OfKind(P, i, r.item[i].kind)
  PROVE  Held(delUFV(r, i), X \cup {i}, Without(P, i))
<1>1. PICK t : t = delUFV(r, i)
  OBVIOUS
<1>2. t \in Registries /\ t.item = r.item /\ t.list = r.list
  BY <1>1, DelOf DEF SameBooks
<1>3. AtHome(r, i)
  BY HeldAtHome
<1>4. \A w \in Wheres : /\ ToSet(Table(t, w)) = {e \in ToSet(Table(r, w)) : e[1] # i}
                        /\ IsInjective(Table(r, w)) => IsInjective(Table(t, w))
  BY <1>1, <1>3, DelLeaves
<1>5. ListedIn(t) = ListedIn(r)
  BY <1>2 DEF ListedIn
<1>6. \A e : e \in Entered(t, X \cup {i}) <=> e \in Entered(r, X) /\ e[1] # i
  <2>1. \A e \in Entered(r, X) : e[1] # i => e \in Entered(t, X \cup {i})
    BY <1>2, <1>5 DEF Entered
  <2>2. \A e \in Entered(t, X \cup {i}) : e \in Entered(r, X) /\ e[1] # i
    BY <1>2, <1>5 DEF Entered
  <2> QED BY <2>1, <2>2
<1>7. \A e : Place(t, e) = Place(r, e)
  BY <1>2 DEF Place
<1>8. ASSUME NEW w \in Wheres
      PROVE  /\ IsInjective(Table(t, w))
             /\ ToSet(Table(t, w)) = {e \in Entered(t, X \cup {i}) : Place(t, e) = w} \cup Without(P, i)[w]
  <2>1. IsInjective(Table(r, w)) /\ ToSet(Table(r, w)) = {e \in Entered(r, X) : Place(r, e) = w} \cup P[w]
    BY DEF Held
  <2>2. Without(P, i)[w] = {e \in P[w] : e[1] # i}
    BY DEF Without
  <2> QED BY <1>4, <1>6, <1>7, <2>1, <2>2
<1> QED BY <1>1, <1>8 DEF Held

(* The first k names of an item, as they are entered besides others. *)
Plus(r, P, i, k) ==
  [w \in Wheres |-> P[w] \cup {e \in {<<i, j>> : j \in 1..k} : Place(r, e) = w}]

(* One name more. *)
LEMMA HeldEnter ==
  ASSUME NEW r \in Registries, NEW i \in Items, NEW k \in DOMAIN r.item[i].names,
         NEW X, NEW P, i \in X, \A w \in Wheres : \A e \in P[w] : e[1] # i,
         Held(r, X, Plus(r, P, i, k - 1))
  PROVE  Held(Enter(r, i, k), X, Plus(Enter(r, i, k), P, i, k))
<1>1. PICK t : t = Enter(r, i, k)
  OBVIOUS
<1>2. PICK v : v = Place(r, <<i, k>>)
  OBVIOUS
<1>3. PICK x : x = <<i, k>>
  OBVIOUS
<1>4. /\ t \in Registries /\ t.item = r.item /\ t.list = r.list /\ v \in Wheres /\ x \in EntryType
      /\ \A w \in Wheres : w # v => Table(t, w) = Table(r, w)
      /\ v # "ufvl" => Table(t, v) = Append(Table(r, v), x)
      /\ v = "ufvl" => t.ufvl = InsertAt(r.ufvl, EnterAt(r, i, k), x)
  BY <1>1, <1>2, <1>3, EnterOf DEF SameBooks
<1>5. Entered(t, X) = Entered(r, X) /\ \A e : Place(t, e) = Place(r, e)
  BY <1>4 DEF Entered, ListedIn, Place
<1>6. k \in Nat /\ k >= 1
  <2>1. r.item[i].names \in Seq(AllNames)
    BY Fields
  <2> QED BY <2>1
<1>7. \A j : j \in 1..k <=> j \in 1..(k - 1) \/ j = k
  BY <1>6
<1>8. \A w \in Wheres : Plus(r, P, i, k - 1)[w] = P[w] \cup {e \in {<<i, j>> : j \in 1..(k - 1)} : Place(r, e) = w}
  BY DEF Plus
<1>9. \A w \in Wheres : Plus(t, P, i, k)[w] = P[w] \cup {e \in {<<i, j>> : j \in 1..k} : Place(r, e) = w}
  BY <1>5 DEF Plus
<1>10. \A w \in Wheres : w # v => Plus(t, P, i, k)[w] = Plus(r, P, i, k - 1)[w]
  <2> SUFFICES ASSUME NEW w \in Wheres, w # v
               PROVE  Plus(t, P, i, k)[w] = Plus(r, P, i, k - 1)[w]
    OBVIOUS
  <2>1. {e \in {<<i, j>> : j \in 1..k} : Place(r, e) = w}
          = {e \in {<<i, j>> : j \in 1..(k - 1)} : Place(r, e) = w}
    BY <1>2, <1>7
  <2> QED BY <1>8, <1>9, <2>1
<1>11. Plus(t, P, i, k)[v] = Plus(r, P, i, k - 1)[v] \cup {x}
  BY <1>2, <1>3, <1>4, <1>7, <1>8, <1>9, SMTT(40)
<1>12. \A w \in Wheres : /\ IsInjective(Table(r, w))
                         /\ ToSet(Table(r, w)) = {e \in Entered(r, X) : Place(r, e) = w} \cup Plus(r, P, i, k - 1)[w]
  BY DEF Held
<1>13. x \notin ToSet(Table(r, v))
  <2>1. x \notin Entered(r, X)
    BY <1>3, EnteredOf
  <2>2. x \notin Plus(r, P, i, k - 1)[v]
    <3>1. x \notin P[v]
      BY <1>3, <1>4
    <3>2. x \notin {<<i, j>> : j \in 1..(k - 1)}
      BY <1>3, <1>6
    <3> QED BY <1>4, <1>8, <3>1, <3>2
  <2> QED BY <1>4, <1>12, <2>1, <2>2
<1>14. ToSet(Table(t, v)) = ToSet(Table(r, v)) \cup {x} /\ IsInjective(Table(t, v))
  <2>1. PICK s \in Seq(EntryType) : s = Table(r, v)
    BY <1>4, Fields
  <2>2. IsInjective(s) /\ x \notin ToSet(s)
    BY <1>4, <1>12, <1>13, <2>1
  <2>3. CASE v = "ufvl"
    <3>1. s = r.ufvl /\ Table(t, v) = t.ufvl
      BY <2>1, <2>3 DEF Table
    <3>2. PICK p : p = EnterAt(r, i, k) /\ p \in 1..(Len(s) + 1)
      BY <3>1, EnterAtOf
    <3>3. Table(t, v) = InsertAt(s, p, x)
      BY <1>4, <2>3, <3>1, <3>2
    <3> QED BY <1>4, <2>1, <2>2, <3>2, <3>3, InsertSet
  <2>4. CASE v # "ufvl"
    <3>1. PICK p : p = Len(s) + 1 /\ p \in 1..(Len(s) + 1)
      BY <2>1
    <3>2. Append(s, x) = InsertAt(s, p, x)
      <4>1. /\ InsertAt(s, p, x) \in Seq(EntryType) /\ Len(InsertAt(s, p, x)) = Len(s) + 1
            /\ InsertAt(s, p, x)[p] = x
            /\ \A q \in 1..Len(s) : q < p => InsertAt(s, p, x)[q] = s[q]
        <5>1. s \in Seq(EntryType) /\ p \in 1..(Len(s) + 1) /\ x \in EntryType /\ \A q \in 1..Len(s) : q < p
          BY <1>4, <3>1
        <5> QED BY <5>1, InsertOf
      <4>2. /\ Append(s, x) \in Seq(EntryType) /\ Len(Append(s, x)) = Len(s) + 1
            /\ Append(s, x)[p] = x
            /\ \A q \in 1..Len(s) : Append(s, x)[q] = s[q]
        BY <1>4, <2>1, <3>1, AppendOf
      <4>3. PICK u \in Seq(EntryType) : u = InsertAt(s, p, x)
        BY <4>1
      <4>4. PICK z \in Seq(EntryType) : z = Append(s, x)
        BY <4>2
      <4>5. DOMAIN u = 1..(Len(s) + 1) /\ DOMAIN z = 1..(Len(s) + 1)
        BY <4>1, <4>2, <4>3, <4>4
      <4>6. \A q \in 1..(Len(s) + 1) : u[q] = z[q]
        <5>1. \A q \in 1..(Len(s) + 1) : q = p \/ (q \in 1..Len(s) /\ q < p)
          BY <3>1
        <5> QED BY <4>1, <4>2, <4>3, <4>4, <5>1
      <4>7. u = [q \in 1..(Len(s) + 1) |-> u[q]] /\ z = [q \in 1..(Len(s) + 1) |-> z[q]]
        BY <4>5
      <4>8. u = z
        BY <4>6, <4>7
      <4> QED BY <4>3, <4>4, <4>8
    <3> QED BY <1>4, <2>1, <2>2, <2>4, <3>1, <3>2, InsertSet
  <2> QED BY <2>3, <2>4
<1>15. ASSUME NEW w \in Wheres
       PROVE  /\ IsInjective(Table(t, w))
              /\ ToSet(Table(t, w)) = {e \in Entered(t, X) : Place(t, e) = w} \cup Plus(t, P, i, k)[w]
  <2>1. CASE w = v
    BY <1>4, <1>5, <1>11, <1>12, <1>14, <2>1
  <2>2. CASE w # v
    BY <1>4, <1>5, <1>10, <1>12, <2>2
  <2> QED BY <2>1, <2>2
<1> QED BY <1>1, <1>15 DEF Held

(* The order is of numbers. *)
LEMMA BeforeOf ==
  ASSUME NEW r \in Registries, NEW e, NEW f, NEW g,
         e[1] \in Items, f[1] \in Items, g[1] \in Items,
         e[2] \in DOMAIN r.item[e[1]].names, f[2] \in DOMAIN r.item[f[1]].names,
         g[2] \in DOMAIN r.item[g[1]].names, Before(r, e, f), Before(r, f, g)
  PROVE  Before(r, e, g)
<1>1. LengthAt(r, e) \in Nat /\ LengthAt(r, f) \in Nat /\ LengthAt(r, g) \in Nat
  <2>1. \A d \in Items : r.item[d].names \in Seq(AllNames)
    BY Fields
  <2>2. /\ r.item[e[1]].names[e[2]] \in AllNames /\ r.item[f[1]].names[f[2]] \in AllNames
        /\ r.item[g[1]].names[g[2]] \in AllNames
    BY <2>1
  <2> QED BY <2>2, LengthIsNumber DEF LengthAt
<1>2. \A kind : Rank(kind) \in 0..2
  BY DEF Rank
<1> QED BY <1>1, <1>2 DEF Before

(* An entry goes before the first that it may precede, so the order is kept. *)
LEMMA PrecedesIsBefore ==
  ASSUME NEW r \in Registries, NEW i \in Items, NEW k \in DOMAIN r.item[i].names, NEW e,
         e[1] \in Items, e[2] \in DOMAIN r.item[e[1]].names
  PROVE  /\ Precedes(r, i, LengthAt(r, <<i, k>>), e) => Before(r, <<i, k>>, e)
         /\ ~Precedes(r, i, LengthAt(r, <<i, k>>), e) => Before(r, e, <<i, k>>)
<1>1. PICK x : x = <<i, k>>
  OBVIOUS
<1>2. PICK l \in Nat, m \in Nat : l = LengthAt(r, x) /\ m = LengthAt(r, e)
  BY <1>1, Fields, LengthIsNumber DEF LengthAt
<1>3. PICK a \in Kinds, b \in Kinds : a = r.item[i].kind /\ b = r.item[e[1]].kind
  BY Fields
<1>4. Precedes(r, i, l, e) <=>
        \/ m < l
        \/ m = l /\ b \in (CASE a = "variable" -> {"variable"}
                             [] a = "unit" -> {"variable", "unit"}
                             [] OTHER -> Kinds)
  BY <1>2, <1>3 DEF Precedes, LengthAt
<1>5. /\ a = "variable" => (b \in {"variable"} <=> Rank(a) <= Rank(b)) /\ Rank(b) <= Rank(a)
      /\ a = "unit" => (b \in {"variable", "unit"} <=> Rank(a) <= Rank(b))
                       /\ (b \notin {"variable", "unit"} => Rank(b) <= Rank(a))
      /\ a = "function" => b \in Kinds /\ Rank(a) <= Rank(b)
      /\ a \in {"variable", "unit", "function"}
  BY DEF Kinds, Rank
<1>6. Before(r, x, e) <=> l > m \/ (l = m /\ Rank(a) <= Rank(b))
  BY <1>1, <1>2, <1>3 DEF Before
<1>7. Before(r, e, x) <=> m > l \/ (m = l /\ Rank(b) <= Rank(a))
  BY <1>1, <1>2, <1>3 DEF Before
<1>8. Precedes(r, i, l, e) => Before(r, x, e)
  BY <1>4, <1>5, <1>6
<1>9. ~Precedes(r, i, l, e) => Before(r, e, x)
  BY <1>4, <1>5, <1>7
<1> QED BY <1>1, <1>2, <1>8, <1>9

(* Entering a name at the place found keeps the order of ufvl. *)
LEMMA SortedEnter ==
  ASSUME NEW r \in Registries, NEW i \in Items, NEW k \in DOMAIN r.item[i].names, Sorted(r, {})
  PROVE  Sorted(Enter(r, i, k), {})
<1>1. PICK t : t = Enter(r, i, k)
  OBVIOUS
<1>2. PICK x : x = <<i, k>>
  OBVIOUS
<1>3. /\ t \in Registries /\ t.item = r.item /\ x \in EntryType
      /\ "ufvl" # Place(r, x) => Table(t, "ufvl") = Table(r, "ufvl")
      /\ "ufvl" = Place(r, x) => t.ufvl = InsertAt(r.ufvl, EnterAt(r, i, k), x)
  BY <1>1, <1>2, EnterOf DEF Wheres
<1>4. \A e, f : Before(t, e, f) <=> Before(r, e, f)
  BY <1>3 DEF Before, LengthAt
<1>5. CASE "ufvl" # Place(r, x)
  <2>1. t.ufvl = r.ufvl
    BY <1>3, <1>5 DEF Table
  <2> QED BY <1>1, <1>3, <1>4, <2>1 DEF Sorted
<1>6. CASE "ufvl" = Place(r, x)
  <2>1. PICK s \in Seq(EntryType) : s = r.ufvl
    BY Fields
  <2>2. PICK n \in Nat : n = Len(s) /\ DOMAIN s = 1..n
    BY <2>1
  <2>3. PICK p \in 1..(n + 1) :
          /\ p = EnterAt(r, i, k)
          /\ p <= n => Precedes(r, i, LengthAt(r, x), s[p])
          /\ \A q \in 1..n : q < p => ~Precedes(r, i, LengthAt(r, x), s[q])
    BY <1>2, <2>1, <2>2, EnterAtOf
  <2>4. PICK u \in Seq(EntryType) : u = t.ufvl
    BY <1>3, Fields
  <2>5. /\ Len(u) = n + 1 /\ u[p] = x
        /\ \A q \in 1..n : q < p => u[q] = s[q]
        /\ \A q \in 1..n : q >= p => u[q + 1] = s[q]
    <3>1. u = InsertAt(s, p, x) /\ x \in EntryType
      BY <1>3, <1>6, <2>1, <2>3, <2>4
    <3>2. p \in 1..(Len(s) + 1)
      BY <2>2
    <3>3. /\ Len(u) = Len(s) + 1 /\ u[p] = x
          /\ \A q \in 1..Len(s) : q < p => u[q] = s[q]
          /\ \A q \in 1..Len(s) : q >= p => u[q + 1] = s[q]
      <4>1. s \in Seq(EntryType) /\ p \in 1..(Len(s) + 1) /\ x \in EntryType
        BY <3>1, <3>2
      <4>2. /\ Len(InsertAt(s, p, x)) = Len(s) + 1 /\ InsertAt(s, p, x)[p] = x
            /\ \A q \in 1..Len(s) : q < p => InsertAt(s, p, x)[q] = s[q]
            /\ \A q \in 1..Len(s) : q >= p => InsertAt(s, p, x)[q + 1] = s[q]
        BY <4>1, InsertOf
      <4> QED BY <3>1, <4>2
    <3> QED BY <2>2, <3>3
  <2>6. DOMAIN u = 1..(n + 1)
    BY <2>5
  <2>7. \A q \in 1..n : s[q][1] \in Items /\ s[q][2] \in DOMAIN r.item[s[q][1]].names
    <3>1. \A q \in 1..n : s[q] \in EntryType
      BY <2>2
    <3> QED BY <2>1, <2>2, <3>1 DEF Sorted, EntryType
  <2>8. \A q, z \in 1..n : q < z => Before(r, s[q], s[z])
    BY <2>1, <2>2 DEF Sorted
  <2>9. x[1] = i /\ x[2] = k
    BY <1>2
  <2>10. \A q \in 1..n : q < p => Before(r, s[q], x)
    BY <1>2, <2>3, <2>7, PrecedesIsBefore
  <2>11. \A q \in 1..n : q >= p => Before(r, x, s[q])
    <3> SUFFICES ASSUME NEW q \in 1..n, q >= p PROVE Before(r, x, s[q])
      OBVIOUS
    <3>1. p \in 1..n
      OBVIOUS
    <3>2. Before(r, x, s[p])
      BY <1>2, <2>3, <2>7, <3>1, PrecedesIsBefore
    <3>3. CASE q = p
      BY <3>2, <3>3
    <3>4. CASE q > p
      <4>1. Before(r, s[p], s[q])
        BY <2>8, <3>1, <3>4
      <4> QED BY <2>7, <2>9, <3>1, <3>2, <4>1, BeforeOf
    <3> QED BY <3>3, <3>4
  <2>12. \A q \in 1..(n + 1) : \/ q = p /\ u[q] = x
                               \/ q < p /\ q \in 1..n /\ u[q] = s[q]
                               \/ q > p /\ q - 1 \in 1..n /\ q - 1 >= p /\ u[q] = s[q - 1]
    <3> SUFFICES ASSUME NEW q \in 1..(n + 1), q > p
                 PROVE  q - 1 \in 1..n /\ q - 1 >= p /\ u[q] = s[q - 1]
      BY <2>5
    <3>1. PICK z \in 1..n : z = q - 1 /\ z + 1 = q /\ z >= p
      OBVIOUS
    <3> QED BY <2>5, <3>1
  <2>13. \A q \in 1..(n + 1) : u[q][2] \in DOMAIN r.item[u[q][1]].names
    BY <2>7, <2>9, <2>12
  <2>14. ASSUME NEW a \in 1..(n + 1), NEW b \in 1..(n + 1), a < b
         PROVE  Before(r, u[a], u[b])
    <3>1. CASE a = p
      <4>1. PICK z \in 1..n : z >= p /\ u[b] = s[z] /\ u[a] = x
        BY <2>5, <2>12, <2>14, <3>1
      <4> QED BY <2>11, <4>1
    <3>2. CASE a < p
      <4>1. u[a] = s[a] /\ a \in 1..n
        BY <2>12, <3>2
      <4>2. CASE b = p
        BY <2>5, <2>10, <3>2, <4>1, <4>2
      <4>3. CASE b < p
        BY <2>8, <2>12, <2>14, <4>1, <4>3
      <4>4. CASE b > p
        <5>1. PICK z \in 1..n : z >= p /\ u[b] = s[z]
          BY <2>12, <4>4
        <5>2. a < z
          BY <3>2, <5>1
        <5> QED BY <2>8, <4>1, <5>1, <5>2
      <4> QED BY <4>2, <4>3, <4>4
    <3>3. CASE a > p
      <4>1. PICK y \in 1..n : y = a - 1 /\ u[a] = s[y]
        BY <2>12, <3>3
      <4>2. PICK z \in 1..n : z = b - 1 /\ u[b] = s[z]
        BY <2>12, <2>14, <3>3
      <4>3. y < z
        BY <2>14, <4>1, <4>2
      <4> QED BY <2>8, <4>1, <4>2, <4>3
    <3> QED BY <3>1, <3>2, <3>3
  <2> QED BY <1>1, <1>3, <1>4, <2>4, <2>6, <2>13, <2>14 DEF Sorted
<1> QED BY <1>5, <1>6

(* What has become of a registry when k names of an item have been entered. *)
EnteredSoFar(r, t, i, k, X, P) ==
  /\ t \in Registries /\ t.item = r.item /\ SameBooks(r, t)
  /\ Sorted(r, {}) => Sorted(t, {})
  /\ Held(r, X, P) => Held(t, X, Plus(t, P, i, k))

(* The loop over the names of an item that has no entry yet enters each of them
   once. *)
LEMMA EnterNamesLoop ==
  ASSUME NEW r \in Registries, NEW i \in Items, NEW X, NEW P,
         i \in X, \A w \in Wheres : \A e \in P[w] : e[1] # i
  PROVE  EnteredSoFar(r, EnterNames(r, i), i, Len(r.item[i].names), X, P)
<1>1. PICK names \in Seq(AllNames) : names = r.item[i].names
  BY Fields
<1>2. PICK N \in Nat : N = Len(names)
  OBVIOUS
<1>3. PICK F : F = [p \in (1..N) \X Registries |-> Enter(p[2], i, p[1])]
  OBVIOUS
<1>4. PICK W : W = [k \in 0..N |-> {t \in Registries : EnteredSoFar(r, t, i, k, X, P)}]
  OBVIOUS
<1>5. \A k \in 1..N : \A t \in Registries : F[<<k, t>>] = Enter(t, i, k)
  BY <1>3
<1>6. Rounds(W, N, r, F)
  <2>1. r \in W[0]
    <3>1. Held(r, X, P) => Held(r, X, Plus(r, P, i, 0))
      <4>1. \A w \in Wheres : Plus(r, P, i, 0)[w] = P[w]
        BY DEF Plus
      <4> QED BY <4>1 DEF Held
    <3>2. EnteredSoFar(r, r, i, 0, X, P)
      BY <3>1 DEF EnteredSoFar, SameBooks
    <3> QED BY <1>4, <3>2
  <2>2. ASSUME NEW k \in 1..N, NEW t \in W[k - 1]
        PROVE  F[<<k, t>>] \in W[k]
    <3>1. k - 1 \in 0..N /\ k \in 0..N
      OBVIOUS
    <3>2. EnteredSoFar(r, t, i, k - 1, X, P) /\ t \in Registries
      BY <1>4, <3>1
    <3>3. t.item = r.item /\ SameBooks(r, t)
      BY <3>2 DEF EnteredSoFar
    <3>4. k \in DOMAIN t.item[i].names
      BY <1>1, <1>2, <3>3
    <3>5. PICK u : u = Enter(t, i, k)
      OBVIOUS
    <3>6. u \in Registries /\ u.item = t.item /\ SameBooks(t, u)
      BY <3>2, <3>4, <3>5, EnterOf
    <3>7. Sorted(t, {}) => Sorted(u, {})
      BY <3>2, <3>4, <3>5, SortedEnter
    <3>8. Held(t, X, Plus(t, P, i, k - 1)) => Held(u, X, Plus(u, P, i, k))
      BY <3>2, <3>4, <3>5, HeldEnter
    <3>9. EnteredSoFar(r, u, i, k, X, P)
      BY <3>2, <3>3, <3>6, <3>7, <3>8 DEF EnteredSoFar, SameBooks
    <3>10. F[<<k, t>>] = u
      BY <1>5, <3>2, <3>5
    <3> QED BY <1>4, <3>1, <3>6, <3>9, <3>10
  <2> QED BY <2>1, <2>2 DEF Rounds
<1>7. PICK g : /\ g = [k \in 0..N |-> IF k = 0 THEN r ELSE F[<<k, g[k - 1]>>]]
               /\ \A k \in 0..N : g[k] \in W[k]
  BY <1>6, LoopRuns
<1>8. \A k \in 0..N : \A t \in W[k] : t \in Registries
  BY <1>4
<1>9. g = [k \in 0..Len(r.item[i].names) |-> IF k = 0 THEN r ELSE Enter(g[k - 1], i, k)]
  <2>1. g = [k \in 0..N |-> g[k]]
    BY <1>7, Zenon
  <2>2. ASSUME NEW k \in 0..N
        PROVE  g[k] = IF k = 0 THEN r ELSE Enter(g[k - 1], i, k)
    <3>1. g[k] = IF k = 0 THEN r ELSE F[<<k, g[k - 1]>>]
      BY <1>7, Zenon
    <3>2. k # 0 => k \in 1..N /\ k - 1 \in 0..N
      OBVIOUS
    <3>3. k # 0 => g[k - 1] \in Registries
      BY <1>7, <1>8, <3>2
    <3> QED BY <1>5, <3>1, <3>2, <3>3
  <2> QED BY <1>1, <1>2, <2>1, <2>2
<1>10. \E a : /\ a = [k \in 0..Len(r.item[i].names) |-> IF k = 0 THEN r ELSE Enter(a[k - 1], i, k)]
              /\ EnterNames(r, i) = a[Len(r.item[i].names)]
  BY <1>9, Zenon DEF EnterNames
<1>11. PICK a : /\ a = [k \in 0..Len(r.item[i].names) |-> IF k = 0 THEN r ELSE Enter(a[k - 1], i, k)]
                /\ EnterNames(r, i) = a[Len(r.item[i].names)]
  BY <1>10
<1>12. \A k \in 0..N : a[k] = IF k = 0 THEN r ELSE Enter(a[k - 1], i, k)
  BY <1>1, <1>2, <1>11, Zenon
<1>13. \A k \in 0..N : a[k] \in W[k]
  <2>1. a[0] = r
    BY <1>12
  <2>2. ASSUME NEW k \in 1..N, a[k - 1] \in W[k - 1]
        PROVE  a[k] = F[<<k, a[k - 1]>>]
    <3>1. k \in 0..N /\ k - 1 \in 0..N /\ k # 0
      OBVIOUS
    <3>2. a[k - 1] \in Registries
      BY <1>8, <2>2, <3>1
    <3> QED BY <1>5, <1>12, <3>1, <3>2
  <2> QED BY <1>6, <2>1, <2>2, LoopKeeps
<1>14. EnterNames(r, i) \in W[N]
  <2>1. N \in 0..N /\ EnterNames(r, i) = a[N]
    BY <1>1, <1>2, <1>11
  <2> QED BY <1>13, <2>1
<1>15. EnteredSoFar(r, EnterNames(r, i), i, N, X, P)
  BY <1>4, <1>14
<1> QED BY <1>1, <1>2, <1>15

(* Entering all names of a registered active item. *)
LEMMA EnterNamesOf ==
  ASSUME NEW r \in Registries, NEW i \in Items
  PROVE  LET t == EnterNames(r, i)
         IN  /\ t \in Registries /\ t.item = r.item /\ SameBooks(r, t)
             /\ Sorted(r, {}) => Sorted(t, {})
             /\ \A X, P : /\ i \in ListedIn(r) /\ i \notin X /\ r.item[i].active
                          /\ \A w \in Wheres : \A e \in P[w] : e[1] # i
                          /\ Held(r, X \cup {i}, P)
                          => Held(t, X, P)
<1>1. PICK t : t = EnterNames(r, i)
  OBVIOUS
<1>2. PICK n : n = Len(r.item[i].names)
  OBVIOUS
<1>3. t \in Registries /\ t.item = r.item /\ SameBooks(r, t) /\ (Sorted(r, {}) => Sorted(t, {}))
  <2>1. PICK X, P : i \in X /\ \A w \in Wheres : \A e \in P[w] : e[1] # i
    <3>1. PICK P : P = Nothing
      OBVIOUS
    <3>2. i \in {i} /\ \A w \in Wheres : \A e \in P[w] : e[1] # i
      BY <3>1 DEF Nothing
    <3> QED BY <3>2
  <2>2. EnteredSoFar(r, t, i, n, X, P)
    BY <1>1, <1>2, <2>1, EnterNamesLoop
  <2> QED BY <2>2 DEF EnteredSoFar
<1>4. ASSUME NEW X, NEW P, i \in ListedIn(r), i \notin X, r.item[i].active,
             \A w \in Wheres : \A e \in P[w] : e[1] # i, Held(r, X \cup {i}, P)
      PROVE  Held(t, X, P)
  <2>1. PICK Y : Y = X \cup {i}
    OBVIOUS
  <2>2. EnteredSoFar(r, t, i, n, Y, P)
    BY <1>1, <1>2, <1>4, <2>1, EnterNamesLoop
  <2>3. Held(t, Y, Plus(t, P, i, n))
    BY <1>4, <2>1, <2>2 DEF EnteredSoFar
  <2>4. ListedIn(t) = ListedIn(r)
    BY <1>3 DEF ListedIn, SameBooks
  <2>5. DOMAIN t.item[i].names = 1..n
    <3>1. r.item[i].names \in Seq(AllNames)
      BY Fields
    <3> QED BY <1>2, <1>3, <3>1
  <2>6. \A e : e \in Entered(t, X) <=> e \in Entered(t, Y) \/ e \in {<<i, j>> : j \in 1..n}
    <3>1. \A j \in Items : \A k : <<j, k>> \in Entered(t, X) <=>
              /\ j \in ListedIn(t) /\ j \notin X /\ t.item[j].active
              /\ k \in DOMAIN t.item[j].names
      BY <1>3, EnteredOf
    <3>2. \A j \in Items : \A k : <<j, k>> \in Entered(t, Y) <=>
              /\ j \in ListedIn(t) /\ j \notin Y /\ t.item[j].active
              /\ k \in DOMAIN t.item[j].names
      BY <1>3, EnteredOf
    <3>3. (\A e \in Entered(t, X) : e = <<e[1], e[2]>> /\ e[1] \in Items)
          /\ (\A e \in Entered(t, Y) : e = <<e[1], e[2]>> /\ e[1] \in Items)
      BY <1>3, EnteredOf
    <3>4. ASSUME NEW e \in Entered(t, X) PROVE e \in Entered(t, Y) \/ e \in {<<i, j>> : j \in 1..n}
      <4>1. PICK j, k : j \in Items /\ e = <<j, k>>
        BY <3>3
      <4> QED BY <2>1, <2>5, <3>1, <3>2, <4>1
    <3>5. ASSUME NEW e \in Entered(t, Y) PROVE e \in Entered(t, X)
      <4>1. PICK j, k : j \in Items /\ e = <<j, k>>
        BY <3>3
      <4> QED BY <2>1, <3>1, <3>2, <4>1
    <3>6. \A j \in 1..n : <<i, j>> \in Entered(t, X)
      BY <1>3, <1>4, <2>4, <2>5, <3>1
    <3> QED BY <3>4, <3>5, <3>6
  <2>7. \A w \in Wheres : {e \in Entered(t, Y) : Place(t, e) = w} \cup Plus(t, P, i, n)[w]
                         = {e \in Entered(t, X) : Place(t, e) = w} \cup P[w]
    <3>1. \A w \in Wheres : Plus(t, P, i, n)[w] = P[w] \cup {e \in {<<i, j>> : j \in 1..n} : Place(t, e) = w}
      BY DEF Plus
    <3> QED BY <2>6, <3>1
  <2> QED BY <2>3, <2>7 DEF Held
<1> QED BY <1>1, <1>3, <1>4

------------------------------------------------------------------------------
(* What it does to the order of ufvl *)

(* Deleting entries keeps the order, and is no longer disturbed by that item's.
   *)
LEMMA SortedDel ==
  ASSUME NEW r \in Registries, NEW i \in Items, NEW Y, Sorted(r, Y)
  PROVE  Sorted(delUFV(r, i), Y \ {i})
<1>1. PICK t : t = delUFV(r, i)
  OBVIOUS
<1>2. PICK s \in Seq(EntryType) : s = r.ufvl
  BY Fields
<1>3. PICK S : S = {e \in ToSet(s) : e[1] # i}
  OBVIOUS
<1>4. t.item = r.item /\ t.ufvl = Only(s, S)
  BY <1>1, <1>2, <1>3, DelOf
<1>5. PICK u \in Seq(EntryType) : u = Only(s, S) /\ ToSet(u) = ToSet(s) \cap S
  BY OnlyOf
<1>6. \A e, f : Before(t, e, f) <=> Before(r, e, f)
  BY <1>4 DEF Before, LengthAt
<1>7. ASSUME NEW p \in DOMAIN u, u[p][1] \notin Y \ {i}
      PROVE  u[p][1] \notin Y /\ u[p][2] \in DOMAIN r.item[u[p][1]].names
  <2>1. u[p] \in ToSet(s) /\ u[p] \in S
    BY <1>5 DEF ToSet
  <2>2. PICK a \in DOMAIN s : s[a] = u[p]
    BY <2>1 DEF ToSet
  <2>3. u[p][1] \notin Y
    BY <1>3, <1>7, <2>1
  <2> QED BY <1>2, <2>2, <2>3 DEF Sorted
<1>8. ASSUME NEW p \in DOMAIN u, NEW q \in DOMAIN u, p < q,
             u[p][1] \notin Y \ {i}, u[q][1] \notin Y \ {i}
      PROVE  Before(r, u[p], u[q])
  <2>1. PICK a \in DOMAIN s, b \in DOMAIN s : a < b /\ s[a] = u[p] /\ s[b] = u[q]
    <3>1. p \in DOMAIN Only(s, S) /\ q \in DOMAIN Only(s, S)
      BY <1>5
    <3> QED BY <1>5, <1>8, <3>1, OnlyInOrder
  <2>2. u[p][1] \notin Y /\ u[q][1] \notin Y
    BY <1>7, <1>8
  <2> QED BY <1>2, <2>1, <2>2 DEF Sorted
<1> QED BY <1>1, <1>4, <1>5, <1>6, <1>7, <1>8 DEF Sorted

(* The order does not depend on the items whose entries it does not speak of. *)
LEMMA SortedChange ==
  ASSUME NEW r \in Registries, NEW t \in Registries, NEW Y, Sorted(r, Y), t.ufvl = r.ufvl,
         \A j \in Items \ Y : t.item[j].names = r.item[j].names /\ t.item[j].kind = r.item[j].kind
  PROVE  Sorted(t, Y)
<1>1. \A p \in DOMAIN r.ufvl : r.ufvl[p][1] \in Items
  <2>1. r.ufvl \in Seq(EntryType)
    BY Fields
  <2> QED BY <2>1 DEF EntryType
<1>2. \A e, f : /\ e[1] \in Items \ Y /\ f[1] \in Items \ Y
                /\ Before(r, e, f)
                => Before(t, e, f)
  BY DEF Before, LengthAt
<1> QED BY <1>1, <1>2 DEF Sorted

(* The order is of all entries when none is of the items it does not speak of.
   *)
LEMMA SortedAll ==
  ASSUME NEW r, NEW Y, Sorted(r, Y), \A e \in ToSet(r.ufvl) : e[1] \notin Y
  PROVE  Sorted(r, {})
BY DEF Sorted, ToSet

(* A list in order is in order when some items are left out of account. *)
LEMMA SortedLess ==
  ASSUME NEW r, NEW Y, Sorted(r, {})
  PROVE  Sorted(r, Y)
BY DEF Sorted

(* A registry in which one item has become active or inactive. *)
Turned(r, i, v) == [r EXCEPT !.item[i].active = v]

(* What turning an item active or inactive changes. *)
LEMMA ActiveOf ==
  ASSUME NEW r \in Registries, NEW i \in Items, NEW v \in BOOLEAN
  PROVE  /\ Turned(r, i, v) \in Registries /\ SameBooks(r, Turned(r, i, v))
         /\ Turned(r, i, v).ufv = r.ufv /\ Turned(r, i, v).ufvl = r.ufvl
         /\ \A j \in Items \ {i} : Turned(r, i, v).item[j] = r.item[j]
         /\ Turned(r, i, v).item[i] = [r.item[i] EXCEPT !.active = v]
<1> DEFINE t == [r EXCEPT !.item[i].active = v]
<1>1. t \in Registries
  BY ZenonT(60) DEF Registries, ItemRecords
<1>2. SameBooks(r, t) /\ t.ufv = r.ufv /\ t.ufvl = r.ufvl
  BY DEF Registries, ItemRecords, SameBooks
<1>3. t.item = [r.item EXCEPT ![i] = [r.item[i] EXCEPT !.active = v]]
  BY DEF Registries, ItemRecords
<1>4. r.item \in [Items -> ItemRecords] /\ r.item[i] \in ItemRecords
  BY Fields
<1>5. (\A j \in Items \ {i} : t.item[j] = r.item[j]) /\ t.item[i] = [r.item[i] EXCEPT !.active = v]
  BY <1>3, <1>4
<1> QED BY <1>1, <1>2, <1>5 DEF Turned

(* Items differ in nothing but whether they are active. *)
SameItems(r, t) ==
  \A j \in Items : /\ t.item[j].names = r.item[j].names /\ t.item[j].kind = r.item[j].kind
                   /\ t.item[j].local = r.item[j].local /\ t.item[j].used = r.item[j].used

(* The entries kept aside are of the items that are left out. *)
Belong(P, X) == \A w \in Wheres : \A e \in P[w] : e[1] \in X

(* Deactivating: the item's names are entered no more. *)
LEMMA DeactivateOf ==
  ASSUME NEW r \in Registries, NEW i \in Items
  PROVE  LET t == Deactivate(r, i)
         IN  /\ t \in Registries /\ SameBooks(r, t) /\ SameItems(r, t)
             /\ \A j \in Items \ {i} : t.item[j].active = r.item[j].active
             /\ ~t.item[i].active
             /\ \A Y : Sorted(r, Y) => Sorted(t, Y)
             /\ \A X, P : Held(r, X, P) /\ i \notin X /\ Belong(P, X) => Held(t, X, P)
<1>1. CASE ~r.item[i].active
  <2>1. Deactivate(r, i) = r
    BY <1>1 DEF Deactivate
  <2> QED BY <1>1, <2>1 DEF SameBooks, SameItems
<1>2. CASE r.item[i].active
  <2>0. PICK v \in BOOLEAN : v = FALSE
    OBVIOUS
  <2>1. PICK s : s = Turned(r, i, v)
    OBVIOUS
  <2>2. PICK t : t = delUFV(s, i)
    OBVIOUS
  <2>3. t = Deactivate(r, i)
    BY <1>2, <2>0, <2>1, <2>2 DEF Deactivate, Turned
  <2>4. /\ s \in Registries /\ SameBooks(r, s) /\ s.ufv = r.ufv /\ s.ufvl = r.ufvl
        /\ \A j \in Items \ {i} : s.item[j] = r.item[j]
        /\ s.item[i].active = FALSE
        /\ s.item[i].names = r.item[i].names /\ s.item[i].kind = r.item[i].kind
        /\ s.item[i].local = r.item[i].local /\ s.item[i].used = r.item[i].used
    <3>1. /\ s \in Registries /\ SameBooks(r, s) /\ s.ufv = r.ufv /\ s.ufvl = r.ufvl
          /\ \A j \in Items \ {i} : s.item[j] = r.item[j]
          /\ s.item[i] = [r.item[i] EXCEPT !.active = v]
      BY <2>1, ActiveOf
    <3>2. r.item[i] \in ItemRecords
      BY Fields
    <3> QED BY <2>0, <3>1, <3>2 DEF ItemRecords
  <2>5. t \in Registries /\ t.item = s.item /\ SameBooks(s, t)
    BY <2>2, <2>4, DelOf
  <2>6. SameBooks(r, t)
    BY <2>4, <2>5 DEF SameBooks
  <2>7. /\ SameItems(r, t) /\ SameItems(r, s)
        /\ (\A j \in Items \ {i} : t.item[j].active = r.item[j].active) /\ ~t.item[i].active
    BY <2>4, <2>5 DEF SameItems
  <2>8. ASSUME NEW Y, Sorted(r, Y) PROVE Sorted(t, Y)
    <3>1. Sorted(s, Y)
      BY <2>4, <2>7, <2>8, SortedChange DEF SameItems
    <3>2. Sorted(t, Y \ {i})
      BY <2>2, <2>4, <3>1, SortedDel
    <3> QED BY <3>2 DEF Sorted
  <2>9. ASSUME NEW X, NEW P, Held(r, X, P), i \notin X, Belong(P, X) PROVE Held(t, X, P)
    <3>1. PICK Y : Y = X \cup {i}
      OBVIOUS
    <3>2. PICK Q : Q = Aside(r, X, P, i)
      OBVIOUS
    <3>3. Held(r, Y, Q)
      BY <2>9, <3>1, <3>2, HeldAside
    <3>4. ListedIn(s) = ListedIn(r)
      BY <2>4 DEF ListedIn, SameBooks
    <3>5. ListedIn(r) \subseteq Items
      BY Fields DEF ListedIn, ToSet
    <3>6. Held(s, Y, Q)
      BY <2>4, <3>1, <3>3, <3>4, <3>5, HeldChange
    <3>7. (\A w \in Wheres : \A e \in P[w] : e[1] # i) /\ OfKind(P, i, r.item[i].kind)
      BY <2>9 DEF Belong, OfKind
    <3>8. OfKind(Q, i, s.item[i].kind) /\ Without(Q, i) = [w \in Wheres |-> P[w]]
      BY <2>4, <3>2, <3>7, AsideOf
    <3>9. Held(t, Y \cup {i}, Without(Q, i))
      BY <2>2, <2>4, <3>6, <3>8, HeldDel
    <3>10. Held(t, Y, P)
      <4>1. Y \cup {i} = Y
        BY <3>1
      <4> QED BY <3>8, <3>9, <4>1 DEF Held
    <3> QED BY <2>5, <2>7, <3>1, <3>10, HeldBack
  <2> QED BY <2>3, <2>5, <2>6, <2>7, <2>8, <2>9
<1> QED BY <1>1, <1>2

------------------------------------------------------------------------------
(* Looking up *)

(* The registered items among which a name of an item of that kind is looked up.
   *)
ListedAs(r, kind) ==
  IF kind = "function" THEN ToSet(r.list["function"])
  ELSE ToSet(r.list["variable"]) \cup ToSet(r.list["unit"])

(* The lists one after the other have the registered items and no other. *)
LEMMA ListsOf ==
  ASSUME NEW r \in Registries
  PROVE  /\ ListedIn(r) \subseteq Items
         /\ ListedIn(r) = ToSet(r.list["variable"]) \cup ToSet(r.list["function"]) \cup ToSet(r.list["unit"])
         /\ Lists(r) \in Seq(Items) /\ ToSet(Lists(r)) = ListedIn(r)
         /\ \A k \in Kinds : ToSet(r.list[k]) \subseteq ListedIn(r)
<1>1. PICK v \in Seq(Items), f \in Seq(Items), u \in Seq(Items) :
        v = r.list["variable"] /\ f = r.list["function"] /\ u = r.list["unit"]
  BY Fields DEF Kinds
<1>2. ListedIn(r) = ToSet(v) \cup ToSet(f) \cup ToSet(u)
  BY <1>1 DEF ListedIn, Kinds
<1>3. v \o f \in Seq(Items) /\ ToSet(v \o f) = ToSet(v) \cup ToSet(f)
  BY ConcatSet
<1>4. PICK vf \in Seq(Items) : vf = v \o f /\ ToSet(vf) = ToSet(v) \cup ToSet(f)
  BY <1>3
<1>5. vf \o u \in Seq(Items) /\ ToSet(vf \o u) = ToSet(vf) \cup ToSet(u)
  BY ConcatSet
<1>6. Lists(r) = vf \o u
  BY <1>1, <1>4 DEF Lists
<1>7. ListedIn(r) \subseteq Items
  BY Fields DEF ListedIn, ToSet
<1>8. \A k \in Kinds : ToSet(r.list[k]) \subseteq ListedIn(r)
  BY DEF ListedIn
<1> QED BY <1>1, <1>2, <1>4, <1>5, <1>6, <1>7, <1>8

(* The holder of a name, if there is one, is a registered active item. *)
LEMMA HolderOf ==
  ASSUME NEW r \in Registries, NEW kind, NEW n
  PROVE  \/ /\ Holder(r, kind, n) = NoItem
            /\ \A j \in ListedAs(r, kind) : ~(r.item[j].active /\ hasName(r, j, n))
         \/ /\ Holder(r, kind, n) \in Items /\ Holder(r, kind, n) # NoItem
            /\ Holder(r, kind, n) \in ListedAs(r, kind)
            /\ Holder(r, kind, n) \in ListedIn(r)
            /\ r.item[Holder(r, kind, n)].active /\ hasName(r, Holder(r, kind, n), n)
<1>1. PICK v \in Seq(Items), f \in Seq(Items), u \in Seq(Items) :
        v = r.list["variable"] /\ f = r.list["function"] /\ u = r.list["unit"]
  BY Fields DEF Kinds
<1>2. v \o u \in Seq(Items) /\ ToSet(v \o u) = ToSet(v) \cup ToSet(u)
  BY ConcatSet
<1>3. PICK s \in Seq(Items) : s = IF kind = "function" THEN f ELSE v \o u
  BY <1>2
<1>4. ToSet(s) = ListedAs(r, kind)
  BY <1>1, <1>2, <1>3 DEF ListedAs
<1>5. PICK S : S = Actives(r, n)
  OBVIOUS
<1>6. PICK h : h = Holder(r, kind, n)
  OBVIOUS
<1>7. h = First(s, S)
  BY <1>1, <1>3, <1>5, <1>6 DEF Holder
<1>8. \/ h \in S /\ h \in ToSet(s)
      \/ h = NoItem /\ \A x \in ToSet(s) : x \notin S
  BY <1>7, FirstOf
<1>9. ListedAs(r, kind) \subseteq ListedIn(r) /\ ListedIn(r) \subseteq Items
  BY ListsOf DEF ListedAs, Kinds
<1>10. CASE h \in S /\ h \in ToSet(s)
  <2>1. h \in Items /\ r.item[h].active /\ hasName(r, h, n)
    BY <1>5, <1>10 DEF Actives
  <2> QED BY <1>4, <1>6, <1>9, <1>10, <2>1, NamesAssumption
<1>11. CASE h = NoItem /\ \A x \in ToSet(s) : x \notin S
  <2>1. \A j \in ListedAs(r, kind) : ~(r.item[j].active /\ hasName(r, j, n))
    BY <1>4, <1>5, <1>9, <1>11 DEF Actives
  <2> QED BY <1>6, <1>11, <2>1
<1> QED BY <1>8, <1>10, <1>11

(* What is found by a name is registered, has it, and is active or not. *)
LEMMA GetActiveOf ==
  ASSUME NEW r \in Registries, NEW n, NEW x
  PROVE  LET a == getActiveExpressionItem(r, n, x)
         IN  \/ a = NoItem /\ \A j \in ListedIn(r) : j # x => ~(r.item[j].active /\ hasName(r, j, n))
             \/ a \in Items /\ a \in ListedIn(r) /\ a # x /\ r.item[a].active /\ hasName(r, a, n)
<1>1. PICK s \in Seq(Items) : s = Lists(r) /\ ToSet(s) = ListedIn(r)
  BY ListsOf
<1>2. PICK S : S = Actives(r, n) \ {x}
  OBVIOUS
<1>3. PICK a : a = getActiveExpressionItem(r, n, x)
  OBVIOUS
<1>4. a = First(s, S)
  BY <1>1, <1>2, <1>3 DEF getActiveExpressionItem
<1>5. \/ a \in S /\ a \in ToSet(s)
      \/ a = NoItem /\ \A y \in ToSet(s) : y \notin S
  BY <1>4, FirstOf
<1>6. ListedIn(r) \subseteq Items
  BY ListsOf
<1>7. \A j \in Items : j \in S <=> j # x /\ r.item[j].active /\ hasName(r, j, n)
  BY <1>2 DEF Actives
<1>8. \A j \in S : j \in Items
  BY <1>2 DEF Actives
<1> QED BY <1>1, <1>3, <1>5, <1>6, <1>7, <1>8

(* getInactiveExpressionItem finds a registered inactive item or the null
   pointer. *)
LEMMA GetInactiveOf ==
  ASSUME NEW r \in Registries, NEW n
  PROVE  LET a == getInactiveExpressionItem(r, n)
         IN  \/ a = NoItem
             \/ a \in Items /\ a \in ListedIn(r) /\ ~r.item[a].active
<1>1. PICK s \in Seq(Items) : s = Lists(r) /\ ToSet(s) = ListedIn(r)
  BY ListsOf
<1>2. PICK S : S = {i \in Items : ~r.item[i].active /\ hasName(r, i, n)}
  OBVIOUS
<1>3. PICK a : a = getInactiveExpressionItem(r, n)
  OBVIOUS
<1>4. a = First(s, S)
  BY <1>1, <1>2, <1>3 DEF getInactiveExpressionItem
<1>5. \/ a \in S /\ a \in ToSet(s)
      \/ a = NoItem /\ \A y \in ToSet(s) : y \notin S
  BY <1>4, FirstOf
<1> QED BY <1>1, <1>2, <1>3, <1>5

(* A rival is a registered active item that shares a name; without a rival there
   is no such item. *)
LEMMA RivalOf ==
  ASSUME NEW r \in Registries, NEW i \in Items
  PROVE  \/ /\ Rival(r, i) = NoItem
            /\ \A j \in ListedIn(r) : j # i /\ r.item[j].active => ~ShareName(r, i, j)
         \/ /\ Rival(r, i) \in Items /\ Rival(r, i) # NoItem /\ Rival(r, i) # i
            /\ Rival(r, i) \in ListedIn(r)
            /\ r.item[Rival(r, i)].active /\ ShareName(r, i, Rival(r, i))
<1>1. PICK names \in Seq(AllNames) : names = r.item[i].names
  BY Fields
<1>2. PICK s : s = [k \in DOMAIN names |-> getActiveExpressionItem(r, names[k], i)]
  OBVIOUS
<1>3. \A k \in DOMAIN names :
        \/ s[k] = NoItem /\ \A j \in ListedIn(r) : j # i => ~(r.item[j].active /\ hasName(r, j, names[k]))
        \/ s[k] \in Items /\ s[k] \in ListedIn(r) /\ s[k] # i /\ r.item[s[k]].active /\ hasName(r, s[k], names[k])
  <2> SUFFICES ASSUME NEW k \in DOMAIN names
               PROVE
        \/ s[k] = NoItem /\ \A j \in ListedIn(r) : j # i => ~(r.item[j].active /\ hasName(r, j, names[k]))
        \/ s[k] \in Items /\ s[k] \in ListedIn(r) /\ s[k] # i /\ r.item[s[k]].active /\ hasName(r, s[k], names[k])
    OBVIOUS
  <2>1. PICK n : n = names[k]
    OBVIOUS
  <2>2. s[k] = getActiveExpressionItem(r, n, i)
    BY <1>2, <2>1
  <2>3. \/ s[k] = NoItem /\ \A j \in ListedIn(r) : j # i => ~(r.item[j].active /\ hasName(r, j, n))
        \/ s[k] \in Items /\ s[k] \in ListedIn(r) /\ s[k] # i /\ r.item[s[k]].active /\ hasName(r, s[k], n)
    BY <2>2, GetActiveOf
  <2> QED BY <2>1, <2>3
<1>4. s \in Seq(Items \cup {NoItem})
  <2>1. DOMAIN names = 1..Len(names) /\ Len(names) \in Nat
    OBVIOUS
  <2>2. s = [k \in 1..Len(names) |-> s[k]] /\ \A k \in 1..Len(names) : s[k] \in Items \cup {NoItem}
    BY <1>2, <1>3, <2>1
  <2> QED BY <2>1, <2>2
<1>5. DOMAIN s = DOMAIN names
  BY <1>2
<1>6. PICK v : v = Rival(r, i)
  OBVIOUS
<1>7. v = First(s, Items)
  BY <1>1, <1>2, <1>6 DEF Rival
<1>8. \/ v \in Items /\ v \in ToSet(s)
      \/ v = NoItem /\ \A x \in ToSet(s) : x \notin Items
  BY <1>4, <1>7, FirstOf
<1>9. CASE v \in Items /\ v \in ToSet(s)
  <2>1. PICK k \in DOMAIN names : s[k] = v
    BY <1>5, <1>9 DEF ToSet
  <2>2. v # NoItem
    BY <1>9, NamesAssumption
  <2>3. v \in ListedIn(r) /\ v # i /\ r.item[v].active /\ hasName(r, v, names[k])
    BY <1>3, <2>1, <2>2
  <2>4. names[k] \in ToSet(r.item[i].names)
    BY <1>1, <2>1 DEF ToSet
  <2>5. ShareName(r, i, v)
    BY <2>3, <2>4 DEF ShareName, hasName
  <2> QED BY <1>6, <1>9, <2>2, <2>3, <2>5
<1>10. CASE v = NoItem /\ \A x \in ToSet(s) : x \notin Items
  <2>1. \A k \in DOMAIN names : s[k] \notin Items
    BY <1>5, <1>10 DEF ToSet
  <2>2. ASSUME NEW j \in ListedIn(r), j # i, r.item[j].active, ShareName(r, i, j)
        PROVE  FALSE
    <3>1. PICK n : n \in ToSet(r.item[i].names) /\ n \in ToSet(r.item[j].names)
      BY <2>2 DEF ShareName
    <3>2. PICK k \in DOMAIN names : names[k] = n
      BY <1>1, <3>1 DEF ToSet
    <3>3. hasName(r, j, names[k])
      BY <3>1, <3>2 DEF hasName
    <3> QED BY <1>3, <2>1, <2>2, <3>2, <3>3
  <2> QED BY <1>6, <1>10, <2>2
<1> QED BY <1>8, <1>9, <1>10

------------------------------------------------------------------------------
(* nameChanged, Activate and Deactivate *)

(* An item may be spoken of when none of its names is entered. *)
LEMMA HeldOut ==
  ASSUME NEW r \in Registries, NEW i \in Items, NEW X, NEW P, Held(r, X, P),
         i \notin ListedIn(r) \/ ~r.item[i].active
  PROVE  Held(r, X \cup {i}, P)
<1>1. Entered(r, X) = Entered(r, X \cup {i})
  BY DEF Entered
<1> QED BY <1>1 DEF Held

(* Held depends on what is set aside and not on how it is written. *)
LEMMA HeldSame ==
  ASSUME NEW r, NEW X, NEW P, NEW Q, Held(r, X, P), \A w \in Wheres : P[w] = Q[w]
  PROVE  Held(r, X, Q)
BY DEF Held

(* The names of an item are entered anew. *)
LEMMA NameChangedOf ==
  ASSUME NEW r \in Registries, NEW i \in Items, r.item[i].names # <<>>
  PROVE  LET t == nameChanged(r, i, FALSE)
         IN  /\ t \in Registries /\ t.item = r.item /\ SameBooks(r, t)
             /\ ~r.item[i].active => t = r
             /\ r.item[i].active /\ Sorted(r, {i}) => Sorted(t, {})
             /\ \A X, P : /\ r.item[i].active /\ i \in ListedIn(r) /\ i \notin X
                          /\ OfKind(P, i, r.item[i].kind) /\ Held(r, X \cup {i}, P)
                          => Held(t, X, Without(P, i))
<1>1. CASE ~r.item[i].active
  <2>1. nameChanged(r, i, FALSE) = r
    BY <1>1 DEF nameChanged
  <2> QED BY <1>1, <2>1 DEF SameBooks
<1>2. CASE r.item[i].active
  <2>1. PICK s : s = delUFV(r, i)
    OBVIOUS
  <2>2. PICK t : t = EnterNames(s, i)
    OBVIOUS
  <2>3. nameChanged(r, i, FALSE) = t
    BY <1>2, <2>1, <2>2 DEF nameChanged
  <2>4. s \in Registries /\ s.item = r.item /\ SameBooks(r, s)
    BY <2>1, DelOf
  <2>5. t \in Registries /\ t.item = s.item /\ SameBooks(s, t) /\ (Sorted(s, {}) => Sorted(t, {}))
    BY <2>2, <2>4, EnterNamesOf
  <2>6. SameBooks(r, t)
    BY <2>4, <2>5 DEF SameBooks
  <2>7. Sorted(r, {i}) => Sorted(s, {})
    <3>1. {i} \ {i} = {}
      OBVIOUS
    <3>2. Sorted(r, {i}) => Sorted(s, {i} \ {i})
      BY <2>1, SortedDel
    <3> QED BY <3>1, <3>2
  <2>8. ASSUME NEW X, NEW P, i \in ListedIn(r), i \notin X, OfKind(P, i, r.item[i].kind),
               Held(r, X \cup {i}, P)
        PROVE  Held(t, X, Without(P, i))
    <3>1. PICK Y : Y = X \cup {i}
      OBVIOUS
    <3>2. Held(s, Y \cup {i}, Without(P, i))
      BY <2>1, <2>8, <3>1, HeldDel
    <3>3. Y \cup {i} = X \cup {i}
      BY <3>1
    <3>4. i \in ListedIn(s) /\ s.item[i].active
      BY <1>2, <2>4, <2>8 DEF ListedIn, SameBooks
    <3>5. \A w \in Wheres : \A e \in Without(P, i)[w] : e[1] # i
      BY DEF Without
    <3>6. PICK Q : Q = Without(P, i)
      OBVIOUS
    <3>7. Held(s, X \cup {i}, Q) /\ \A w \in Wheres : \A e \in Q[w] : e[1] # i
      BY <3>2, <3>3, <3>5, <3>6
    <3>8. Held(t, X, Q)
      BY <2>2, <2>4, <2>8, <3>4, <3>7, EnterNamesOf
    <3> QED BY <3>6, <3>8
  <2> QED BY <1>2, <2>3, <2>4, <2>5, <2>6, <2>7, <2>8
<1> QED BY <1>1, <1>2

(* The names of a new item are entered. *)
LEMMA NameChangedNew ==
  ASSUME NEW r \in Registries, NEW i \in Items, r.item[i].names # <<>>
  PROVE  LET t == nameChanged(r, i, TRUE)
         IN  /\ t \in Registries /\ t.item = r.item /\ SameBooks(r, t)
             /\ ~r.item[i].active => t = r
             /\ Sorted(r, {}) => Sorted(t, {})
             /\ \A X, P : /\ i \in ListedIn(r) /\ i \notin X
                          /\ \A w \in Wheres : \A e \in P[w] : e[1] # i
                          /\ Held(r, X \cup {i}, P)
                          => Held(t, X, P)
<1>1. CASE ~r.item[i].active
  <2>1. nameChanged(r, i, TRUE) = r
    BY <1>1 DEF nameChanged
  <2> QED BY <1>1, <2>1, HeldBack DEF SameBooks
<1>2. CASE r.item[i].active
  <2>1. PICK t : t = EnterNames(r, i)
    OBVIOUS
  <2>2. nameChanged(r, i, TRUE) = t
    BY <1>2, <2>1 DEF nameChanged
  <2>3. /\ t \in Registries /\ t.item = r.item /\ SameBooks(r, t) /\ (Sorted(r, {}) => Sorted(t, {}))
        /\ \A X, P : /\ i \in ListedIn(r) /\ i \notin X /\ r.item[i].active
                     /\ \A w \in Wheres : \A e \in P[w] : e[1] # i
                     /\ Held(r, X \cup {i}, P)
                     => Held(t, X, P)
    BY <2>1, EnterNamesOf
  <2> QED BY <1>2, <2>2, <2>3
<1> QED BY <1>1, <1>2

(* Activating: the item is active then, its names are entered, and if it has a
   rival then that gives way. *)
LEMMA ActivateOf ==
  ASSUME NEW r \in Registries, NEW i \in Items, i \in ListedIn(r), r.item[i].names # <<>>
  PROVE  LET t == Activate(r, i)
         IN  /\ t \in Registries /\ SameBooks(r, t) /\ SameItems(r, t)
             /\ t.item[i].active
             /\ Rival(r, i) = NoItem => \A j \in Items \ {i} : t.item[j].active = r.item[j].active
             /\ Sorted(r, {}) => Sorted(t, {})
             /\ \A X, P : /\ Held(r, X, P) /\ i \notin X /\ Belong(P, X)
                          /\ Rival(r, i) = NoItem \/ X = {}
                          => Held(t, X, P)
<1>1. CASE r.item[i].active
  <2>1. Activate(r, i) = r
    BY <1>1 DEF Activate
  <2> QED BY <1>1, <2>1 DEF SameBooks, SameItems
<1>2. CASE ~r.item[i].active
  <2>0. PICK v \in BOOLEAN : v = TRUE
    OBVIOUS
  <2>1. PICK s : s = Turned(r, i, v)
    OBVIOUS
  <2>2. PICK rival : rival = Rival(s, i)
    OBVIOUS
  <2>3. PICK u : u = IF rival = NoItem THEN s ELSE Deactivate(s, rival)
    OBVIOUS
  <2>4. PICK t : t = nameChanged(u, i, FALSE)
    OBVIOUS
  <2>5. t = Activate(r, i)
    BY <1>2, <2>0, <2>1, <2>2, <2>3, <2>4 DEF Activate, Turned
  <2>6. /\ s \in Registries /\ SameBooks(r, s) /\ s.ufv = r.ufv /\ s.ufvl = r.ufvl
        /\ \A j \in Items \ {i} : s.item[j] = r.item[j]
        /\ s.item[i].active
        /\ s.item[i].names = r.item[i].names /\ s.item[i].kind = r.item[i].kind
        /\ s.item[i].local = r.item[i].local /\ s.item[i].used = r.item[i].used
    <3>1. /\ s \in Registries /\ SameBooks(r, s) /\ s.ufv = r.ufv /\ s.ufvl = r.ufvl
          /\ \A j \in Items \ {i} : s.item[j] = r.item[j]
          /\ s.item[i] = [r.item[i] EXCEPT !.active = v]
      BY <2>1, ActiveOf
    <3>2. r.item[i] \in ItemRecords
      BY Fields
    <3> QED BY <2>0, <3>1, <3>2 DEF ItemRecords
  <2>7. SameItems(r, s) /\ ListedIn(s) = ListedIn(r)
    BY <2>6 DEF SameItems, ListedIn, SameBooks
  <2>8. \/ rival = NoItem
        \/ rival \in Items /\ rival # NoItem /\ rival # i /\ rival \in ListedIn(s)
           /\ s.item[rival].active /\ ShareName(s, i, rival)
    BY <2>2, <2>6, RivalOf
  <2>9. Rival(r, i) = NoItem => rival = NoItem
    <3> SUFFICES ASSUME Rival(r, i) = NoItem, rival # NoItem PROVE FALSE
      OBVIOUS
    <3>1. rival \in Items /\ rival # i /\ rival \in ListedIn(r)
          /\ r.item[rival].active /\ ShareName(r, i, rival)
      BY <2>6, <2>7, <2>8 DEF ShareName
    <3>2. ~(Rival(r, i) \in Items)
      BY NamesAssumption
    <3> QED BY <3>1, <3>2, RivalOf
  <2>10. /\ u \in Registries /\ SameBooks(s, u) /\ SameItems(s, u) /\ u.item[i].active
         /\ rival = NoItem => \A j \in Items : u.item[j].active = s.item[j].active
         /\ \A Y : Sorted(s, Y) => Sorted(u, Y)
         /\ \A X, P : Held(s, X, P) /\ (rival = NoItem \/ rival \notin X) /\ Belong(P, X) => Held(u, X, P)
    <3>1. CASE rival = NoItem
      <4>1. u = s
        BY <2>3, <3>1
      <4> QED BY <2>6, <4>1 DEF SameBooks, SameItems
    <3>2. CASE rival # NoItem
      <4>1. rival \in Items /\ rival # i
        BY <2>8, <3>2
      <4>2. u = Deactivate(s, rival)
        BY <2>3, <3>2
      <4>3. /\ u \in Registries /\ SameBooks(s, u) /\ SameItems(s, u)
            /\ \A j \in Items \ {rival} : u.item[j].active = s.item[j].active
            /\ \A Y : Sorted(s, Y) => Sorted(u, Y)
            /\ \A X, P : Held(s, X, P) /\ rival \notin X /\ Belong(P, X) => Held(u, X, P)
        BY <2>6, <4>1, <4>2, DeactivateOf, SMTT(40)
      <4>4. u.item[i].active
        BY <2>6, <4>1, <4>3
      <4> QED BY <3>2, <4>3, <4>4
    <3> QED BY <3>1, <3>2
  <2>11. u.item[i].names # <<>> /\ u.item[i].kind = r.item[i].kind /\ SameItems(r, u) /\ SameBooks(r, u)
    BY <2>6, <2>7, <2>10 DEF SameItems, SameBooks
  <2>12. ListedIn(u) = ListedIn(r)
    BY <2>11 DEF ListedIn, SameBooks
  <2>13. /\ t \in Registries /\ t.item = u.item /\ SameBooks(u, t)
         /\ Sorted(u, {i}) => Sorted(t, {})
         /\ \A X, P : /\ i \notin X
                      /\ OfKind(P, i, u.item[i].kind) /\ Held(u, X \cup {i}, P)
                      => Held(t, X, Without(P, i))
    BY <2>4, <2>10, <2>11, <2>12, NameChangedOf
  <2>14. SameBooks(r, t) /\ SameItems(r, t) /\ t.item[i].active
    BY <2>10, <2>11, <2>13 DEF SameBooks, SameItems
  <2>15. Rival(r, i) = NoItem => \A j \in Items \ {i} : t.item[j].active = r.item[j].active
    BY <2>6, <2>9, <2>10, <2>13
  <2>16. Sorted(r, {}) => Sorted(t, {})
    <3> SUFFICES ASSUME Sorted(r, {}) PROVE Sorted(t, {})
      OBVIOUS
    <3>1. Sorted(s, {})
      BY <2>6, <2>7, SortedChange DEF SameItems
    <3>2. Sorted(u, {i})
      BY <2>10, <3>1, SortedLess
    <3> QED BY <2>13, <3>2
  <2>17. ASSUME NEW X, NEW P, Held(r, X, P), i \notin X, Belong(P, X),
                Rival(r, i) = NoItem \/ X = {}
         PROVE  Held(t, X, P)
    <3>1. PICK Y : Y = X \cup {i}
      OBVIOUS
    <3>2. Held(r, Y, P)
      BY <1>2, <2>17, <3>1, HeldOut
    <3>3. ListedIn(r) \subseteq Items
      BY ListsOf
    <3>4. Held(s, Y, P)
      BY <2>6, <2>7, <3>1, <3>2, <3>3, HeldChange
    <3>5. Belong(P, Y) /\ (rival = NoItem \/ rival \notin Y)
      BY <2>8, <2>9, <2>17, <3>1 DEF Belong
    <3>6. Held(u, Y, P)
      BY <2>10, <3>4, <3>5
    <3>7. OfKind(P, i, u.item[i].kind)
      BY <2>17 DEF OfKind, Belong
    <3>8. Held(t, X, Without(P, i))
      BY <2>13, <2>17, <3>1, <3>6, <3>7
    <3>9. \A w \in Wheres : Without(P, i)[w] = P[w]
      BY <2>17 DEF Without, Belong
    <3> QED BY <3>8, <3>9, HeldSame
  <2> QED BY <2>5, <2>13, <2>14, <2>15, <2>16, <2>17
<1> QED BY <1>1, <1>2

------------------------------------------------------------------------------
(* Restoring: Wake and RestoreFor *)

(* A registry in which some global items have become active, each when no other
   active item had one of its names. *)
Follows(r, t) ==
  /\ t \in Registries /\ SameBooks(r, t) /\ SameItems(r, t)
  /\ \A j \in Items : r.item[j].active => t.item[j].active
  /\ \A j \in Items : t.item[j].active /\ ~r.item[j].active => j \in ListedIn(r) /\ ~r.item[j].local
  /\ Sorted(r, {}) => Sorted(t, {})
  /\ Unique(r) => Unique(t)
  /\ \A X, P : /\ \A x \in X : x \notin ListedIn(r) \/ (x \in Items /\ r.item[x].active)
               /\ Belong(P, X) /\ Held(r, X, P)
               => Held(t, X, P)

(* A registry follows itself. *)
LEMMA FollowsSelf ==
  ASSUME NEW r \in Registries
  PROVE  Follows(r, r)
BY DEF Follows, SameBooks, SameItems

(* What follows what follows, follows. *)
LEMMA FollowsOn ==
  ASSUME NEW r \in Registries, NEW s \in Registries, NEW t, Follows(r, s), Follows(s, t)
  PROVE  Follows(r, t)
<1>1. t \in Registries /\ SameBooks(r, t) /\ SameItems(r, t)
  BY DEF Follows, SameBooks, SameItems
<1>2. ListedIn(s) = ListedIn(r)
  BY DEF ListedIn, Follows, SameBooks
<1>3. \A j \in Items : r.item[j].active => t.item[j].active
  BY DEF Follows
<1>4. \A j \in Items : s.item[j].local = r.item[j].local
  BY DEF Follows, SameItems
<1>5. \A j \in Items : t.item[j].active /\ ~r.item[j].active => j \in ListedIn(r) /\ ~r.item[j].local
  BY <1>2, <1>4 DEF Follows
<1>6. (Sorted(r, {}) => Sorted(t, {})) /\ (Unique(r) => Unique(t))
  BY DEF Follows
<1>7. ASSUME NEW X, NEW P, \A x \in X : x \notin ListedIn(r) \/ (x \in Items /\ r.item[x].active),
             Belong(P, X), Held(r, X, P)
      PROVE  Held(t, X, P)
  <2>1. Held(s, X, P)
    BY <1>7 DEF Follows
  <2>2. \A x \in X : x \notin ListedIn(s) \/ (x \in Items /\ s.item[x].active)
    BY <1>2, <1>7 DEF Follows
  <2> QED BY <1>7, <2>1, <2>2 DEF Follows
<1> QED BY <1>1, <1>3, <1>5, <1>6, <1>7 DEF Follows

(* No registered item is without a name. *)
Named(r) == \A j \in ListedIn(r) : r.item[j].names # <<>>

(* An item is active, or it shares a name with another that is registered. *)
Tried(r, j) == r.item[j].active \/ Shaded(r, j)

(* What follows has the same items registered, and those that were tried stay
   tried. *)
LEMMA FollowsKeeps ==
  ASSUME NEW r \in Registries, NEW t, Follows(r, t)
  PROVE  /\ ListedIn(t) = ListedIn(r) /\ (Named(r) => Named(t))
         /\ \A j \in Items : Tried(r, j) => Tried(t, j)
<1>1. ListedIn(t) = ListedIn(r) /\ ListedIn(r) \subseteq Items
  BY ListsOf DEF ListedIn, Follows, SameBooks
<1>2. Named(r) => Named(t)
  BY <1>1 DEF Named, Follows, SameItems
<1>3. \A j, k \in Items : ShareName(t, j, k) <=> ShareName(r, j, k)
  BY DEF ShareName, Follows, SameItems
<1>4. \A j \in Items : Shaded(r, j) => Shaded(t, j)
  BY <1>1, <1>3 DEF Shaded
<1>5. \A j \in Items : r.item[j].active => t.item[j].active
  BY DEF Follows
<1> QED BY <1>1, <1>2, <1>4, <1>5 DEF Tried

(* One item's turn. *)
Woken(t, j, J) ==
  IF /\ j \in J /\ ~t.item[j].local /\ ~t.item[j].active
     /\ Rival(t, j) = NoItem
  THEN Activate(t, j) ELSE t

(* One step of the loop of Wake: the item is activated or has a rival, and after
   it the item is tried. *)
LEMMA WokenOf ==
  ASSUME NEW r \in Registries, NEW j \in Items, j \in ListedIn(r), Named(r), NEW J
  PROVE  /\ Follows(r, Woken(r, j, J))
         /\ j \in J /\ ~r.item[j].local => Tried(Woken(r, j, J), j)
<1>1. CASE j \in J /\ ~r.item[j].local /\ ~r.item[j].active /\ Rival(r, j) = NoItem
  <2>1. PICK t : t = Activate(r, j)
    OBVIOUS
  <2>2. t = Woken(r, j, J)
    BY <1>1, <2>1 DEF Woken
  <2>3. /\ t \in Registries /\ SameBooks(r, t) /\ SameItems(r, t)
        /\ t.item[j].active
        /\ \A k \in Items \ {j} : t.item[k].active = r.item[k].active
        /\ Sorted(r, {}) => Sorted(t, {})
        /\ \A X, P : Held(r, X, P) /\ j \notin X /\ Belong(P, X) => Held(t, X, P)
    BY <1>1, <2>1, ActivateOf DEF Named
  <2>4. \A X : (\A x \in X : x \notin ListedIn(r) \/ (x \in Items /\ r.item[x].active)) => j \notin X
    BY <1>1
  <2>5. Unique(r) => Unique(t)
    <3>1. \A k \in ListedIn(r) : k # j /\ r.item[k].active => ~ShareName(r, j, k)
      BY <1>1, RivalOf, NamesAssumption
    <3>2. ListedIn(t) = ListedIn(r) /\ ListedIn(r) \subseteq Items
      BY <2>3, ListsOf DEF ListedIn, SameBooks
    <3>3. \A k, l \in Items : /\ ShareName(t, k, l) <=> ShareName(r, k, l)
                              /\ ShareName(r, k, l) <=> ShareName(r, l, k)
                              /\ Class(t, k) = Class(r, k)
      BY <2>3 DEF ShareName, Class, SameItems
    <3> SUFFICES ASSUME Unique(r), NEW k \in ListedIn(r), NEW l \in ListedIn(r),
                        k # l, t.item[k].active, t.item[l].active, Class(t, k) = Class(t, l)
                 PROVE  ~ShareName(t, k, l)
      BY <3>2 DEF Unique
    <3>4. CASE k = j
      BY <2>3, <3>1, <3>2, <3>3, <3>4
    <3>5. CASE l = j
      BY <2>3, <3>1, <3>2, <3>3, <3>5
    <3>6. CASE k # j /\ l # j
      BY <2>3, <3>2, <3>3, <3>6 DEF Unique
    <3> QED BY <3>4, <3>5, <3>6
  <2>6. Follows(r, t)
    BY <1>1, <2>3, <2>4, <2>5 DEF Follows
  <2> QED BY <2>2, <2>3, <2>6 DEF Tried
<1>2. CASE ~(j \in J /\ ~r.item[j].local /\ ~r.item[j].active /\ Rival(r, j) = NoItem)
  <2>1. Woken(r, j, J) = r
    BY <1>2 DEF Woken
  <2>2. ASSUME j \in J, ~r.item[j].local, ~r.item[j].active
        PROVE  Shaded(r, j)
    <3>1. Rival(r, j) # NoItem
      BY <1>2, <2>2
    <3>2. Rival(r, j) \in ListedIn(r) /\ Rival(r, j) # j /\ ShareName(r, j, Rival(r, j))
      BY <3>1, RivalOf
    <3> QED BY <3>2 DEF Shaded
  <2> QED BY <2>1, <2>2, FollowsSelf DEF Tried
<1> QED BY <1>1, <1>2

(* All items of a kind have had their turn. *)
LEMMA WakeOf ==
  ASSUME NEW r \in Registries, NEW kind \in Kinds, NEW J, Named(r)
  PROVE  /\ Follows(r, Wake(r, kind, J))
         /\ \A j \in ToSet(r.list[kind]) : j \in J /\ ~r.item[j].local => Tried(Wake(r, kind, J), j)
<1>1. PICK s \in Seq(Items) : s = r.list[kind]
  BY Fields
<1>2. PICK N \in Nat : N = Len(s) /\ DOMAIN s = 1..N
  OBVIOUS
<1>3. PICK F : F = [p \in (1..N) \X Registries |-> Woken(p[2], s[p[1]], J)]
  OBVIOUS
<1>4. PICK W : W = [k \in 0..N |-> {t \in Registries :
                      /\ Follows(r, t)
                      /\ \A p \in 1..k : s[p] \in J /\ ~r.item[s[p]].local => Tried(t, s[p])}]
  OBVIOUS
<1>5. \A k \in 1..N : \A t \in Registries : F[<<k, t>>] = Woken(t, s[k], J)
  BY <1>3
<1>6. Rounds(W, N, r, F)
  <2>1. r \in W[0]
    BY <1>4, FollowsSelf
  <2>2. ASSUME NEW k \in 1..N, NEW t \in W[k - 1]
        PROVE  F[<<k, t>>] \in W[k]
    <3>1. k - 1 \in 0..N /\ k \in 0..N
      OBVIOUS
    <3>2. /\ Follows(r, t) /\ t \in Registries
          /\ \A p \in 1..(k - 1) : s[p] \in J /\ ~r.item[s[p]].local => Tried(t, s[p])
      BY <1>4, <3>1
    <3>3. PICK j \in Items : j = s[k] /\ j \in ListedIn(r)
      <4>1. s[k] \in ToSet(r.list[kind])
        BY <1>1, <1>2 DEF ToSet
      <4> QED BY <1>2, <4>1, ListsOf
    <3>4. PICK u : u = Woken(t, j, J)
      OBVIOUS
    <3>5. j \in ListedIn(t) /\ Named(t)
      BY <3>2, <3>3, FollowsKeeps
    <3>6. Follows(t, u) /\ (j \in J /\ ~t.item[j].local => Tried(u, j))
      BY <3>2, <3>4, <3>5, WokenOf
    <3>7. Follows(r, u) /\ u \in Registries
      BY <3>2, <3>6, FollowsOn DEF Follows
    <3>8. t.item[j].local = r.item[j].local
      BY <3>2 DEF Follows, SameItems
    <3>9. ASSUME NEW p \in 1..k, s[p] \in J, ~r.item[s[p]].local
          PROVE  Tried(u, s[p])
      <4>1. CASE p = k
        BY <3>3, <3>6, <3>8, <3>9, <4>1
      <4>2. CASE p # k
        <5>1. p \in 1..(k - 1) /\ s[p] \in Items
          BY <1>2, <4>2
        <5>2. Tried(t, s[p])
          BY <3>2, <3>9, <5>1
        <5> QED BY <3>2, <3>6, <5>1, <5>2, FollowsKeeps
      <4> QED BY <4>1, <4>2
    <3>10. F[<<k, t>>] = u
      BY <1>5, <3>2, <3>3, <3>4
    <3> QED BY <1>4, <3>1, <3>7, <3>9, <3>10
  <2> QED BY <2>1, <2>2 DEF Rounds
<1>7. PICK g : /\ g = [k \in 0..N |-> IF k = 0 THEN r ELSE F[<<k, g[k - 1]>>]]
               /\ \A k \in 0..N : g[k] \in W[k]
  BY <1>6, LoopRuns
<1>8. \A k \in 0..N : \A t \in W[k] : t \in Registries
  BY <1>4
<1>9. \A t, j : Woken(t, j, J) = IF /\ j \in J /\ ~t.item[j].local /\ ~t.item[j].active
                                    /\ Rival(t, j) = NoItem
                                 THEN Activate(t, j) ELSE t
  BY DEF Woken
<1>10. g = [k \in 0..Len(r.list[kind]) |-> IF k = 0 THEN r ELSE Woken(g[k - 1], r.list[kind][k], J)]
  <2>1. g = [k \in 0..N |-> g[k]]
    BY <1>7, Zenon
  <2>2. ASSUME NEW k \in 0..N
        PROVE  g[k] = IF k = 0 THEN r ELSE Woken(g[k - 1], s[k], J)
    <3>1. g[k] = IF k = 0 THEN r ELSE F[<<k, g[k - 1]>>]
      BY <1>7, Zenon
    <3>2. k # 0 => k \in 1..N /\ k - 1 \in 0..N
      OBVIOUS
    <3>3. k # 0 => g[k - 1] \in Registries
      BY <1>7, <1>8, <3>2
    <3> QED BY <1>5, <3>1, <3>2, <3>3
  <2> QED BY <1>1, <1>2, <2>1, <2>2
<1>11. \E a : /\ a = [k \in 0..Len(r.list[kind]) |-> IF k = 0 THEN r ELSE Woken(a[k - 1], r.list[kind][k], J)]
              /\ Wake(r, kind, J) = a[Len(r.list[kind])]
  BY <1>10, Zenon DEF Wake, Woken
<1>12. PICK a : /\ a = [k \in 0..Len(r.list[kind]) |-> IF k = 0 THEN r ELSE Woken(a[k - 1], r.list[kind][k], J)]
                /\ Wake(r, kind, J) = a[Len(r.list[kind])]
  BY <1>11
<1>13. \A k \in 0..N : a[k] = IF k = 0 THEN r ELSE Woken(a[k - 1], s[k], J)
  BY <1>1, <1>2, <1>12, Zenon
<1>14. \A k \in 0..N : a[k] \in W[k]
  <2>1. a[0] = r
    BY <1>13
  <2>2. ASSUME NEW k \in 1..N, a[k - 1] \in W[k - 1]
        PROVE  a[k] = F[<<k, a[k - 1]>>]
    <3>1. k \in 0..N /\ k - 1 \in 0..N /\ k # 0
      OBVIOUS
    <3>2. a[k - 1] \in Registries
      BY <1>8, <2>2, <3>1
    <3> QED BY <1>5, <1>13, <3>1, <3>2
  <2> QED BY <1>6, <2>1, <2>2, LoopKeeps
<1>15. PICK t : t = Wake(r, kind, J) /\ t \in W[N]
  <2>1. N \in 0..N /\ Wake(r, kind, J) = a[N]
    BY <1>1, <1>2, <1>12
  <2> QED BY <1>14, <2>1
<1>16. Follows(r, t) /\ \A p \in 1..N : s[p] \in J /\ ~r.item[s[p]].local => Tried(t, s[p])
  <2>1. N \in 0..N
    OBVIOUS
  <2> QED BY <1>4, <1>15, <2>1
<1>17. \A j \in ToSet(r.list[kind]) : \E p \in 1..N : j = s[p]
  BY <1>1, <1>2 DEF ToSet
<1> QED BY <1>15, <1>16, <1>17

(* Restoring what had a name: everything of those kinds that has it is tried. *)
LEMMA RestoreForOf ==
  ASSUME NEW r \in Registries, NEW kind \in Kinds, NEW n, Named(r)
  PROVE  /\ Follows(r, RestoreFor(r, kind, n))
         /\ \A j \in ListedAs(r, kind) :
              hasName(r, j, n) /\ ~r.item[j].local => Tried(RestoreFor(r, kind, n), j)
<1>1. "variable" \in Kinds /\ "function" \in Kinds /\ "unit" \in Kinds
  BY DEF Kinds
<1>2. PICK J : J = {j \in Items : hasName(r, j, n)}
  OBVIOUS
<1>3. \A k \in Kinds : ToSet(r.list[k]) \subseteq Items
  BY ListsOf
<1>4. CASE kind = "function"
  <2>1. RestoreFor(r, kind, n) = Wake(r, kind, J)
    BY <1>2, <1>4 DEF RestoreFor, Restore
  <2>2. /\ Follows(r, Wake(r, kind, J))
        /\ \A j \in ToSet(r.list[kind]) : j \in J /\ ~r.item[j].local => Tried(Wake(r, kind, J), j)
    BY WakeOf
  <2> QED BY <1>2, <1>3, <1>4, <2>1, <2>2 DEF ListedAs
<1>5. CASE kind # "function"
  <2>0. PICK v \in Kinds, u \in Kinds : v = "variable" /\ u = "unit"
    BY <1>1
  <2>1. PICK s : s = Wake(r, v, J)
    OBVIOUS
  <2>2. PICK K : K = {j \in Items : hasName(s, j, n)}
    OBVIOUS
  <2>3. PICK t : t = Wake(s, u, K)
    OBVIOUS
  <2>4. RestoreFor(r, kind, n) = t
    BY <1>2, <1>5, <2>0, <2>1, <2>2, <2>3 DEF RestoreFor, Restore
  <2>5. /\ Follows(r, s)
        /\ \A j \in ToSet(r.list[v]) : j \in J /\ ~r.item[j].local => Tried(s, j)
    BY <2>1, WakeOf
  <2>6. s \in Registries /\ Named(s)
    BY <2>5, FollowsKeeps DEF Follows
  <2>7. /\ Follows(s, t)
        /\ \A j \in ToSet(s.list[u]) : j \in K /\ ~s.item[j].local => Tried(t, j)
    BY <2>3, <2>6, WakeOf
  <2>8. Follows(r, t)
    BY <2>5, <2>6, <2>7, FollowsOn
  <2>9. s.list = r.list /\ K = J /\ \A j \in Items : s.item[j].local = r.item[j].local
    BY <1>2, <2>2, <2>5 DEF Follows, SameBooks, SameItems, hasName
  <2>10. \A j \in Items : Tried(s, j) => Tried(t, j)
    BY <2>6, <2>7, FollowsKeeps
  <2>11. ASSUME NEW j \in ListedAs(r, kind), hasName(r, j, n), ~r.item[j].local
         PROVE  Tried(t, j)
    <3>1. j \in ToSet(r.list[v]) \/ j \in ToSet(r.list[u])
      BY <1>5, <2>0, <2>11 DEF ListedAs
    <3>2. j \in Items
      BY <1>3, <3>1
    <3>3. j \in J
      BY <1>2, <2>11, <3>2
    <3> QED BY <2>5, <2>7, <2>9, <2>10, <2>11, <3>1, <3>2, <3>3
  <2> QED BY <2>4, <2>8, <2>11
<1> QED BY <1>4, <1>5

------------------------------------------------------------------------------
(* Deletion *)

(* An item is taken from its list and noted as deleted. *)
Gone(r, i) ==
  [r EXCEPT !.list[r.item[i].kind] = Only(@, Items \ {i}),
            !.deleted[r.item[i].kind] = @ \cup {i}]

(* What taking an item off its list changes. *)
IsGone(r, i, kind, t) ==
  /\ t \in Registries /\ t.item = r.item /\ t.ufv = r.ufv /\ t.ufvl = r.ufvl
  /\ t.alive = r.alive /\ t.dying = r.dying /\ t.replaced = r.replaced
  /\ ToSet(t.list[kind]) = ToSet(r.list[kind]) \ {i}
  /\ IsInjective(r.list[kind]) => IsInjective(t.list[kind])
  /\ t.deleted[kind] = r.deleted[kind] \cup {i}
  /\ \A k \in Kinds : k # kind => t.list[k] = r.list[k] /\ t.deleted[k] = r.deleted[k]

(* Gone is that change. *)
LEMMA GoneOf ==
  ASSUME NEW r \in Registries, NEW i \in Items
  PROVE  IsGone(r, i, r.item[i].kind, Gone(r, i))
<1>1. PICK K \in Kinds : K = r.item[i].kind
  BY Fields
<1>2. PICK s \in Seq(Items) : s = r.list[K]
  BY Fields
<1>3. PICK S : S = Items \ {i}
  OBVIOUS
<1>4. PICK u \in Seq(Items) :
        /\ u = Only(s, S) /\ ToSet(u) = ToSet(s) \cap S
        /\ IsInjective(s) => IsInjective(u)
  BY OnlyOf
<1>5. PICK D \in SUBSET Items : D = r.deleted[K] \cup {i}
  BY Fields
<1>6. PICK t : t = [r EXCEPT !.list[K] = u, !.deleted[K] = D]
  OBVIOUS
<1>7. Gone(r, i) = [r EXCEPT !.list[r.item[i].kind] = Only(r.list[r.item[i].kind], Items \ {i}),
                             !.deleted[r.item[i].kind] = r.deleted[r.item[i].kind] \cup {i}]
  BY DEF Gone
<1>8. t = Gone(r, i)
  BY <1>1, <1>2, <1>3, <1>4, <1>5, <1>6, <1>7
<1>9. /\ t \in Registries /\ t.item = r.item /\ t.ufv = r.ufv /\ t.ufvl = r.ufvl
      /\ t.alive = r.alive /\ t.dying = r.dying /\ t.replaced = r.replaced
  BY <1>6 DEF Registries
<1>10. /\ t.list[K] = u /\ t.deleted[K] = D
       /\ \A k \in Kinds : k # K => t.list[k] = r.list[k] /\ t.deleted[k] = r.deleted[k]
  BY <1>6 DEF Registries
<1>11. ToSet(u) = ToSet(s) \ {i}
  <2>1. ToSet(s) \subseteq Items
    BY DEF ToSet
  <2> QED BY <1>3, <1>4, <2>1
<1>12. IsGone(r, i, K, t)
  BY <1>2, <1>4, <1>5, <1>9, <1>10, <1>11 DEF IsGone
<1> QED BY <1>1, <1>8, <1>12

(* A deleted item is out of its list, and all that may come back has been tried.
   *)
Deletion(r, i, u) ==
  /\ Follows(Gone(r, i), u)
  /\ \A j \in ListedAs(Gone(r, i), r.item[i].kind) :
       ShareName(r, i, j) /\ ~r.item[j].local => Tried(u, j)

(* expressionItemDeleted takes the item off its list, restores others for each
   of its names, and clears its entries. *)
LEMMA DeletedOf ==
  ASSUME NEW r \in Registries, NEW i \in Items, i \in ToSet(r.list[r.item[i].kind]), Named(Gone(r, i))
  PROVE  \E u : Deletion(r, i, u) /\ expressionItemDeleted(r, i) = delUFV(u, i)
<1>1. PICK kind \in Kinds : kind = r.item[i].kind
  BY Fields
<1>2. PICK names \in Seq(AllNames) : names = r.item[i].names
  BY Fields
<1>3. PICK N \in Nat : N = Len(names) /\ DOMAIN names = 1..N
  OBVIOUS
<1>4. PICK g \in Registries : g = Gone(r, i) /\ g.item = r.item
  <2>1. IsGone(r, i, r.item[i].kind, Gone(r, i))
    BY GoneOf
  <2> QED BY <2>1 DEF IsGone
<1>5. PICK F : F = [p \in (1..N) \X Registries |-> RestoreFor(p[2], kind, names[p[1]])]
  OBVIOUS
<1>6. PICK W : W = [k \in 0..N |-> {t \in Registries :
                      /\ Follows(g, t)
                      /\ \A p \in 1..k : \A j \in ListedAs(g, kind) :
                           hasName(g, j, names[p]) /\ ~g.item[j].local => Tried(t, j)}]
  OBVIOUS
<1>7. \A k \in 1..N : \A t \in Registries : F[<<k, t>>] = RestoreFor(t, kind, names[k])
  BY <1>5
<1>8. ListedAs(g, kind) \subseteq Items
  BY ListsOf DEF ListedAs, Kinds
<1>9. Rounds(W, N, g, F)
  <2>1. g \in W[0]
    BY <1>6, FollowsSelf
  <2>2. ASSUME NEW k \in 1..N, NEW t \in W[k - 1]
        PROVE  F[<<k, t>>] \in W[k]
    <3>1. k - 1 \in 0..N /\ k \in 0..N
      OBVIOUS
    <3>2. /\ Follows(g, t) /\ t \in Registries
          /\ \A p \in 1..(k - 1) : \A j \in ListedAs(g, kind) :
               hasName(g, j, names[p]) /\ ~g.item[j].local => Tried(t, j)
      BY <1>6, <3>1
    <3>3. PICK n : n = names[k]
      OBVIOUS
    <3>4. PICK u : u = RestoreFor(t, kind, n)
      OBVIOUS
    <3>5. Named(t)
      BY <1>4, <3>2, FollowsKeeps
    <3>6. /\ Follows(t, u)
          /\ \A j \in ListedAs(t, kind) : hasName(t, j, n) /\ ~t.item[j].local => Tried(u, j)
      BY <3>2, <3>4, <3>5, RestoreForOf
    <3>7. Follows(g, u) /\ u \in Registries
      BY <3>2, <3>6, FollowsOn DEF Follows
    <3>8. /\ ListedAs(t, kind) = ListedAs(g, kind)
          /\ \A j \in Items : t.item[j].local = g.item[j].local /\ (hasName(t, j, n) <=> hasName(g, j, n))
      BY <3>2 DEF Follows, SameBooks, SameItems, ListedAs, hasName
    <3>9. ASSUME NEW p \in 1..k, NEW j \in ListedAs(g, kind), hasName(g, j, names[p]), ~g.item[j].local
          PROVE  Tried(u, j)
      <4>1. CASE p = k
        BY <1>8, <3>3, <3>6, <3>8, <3>9, <4>1
      <4>2. CASE p # k
        <5>1. p \in 1..(k - 1) /\ j \in Items
          BY <1>8, <4>2
        <5>2. Tried(t, j)
          BY <3>2, <3>9, <5>1
        <5> QED BY <3>2, <3>6, <5>1, <5>2, FollowsKeeps
      <4> QED BY <4>1, <4>2
    <3>10. F[<<k, t>>] = u
      BY <1>7, <3>2, <3>3, <3>4
    <3> QED BY <1>6, <3>1, <3>7, <3>9, <3>10
  <2> QED BY <2>1, <2>2 DEF Rounds
<1>10. PICK h : /\ h = [k \in 0..N |-> IF k = 0 THEN g ELSE F[<<k, h[k - 1]>>]]
                /\ \A k \in 0..N : h[k] \in W[k]
  BY <1>9, LoopRuns
<1>11. \A k \in 0..N : \A t \in W[k] : t \in Registries
  BY <1>6
<1>12. h = [k \in 0..Len(r.item[i].names) |->
              IF k = 0 THEN Gone(r, i) ELSE RestoreFor(h[k - 1], r.item[i].kind, r.item[i].names[k])]
  <2>1. h = [k \in 0..N |-> h[k]]
    BY <1>10, Zenon
  <2>2. ASSUME NEW k \in 0..N
        PROVE  h[k] = IF k = 0 THEN g ELSE RestoreFor(h[k - 1], kind, names[k])
    <3>1. h[k] = IF k = 0 THEN g ELSE F[<<k, h[k - 1]>>]
      BY <1>10, Zenon
    <3>2. k # 0 => k \in 1..N /\ k - 1 \in 0..N
      OBVIOUS
    <3>3. k # 0 => h[k - 1] \in Registries
      BY <1>10, <1>11, <3>2
    <3> QED BY <1>7, <3>1, <3>2, <3>3
  <2> QED BY <1>1, <1>2, <1>3, <1>4, <2>1, <2>2
<1>13. \E a : /\ a = [k \in 0..Len(r.item[i].names) |->
                        IF k = 0 THEN Gone(r, i)
                        ELSE RestoreFor(a[k - 1], r.item[i].kind, r.item[i].names[k])]
              /\ expressionItemDeleted(r, i) = delUFV(a[Len(r.item[i].names)], i)
  BY <1>12, ZenonT(60) DEF expressionItemDeleted, Gone
<1>14. PICK a : /\ a = [k \in 0..Len(r.item[i].names) |->
                        IF k = 0 THEN Gone(r, i)
                        ELSE RestoreFor(a[k - 1], r.item[i].kind, r.item[i].names[k])]
                /\ expressionItemDeleted(r, i) = delUFV(a[Len(r.item[i].names)], i)
  BY <1>13
<1>15. \A k \in 0..N : a[k] = IF k = 0 THEN g ELSE RestoreFor(a[k - 1], kind, names[k])
  BY <1>1, <1>2, <1>3, <1>4, <1>14, Zenon
<1>16. \A k \in 0..N : a[k] \in W[k]
  <2>1. a[0] = g
    BY <1>15
  <2>2. ASSUME NEW k \in 1..N, a[k - 1] \in W[k - 1]
        PROVE  a[k] = F[<<k, a[k - 1]>>]
    <3>1. k \in 0..N /\ k - 1 \in 0..N /\ k # 0
      OBVIOUS
    <3>2. a[k - 1] \in Registries
      BY <1>11, <2>2, <3>1
    <3> QED BY <1>7, <1>15, <3>1, <3>2
  <2> QED BY <1>9, <2>1, <2>2, LoopKeeps
<1>17. PICK u : u = a[N]
  OBVIOUS
<1>18. /\ Follows(g, u)
       /\ \A p \in 1..N : \A j \in ListedAs(g, kind) :
            hasName(g, j, names[p]) /\ ~g.item[j].local => Tried(u, j)
  <2>1. N \in 0..N /\ u \in W[N]
    BY <1>16, <1>17
  <2> QED BY <1>6, <2>1
<1>19. ASSUME NEW j \in ListedAs(g, kind), ShareName(r, i, j), ~r.item[j].local
       PROVE  Tried(u, j)
  <2>1. PICK n : n \in ToSet(names) /\ n \in ToSet(r.item[j].names)
    BY <1>2, <1>19 DEF ShareName
  <2>2. PICK p \in 1..N : names[p] = n
    BY <1>3, <2>1 DEF ToSet
  <2>3. hasName(g, j, names[p]) /\ ~g.item[j].local
    BY <1>4, <1>19, <2>1, <2>2 DEF hasName
  <2> QED BY <1>18, <2>3
<1>20. Deletion(r, i, u)
  BY <1>1, <1>4, <1>18, <1>19 DEF Deletion
<1>21. expressionItemDeleted(r, i) = delUFV(u, i)
  BY <1>2, <1>3, <1>14, <1>17
<1> QED BY <1>20, <1>21

(* What a sound registry has: each item in the one list of its kind. *)
LEMMA SoundOf ==
  ASSUME NEW r \in Registries, Sound(r)
  PROVE  /\ \A k \in Kinds : \A i \in ToSet(r.list[k]) : i \in Items /\ r.item[i].kind = k
         /\ \A i \in ListedIn(r) : /\ i \in Items /\ i \in ToSet(r.list[r.item[i].kind])
                                   /\ r.item[i].kind \in Kinds
                                   /\ i \in r.alive /\ i \notin r.dying /\ r.item[i].names # <<>>
         /\ Named(r)
         /\ \A i \in ListedIn(r), kind \in Kinds :
              i \in ListedAs(r, kind) <=> (Class(r, i) <=> kind = "function")
         /\ \A kind : ListedAs(r, kind) \subseteq ListedIn(r)
<1>1. \A k \in Kinds : \A i \in ToSet(r.list[k]) : i \in Items /\ r.item[i].kind = k
  BY ListsOf DEF Sound
<1>2. \A i \in ListedIn(r) : /\ i \in Items /\ i \in ToSet(r.list[r.item[i].kind])
                             /\ r.item[i].kind \in Kinds
                             /\ i \in r.alive /\ i \notin r.dying /\ r.item[i].names # <<>>
  BY <1>1 DEF Sound, ListedIn
<1>3. \A i \in ListedIn(r), kind \in Kinds :
        i \in ListedAs(r, kind) <=> (Class(r, i) <=> kind = "function")
  BY <1>1, <1>2 DEF ListedAs, Class, Kinds
<1>4. \A kind : ListedAs(r, kind) \subseteq ListedIn(r)
  BY ListsOf DEF ListedAs, Kinds
<1> QED BY <1>1, <1>2, <1>3, <1>4 DEF Named

(* Apart, said of pairs of registered items. *)
LEMMA ApartOf ==
  ASSUME NEW r \in Registries, Sound(r)
  PROVE  Apart(r) <=> \A f, i \in ListedIn(r) : Class(r, f) /\ ~Class(r, i) => ~ShareName(r, f, i)
<1>1. PICK v \in Seq(Items), u \in Seq(Items) : v = r.list["variable"] /\ u = r.list["unit"]
  BY Fields DEF Kinds
<1>2. ToSet(v \o u) = ToSet(v) \cup ToSet(u)
  BY ConcatSet
<1>3. \A i \in ListedIn(r) : /\ Class(r, i) <=> i \in ToSet(r.list["function"])
                             /\ ~Class(r, i) <=> i \in ToSet(v) \/ i \in ToSet(u)
  BY <1>1, SoundOf DEF Class, Kinds
<1>4. ListedIn(r) = ToSet(v) \cup ToSet(r.list["function"]) \cup ToSet(u)
  BY <1>1, ListsOf
<1>5. Apart(r) <=> \A f \in ToSet(r.list["function"]), i \in ToSet(v) \cup ToSet(u) : ~ShareName(r, f, i)
  BY <1>1, <1>2 DEF Apart
<1> QED BY <1>3, <1>4, <1>5

(* The memory of an item is given back. *)
LEMMA FreeOf ==
  ASSUME NEW r \in Registries, NEW i \in Items
  PROVE  LET t == Free(r, i)
         IN  /\ t \in Registries /\ t.list = r.list /\ t.deleted = r.deleted
             /\ t.ufv = r.ufv /\ t.ufvl = r.ufvl /\ t.replaced = r.replaced
             /\ t.alive = r.alive \ {i} /\ t.dying = r.dying \ {i}
             /\ \A j \in Items \ {i} : t.item[j] = r.item[j]
<1>1. None \in ItemRecords
  BY DEF None, ItemRecords, Kinds, Used
<1>2. PICK x \in ItemRecords : x = None
  BY <1>1
<1>3. PICK A \in SUBSET Items, D \in SUBSET Items : A = r.alive \ {i} /\ D = r.dying \ {i}
  BY Fields
<1>4. PICK t : t = [r EXCEPT !.alive = A, !.dying = D, !.item[i] = x]
  OBVIOUS
<1>5. t = Free(r, i)
  BY <1>2, <1>3, <1>4 DEF Free
<1>6. /\ t \in Registries /\ t.list = r.list /\ t.deleted = r.deleted
      /\ t.ufv = r.ufv /\ t.ufvl = r.ufvl /\ t.replaced = r.replaced
      /\ t.alive = A /\ t.dying = D
  BY <1>4 DEF Registries
<1>7. \A j \in Items \ {i} : t.item[j] = r.item[j]
  BY <1>4 DEF Registries
<1> QED BY <1>3, <1>5, <1>6, <1>7

(* An item that waits for its last reference. *)
Buried(r, i) == [r EXCEPT !.dying = @ \cup {i}]

(* What leaving an item to its references changes. *)
LEMMA BuriedOf ==
  ASSUME NEW r \in Registries, NEW i \in Items
  PROVE  LET t == Buried(r, i)
         IN  /\ t \in Registries /\ t.list = r.list /\ t.deleted = r.deleted
             /\ t.ufv = r.ufv /\ t.ufvl = r.ufvl /\ t.replaced = r.replaced
             /\ t.alive = r.alive /\ t.dying = r.dying \cup {i} /\ t.item = r.item
<1>1. PICK D \in SUBSET Items : D = r.dying \cup {i}
  BY Fields
<1>2. PICK t : t = [r EXCEPT !.dying = D]
  OBVIOUS
<1>3. t = Buried(r, i)
  BY <1>1, <1>2 DEF Buried
<1>4. /\ t \in Registries /\ t.list = r.list /\ t.deleted = r.deleted
      /\ t.ufv = r.ufv /\ t.ufvl = r.ufvl /\ t.replaced = r.replaced
      /\ t.alive = r.alive /\ t.dying = D /\ t.item = r.item
  BY <1>2 DEF Registries
<1> QED BY <1>1, <1>3, <1>4

(* What is left after an item was destroyed: all others, and of those none is
   worse off. *)
Destroyed(r, i, t) ==
  /\ t \in Registries /\ Sound(t) /\ t.replaced = r.replaced
  /\ \A k \in Kinds : ToSet(t.list[k]) = ToSet(r.list[k]) \ {i}
  /\ \A k \in Kinds : t.deleted[k] \subseteq r.deleted[k] \cup {i}
  /\ \A j \in Items \ {i} :
       /\ t.item[j].names = r.item[j].names /\ t.item[j].kind = r.item[j].kind
       /\ t.item[j].local = r.item[j].local /\ t.item[j].used = r.item[j].used
       /\ r.item[j].active => t.item[j].active
       /\ t.item[j].active /\ ~r.item[j].active => j \in ListedIn(r) /\ ~r.item[j].local
  /\ t.alive \subseteq r.alive /\ r.alive \ {i} \subseteq t.alive /\ t.dying \subseteq r.dying \cup {i}
  /\ Sorted(r, {}) => Sorted(t, {})
  /\ Unique(r) => Unique(t)
  /\ Apart(r) => Apart(t)
  /\ \A S : Apart(r) /\ ShadowedBy(r, S) => ShadowedBy(t, S)
  /\ \A X, P : /\ \A x \in X : x \notin ListedIn(r) \/ (x \in Items /\ r.item[x].active)
               /\ i \notin X /\ Belong(P, X) /\ Held(r, X, P)
               => Held(t, X, P)

(* Out of the list, and out of the tables. *)
LEMMA DeletedIsDestroyed ==
  ASSUME NEW r \in Registries, NEW i \in Items, i \in ListedIn(r), Sound(r)
  PROVE  /\ Destroyed(r, i, expressionItemDeleted(r, i))
         /\ \A e \in ToSet(expressionItemDeleted(r, i).ufvl) : e[1] # i
         /\ expressionItemDeleted(r, i).alive = r.alive /\ expressionItemDeleted(r, i).dying = r.dying
<1>1. PICK kind \in Kinds : kind = r.item[i].kind /\ i \in ToSet(r.list[kind])
  BY SoundOf
<1>2. PICK g : g = Gone(r, i) /\ IsGone(r, i, kind, g)
  BY <1>1, GoneOf
<1>3. /\ g \in Registries /\ g.item = r.item /\ g.ufv = r.ufv /\ g.ufvl = r.ufvl
      /\ g.alive = r.alive /\ g.dying = r.dying /\ g.replaced = r.replaced
      /\ ToSet(g.list[kind]) = ToSet(r.list[kind]) \ {i}
      /\ IsInjective(r.list[kind]) => IsInjective(g.list[kind])
      /\ g.deleted[kind] = r.deleted[kind] \cup {i}
      /\ \A k \in Kinds : k # kind => g.list[k] = r.list[k] /\ g.deleted[k] = r.deleted[k]
  BY <1>2 DEF IsGone
<1>4. \A k \in Kinds : ToSet(g.list[k]) = ToSet(r.list[k]) \ {i}
  BY <1>1, <1>3, SoundOf
<1>5. ListedIn(g) = ListedIn(r) \ {i} /\ ListedIn(r) \subseteq Items
  <2>1. ListedIn(r) \subseteq Items
    BY ListsOf
  <2>2. \A j : j \in ListedIn(g) <=> \E k \in Kinds : j \in ToSet(r.list[k]) /\ j # i
    BY <1>4 DEF ListedIn
  <2>3. \A j : j \in ListedIn(r) <=> \E k \in Kinds : j \in ToSet(r.list[k])
    BY DEF ListedIn
  <2> QED BY <2>1, <2>2, <2>3
<1>6. Sound(g)
  <2>1. \A k \in Kinds : IsInjective(g.list[k])
    BY <1>3 DEF Sound
  <2>2. ASSUME NEW k \in Kinds, NEW j \in ToSet(g.list[k])
        PROVE  /\ g.item[j].kind = k /\ g.item[j].names # <<>>
               /\ j \in g.alive /\ j \notin g.dying /\ j \notin g.deleted[k]
    BY <1>3, <1>4 DEF Sound
  <2> QED BY <1>3, <2>1, <2>2 DEF Sound
<1>7. Named(g)
  BY <1>3, <1>6, SoundOf
<1>8. PICK u : Deletion(r, i, u) /\ expressionItemDeleted(r, i) = delUFV(u, i)
  BY <1>1, <1>2, <1>7, DeletedOf
<1>9. Follows(g, u) /\ u \in Registries /\ SameBooks(g, u) /\ SameItems(g, u) /\ ListedIn(u) = ListedIn(g)
  BY <1>2, <1>3, <1>8, FollowsKeeps DEF Deletion, Follows
<1>10. PICK t : t = delUFV(u, i)
  OBVIOUS
<1>11. t \in Registries /\ t.item = u.item /\ SameBooks(u, t)
  BY <1>9, <1>10, DelOf
<1>12. /\ t.list = g.list /\ t.deleted = g.deleted /\ t.alive = r.alive /\ t.dying = r.dying
       /\ t.replaced = r.replaced /\ ListedIn(t) = ListedIn(g) /\ SameItems(r, t)
  BY <1>3, <1>9, <1>11 DEF SameBooks, SameItems, ListedIn
<1>13. Sound(t)
  <2>1. ASSUME NEW k \in Kinds, NEW j \in ToSet(t.list[k])
        PROVE  /\ t.item[j].kind = k /\ t.item[j].names # <<>>
               /\ j \in t.alive /\ j \notin t.dying /\ j \notin t.deleted[k]
    <3>1. j \in ToSet(g.list[k]) /\ j \in Items
      BY <1>5, <1>12, <2>1 DEF ListedIn
    <3>2. /\ g.item[j].kind = k /\ g.item[j].names # <<>>
          /\ j \in g.alive /\ j \notin g.dying /\ j \notin g.deleted[k]
      BY <1>6, <3>1 DEF Sound
    <3> QED BY <1>3, <1>12, <3>1, <3>2 DEF SameItems
  <2>2. (\A k \in Kinds : IsInjective(t.list[k])) /\ t.dying \subseteq t.alive
    BY <1>6, <1>12 DEF Sound
  <2> QED BY <2>1, <2>2 DEF Sound
<1>14. /\ \A j \in Items : r.item[j].active => t.item[j].active
       /\ \A j \in Items : t.item[j].active /\ ~r.item[j].active => j \in ListedIn(r) /\ ~r.item[j].local
  BY <1>3, <1>5, <1>9, <1>11 DEF Follows
<1>15. \A e \in ToSet(t.ufvl) : e[1] # i
  <2>1. PICK s \in Seq(EntryType) : s = u.ufvl
    BY <1>9, Fields
  <2>2. PICK S : S = {e \in ToSet(s) : e[1] # i}
    OBVIOUS
  <2>3. t.ufvl = Only(s, S)
    BY <1>9, <1>10, <2>1, <2>2, DelOf
  <2>4. ToSet(Only(s, S)) = ToSet(s) \cap S
    BY OnlyOf
  <2> QED BY <2>2, <2>3, <2>4
<1>16. Sorted(r, {}) => Sorted(t, {})
  <2> SUFFICES ASSUME Sorted(r, {}) PROVE Sorted(t, {})
    OBVIOUS
  <2>1. Sorted(g, {})
    BY <1>3, SortedChange
  <2>2. Sorted(u, {})
    BY <1>9, <2>1 DEF Follows
  <2>3. Sorted(t, {} \ {i})
    BY <1>9, <1>10, <2>2, SortedDel
  <2> QED BY <2>3 DEF Sorted
<1>17. \A j, k \in Items : ShareName(t, j, k) <=> ShareName(r, j, k)
  BY <1>12 DEF ShareName, SameItems
<1>18. \A j \in Items : Class(t, j) <=> Class(r, j)
  BY <1>12 DEF Class, SameItems
<1>19. Unique(r) => Unique(t)
  <2> SUFFICES ASSUME Unique(r) PROVE Unique(t)
    OBVIOUS
  <2>1. Unique(g)
    BY <1>3, <1>5 DEF Unique, Class, ShareName
  <2>2. Unique(u)
    BY <1>9, <2>1 DEF Follows
  <2>3. ListedIn(t) = ListedIn(u)
    BY <1>9, <1>12
  <2> QED BY <1>11, <2>2, <2>3 DEF Unique, Class, ShareName
<1>20. Apart(r) => Apart(t)
  <2>1. ListedIn(t) \subseteq ListedIn(r) /\ ListedIn(t) \subseteq Items
    BY <1>5, <1>12
  <2> QED BY <1>11, <1>13, <1>17, <1>18, <2>1, ApartOf
<1>21. ASSUME NEW S, Apart(r), ShadowedBy(r, S) PROVE ShadowedBy(t, S)
  <2> SUFFICES ASSUME NEW j \in ListedIn(t), ~t.item[j].active
               PROVE  ~t.item[j].local /\ (Shaded(t, j) \/ ToSet(t.item[j].names) \cap S # {})
    BY DEF ShadowedBy
  <2>1. j \in Items /\ j \in ListedIn(r) /\ j # i
    BY <1>5, <1>12
  <2>2. ~r.item[j].active /\ t.item[j].local = r.item[j].local /\ t.item[j].names = r.item[j].names
    BY <1>12, <1>14, <2>1 DEF SameItems
  <2>3. ~r.item[j].local /\ (Shaded(r, j) \/ ToSet(r.item[j].names) \cap S # {})
    BY <1>21, <2>1, <2>2 DEF ShadowedBy
  <2>4. ASSUME Shaded(r, j) PROVE Shaded(t, j)
    <3>1. PICK k \in ListedIn(r) \ {j} : ShareName(r, j, k)
      BY <2>4 DEF Shaded
    <3>2. CASE k # i
      <4>1. k \in ListedIn(t) \ {j} /\ k \in Items
        BY <1>5, <1>12, <3>1, <3>2
      <4> QED BY <1>17, <2>1, <3>1, <4>1 DEF Shaded
    <3>3. CASE k = i
      <4>1. ShareName(r, i, j) /\ ShareName(r, j, i)
        BY <3>1, <3>3 DEF ShareName
      <4>2. Class(r, i) <=> Class(r, j)
        BY <1>21, <2>1, <4>1, ApartOf
      <4>3. Class(r, i) <=> kind = "function"
        BY <1>1 DEF Class
      <4>4. Class(g, j) <=> Class(r, j)
        BY <1>3 DEF Class
      <4>5. j \in ListedIn(g)
        BY <1>5, <2>1
      <4>6. j \in ListedAs(g, kind)
        BY <1>3, <1>6, <4>2, <4>3, <4>4, <4>5, SoundOf
      <4>7. Tried(u, j)
        BY <1>1, <1>2, <1>8, <2>3, <4>1, <4>6 DEF Deletion
      <4>8. Shaded(u, j)
        BY <1>11, <4>7 DEF Tried
      <4>9. ListedIn(t) = ListedIn(u)
        BY <1>9, <1>12
      <4> QED BY <1>11, <4>8, <4>9 DEF Shaded, ShareName
    <3> QED BY <3>2, <3>3
  <2> QED BY <2>2, <2>3, <2>4
<1>22. ASSUME NEW X, NEW P, \A x \in X : x \notin ListedIn(r) \/ (x \in Items /\ r.item[x].active),
              i \notin X, Belong(P, X), Held(r, X, P)
       PROVE  Held(t, X, P)
  <2>1. PICK Y : Y = X \cup {i}
    OBVIOUS
  <2>2. PICK Q : Q = Aside(r, X, P, i)
    OBVIOUS
  <2>3. Held(r, Y, Q)
    BY <1>22, <2>1, <2>2, HeldAside
  <2>4. Held(g, Y, Q)
    <3>1. ListedIn(g) \ Y = ListedIn(r) \ Y
      BY <1>5, <2>1
    <3> QED BY <1>3, <2>3, <3>1, HeldChange
  <2>5. (\A w \in Wheres : \A e \in P[w] : e[1] # i) /\ OfKind(P, i, kind)
    BY <1>22 DEF Belong, OfKind
  <2>6. /\ \A w \in Wheres : \A e \in Q[w] : e \in P[w] \/ e[1] = i
        /\ OfKind(Q, i, kind)
        /\ Without(Q, i) = [w \in Wheres |-> P[w]]
    BY <1>1, <2>2, <2>5, AsideOf
  <2>7. Belong(Q, Y)
    BY <1>22, <2>1, <2>6 DEF Belong
  <2>8. \A x \in Y : x \notin ListedIn(g) \/ (x \in Items /\ g.item[x].active)
    BY <1>3, <1>5, <1>22, <2>1
  <2>9. Held(u, Y, Q)
    BY <1>9, <2>4, <2>7, <2>8 DEF Follows
  <2>10. u.item[i].kind = kind
    BY <1>1, <1>3, <1>9 DEF SameItems
  <2>11. Held(t, Y \cup {i}, Without(Q, i))
    BY <1>9, <1>10, <2>6, <2>9, <2>10, HeldDel
  <2>12. Y \cup {i} = X \cup {i}
    BY <2>1
  <2>13. Held(t, X \cup {i}, P)
    BY <2>6, <2>11, <2>12, HeldSame
  <2> QED BY <1>5, <1>11, <1>12, <2>13, HeldBack
<1>23. \A k \in Kinds : ToSet(t.list[k]) = ToSet(r.list[k]) \ {i}
  BY <1>4, <1>12
<1>24. \A k \in Kinds : t.deleted[k] \subseteq r.deleted[k] \cup {i}
  BY <1>3, <1>12
<1>25. Destroyed(r, i, t)
  BY <1>11, <1>12, <1>13, <1>14, <1>16, <1>19, <1>20, <1>21, <1>22, <1>23, <1>24 DEF Destroyed, SameItems
<1> QED BY <1>8, <1>10, <1>12, <1>15, <1>25

(* A registry in which nothing changed but an item that is not registered. *)
ElseSame(r, t, i) ==
  /\ t \in Registries /\ t.list = r.list /\ t.deleted = r.deleted
  /\ t.ufv = r.ufv /\ t.ufvl = r.ufvl
  /\ \A j \in Items \ {i} : t.item[j] = r.item[j]
  /\ r.alive \ {i} \subseteq t.alive /\ t.dying \subseteq r.dying \cup {i} /\ t.dying \subseteq t.alive

(* What is at an address that is not registered matters to no part of the
   invariant. *)
LEMMA ElseSameOf ==
  ASSUME NEW r \in Registries, NEW t, NEW i \in Items, i \notin ListedIn(r), Sound(r), ElseSame(r, t, i)
  PROVE  /\ Sound(t) /\ ListedIn(t) = ListedIn(r)
         /\ Sorted(r, {i}) => Sorted(t, {i})
         /\ Unique(r) => Unique(t)
         /\ Apart(r) => Apart(t)
         /\ \A S : ShadowedBy(r, S) => ShadowedBy(t, S)
         /\ \A X, P : Held(r, X, P) => Held(t, X, P)
<1>1. /\ t \in Registries /\ t.list = r.list /\ t.deleted = r.deleted
      /\ t.ufv = r.ufv /\ t.ufvl = r.ufvl
      /\ \A j \in Items \ {i} : t.item[j] = r.item[j]
      /\ r.alive \ {i} \subseteq t.alive /\ t.dying \subseteq r.dying \cup {i} /\ t.dying \subseteq t.alive
  BY DEF ElseSame
<1>2. ListedIn(t) = ListedIn(r) /\ ListedIn(r) \subseteq Items
  BY <1>1, ListsOf DEF ListedIn
<1>3. \A j \in ListedIn(r) : j \in Items \ {i} /\ t.item[j] = r.item[j]
  BY <1>1, <1>2
<1>4. Sound(t)
  <2>1. ASSUME NEW k \in Kinds, NEW j \in ToSet(r.list[k])
        PROVE  /\ t.item[j].kind = k /\ t.item[j].names # <<>>
               /\ j \in t.alive /\ j \notin t.dying /\ j \notin t.deleted[k]
    <3>1. j \in ListedIn(r)
      BY <2>1, ListsOf
    <3>2. /\ r.item[j].kind = k /\ r.item[j].names # <<>>
          /\ j \in r.alive /\ j \notin r.dying /\ j \notin r.deleted[k]
      BY <2>1 DEF Sound
    <3> QED BY <1>1, <1>3, <3>1, <3>2
  <2> QED BY <1>1, <2>1 DEF Sound
<1>5. Sorted(r, {i}) => Sorted(t, {i})
  BY <1>1, SortedChange
<1>6. \A j, k \in ListedIn(r) : /\ ShareName(t, j, k) <=> ShareName(r, j, k)
                                /\ Class(t, j) <=> Class(r, j)
  BY <1>3 DEF ShareName, Class
<1>7. Unique(r) => Unique(t)
  BY <1>2, <1>3 DEF Unique, Class, ShareName
<1>8. Apart(r) => Apart(t)
  BY <1>1, <1>2, <1>4, <1>6, ApartOf
<1>9. \A j \in ListedIn(r) : Shaded(r, j) => Shaded(t, j)
  BY <1>2, <1>6 DEF Shaded
<1>10. \A S : ShadowedBy(r, S) => ShadowedBy(t, S)
  BY <1>2, <1>3, <1>9 DEF ShadowedBy
<1>11. \A X, P : Held(r, X, P) => Held(t, X, P)
  BY <1>1, <1>2, <1>3, HeldChange
<1> QED BY <1>2, <1>4, <1>5, <1>7, <1>8, <1>10, <1>11

(* Destroying an item. *)
LEMMA DestroyOf ==
  ASSUME NEW r \in Registries, NEW i \in Items, i \in ListedIn(r), Sound(r)
  PROVE  Destroyed(r, i, destroy(r, i))
<1>1. PICK s : s = expressionItemDeleted(r, i)
  OBVIOUS
<1>2. /\ Destroyed(r, i, s) /\ \A e \in ToSet(s.ufvl) : e[1] # i
      /\ s.alive = r.alive /\ s.dying = r.dying
  BY <1>1, DeletedIsDestroyed
<1>3. s \in Registries /\ Sound(s)
  BY <1>2 DEF Destroyed
<1>4. i \notin ListedIn(s)
  BY <1>2 DEF Destroyed, ListedIn
<1>5. i \in r.alive /\ r.dying \subseteq r.alive
  BY SoundOf DEF Sound
<1>6. ASSUME NEW t, ElseSame(s, t, i), t.replaced = s.replaced, t.alive \subseteq s.alive
      PROVE  Destroyed(r, i, t)
  <2>1. /\ Sound(t) /\ ListedIn(t) = ListedIn(s)
        /\ Sorted(s, {i}) => Sorted(t, {i})
        /\ Unique(s) => Unique(t)
        /\ Apart(s) => Apart(t)
        /\ \A S : ShadowedBy(s, S) => ShadowedBy(t, S)
        /\ \A X, P : Held(s, X, P) => Held(t, X, P)
    BY <1>3, <1>4, <1>6, ElseSameOf
  <2>2. /\ t \in Registries /\ t.list = s.list /\ t.deleted = s.deleted /\ t.ufvl = s.ufvl
        /\ \A j \in Items \ {i} : t.item[j] = s.item[j]
        /\ s.alive \ {i} \subseteq t.alive /\ t.dying \subseteq s.dying \cup {i}
    BY <1>6 DEF ElseSame
  <2>3. Sorted(r, {}) => Sorted(t, {})
    <3>1. \A e \in ToSet(t.ufvl) : e[1] \notin {i}
      BY <1>2, <2>2
    <3>2. Sorted(r, {}) => Sorted(s, {i})
      BY <1>2, SortedLess DEF Destroyed
    <3>3. PICK Y : Y = {i}
      OBVIOUS
    <3> QED BY <2>1, <3>1, <3>2, <3>3, SortedAll
  <2>4. /\ Unique(r) => Unique(t)
        /\ Apart(r) => Apart(t)
        /\ \A S : Apart(r) /\ ShadowedBy(r, S) => ShadowedBy(t, S)
    BY <1>2, <2>1 DEF Destroyed
  <2>5. ASSUME NEW X, NEW P, \A x \in X : x \notin ListedIn(r) \/ (x \in Items /\ r.item[x].active),
               i \notin X, Belong(P, X), Held(r, X, P)
        PROVE  Held(t, X, P)
    <3>1. Held(s, X, P)
      BY <1>2, <2>5 DEF Destroyed
    <3> QED BY <2>1, <3>1
  <2>6. /\ \A k \in Kinds : ToSet(t.list[k]) = ToSet(r.list[k]) \ {i}
        /\ \A k \in Kinds : t.deleted[k] \subseteq r.deleted[k] \cup {i}
    BY <1>2, <2>2 DEF Destroyed
  <2>7. \A j \in Items \ {i} :
          /\ t.item[j].names = r.item[j].names /\ t.item[j].kind = r.item[j].kind
          /\ t.item[j].local = r.item[j].local /\ t.item[j].used = r.item[j].used
          /\ r.item[j].active => t.item[j].active
          /\ t.item[j].active /\ ~r.item[j].active => j \in ListedIn(r) /\ ~r.item[j].local
    BY <1>2, <2>2 DEF Destroyed
  <2>8. t.alive \subseteq r.alive /\ r.alive \ {i} \subseteq t.alive /\ t.dying \subseteq r.dying \cup {i}
        /\ t.replaced = r.replaced
    <3>1. s.replaced = r.replaced
      BY <1>2 DEF Destroyed
    <3> QED BY <1>2, <1>6, <2>2, <3>1
  <2> QED BY <2>1, <2>2, <2>3, <2>4, <2>5, <2>6, <2>7, <2>8 DEF Destroyed
<1>7. CASE s.item[i].used = "referrer"
  <2>1. destroy(r, i) = s
    BY <1>1, <1>7 DEF destroy, Dropped
  <2> QED BY <1>2, <2>1
<1>8. CASE s.item[i].used = "counted"
  <2>1. PICK t : t = Buried(s, i)
    OBVIOUS
  <2>2. destroy(r, i) = t
    BY <1>1, <1>8, <2>1 DEF destroy, Dropped, Buried
  <2>3. /\ t \in Registries /\ t.list = s.list /\ t.deleted = s.deleted
        /\ t.ufv = s.ufv /\ t.ufvl = s.ufvl /\ t.replaced = s.replaced
        /\ t.alive = s.alive /\ t.dying = s.dying \cup {i} /\ t.item = s.item
    BY <1>3, <2>1, BuriedOf
  <2>4. ElseSame(s, t, i)
    BY <1>2, <1>5, <2>3 DEF ElseSame
  <2> QED BY <1>6, <2>2, <2>3, <2>4
<1>9. CASE s.item[i].used # "referrer" /\ s.item[i].used # "counted"
  <2>1. PICK t : t = Free(s, i)
    OBVIOUS
  <2>2. destroy(r, i) = t
    BY <1>1, <1>9, <2>1 DEF destroy, Dropped
  <2>3. /\ t \in Registries /\ t.list = s.list /\ t.deleted = s.deleted
        /\ t.ufv = s.ufv /\ t.ufvl = s.ufvl /\ t.replaced = s.replaced
        /\ t.alive = s.alive \ {i} /\ t.dying = s.dying \ {i}
        /\ \A j \in Items \ {i} : t.item[j] = s.item[j]
    BY <1>3, <2>1, FreeOf
  <2>4. ElseSame(s, t, i)
    BY <1>2, <1>5, <2>3 DEF ElseSame
  <2> QED BY <1>6, <2>2, <2>3, <2>4
<1> QED BY <1>7, <1>8, <1>9

------------------------------------------------------------------------------
(* A free number for a name *)

(* The elements of a sequence are finitely many. *)
LEMMA ElementsFinite ==
  ASSUME NEW T, NEW s \in Seq(T)
  PROVE  IsFiniteSet(ToSet(s))
<1>1. PICK n \in Nat : n = Len(s) /\ DOMAIN s = 1..n
  OBVIOUS
<1>2. IsFiniteSet(1..n)
  <2>1. 1 \in Int /\ n \in Int
    OBVIOUS
  <2> QED BY <2>1, FS_Interval
<1>3. PICK f : f = [k \in 1..n |-> s[k]]
  OBVIOUS
<1>4. f \in Surjection(1..n, ToSet(s))
  BY <1>1, <1>3 DEF Surjection, ToSet
<1> QED BY <1>2, <1>4, FS_Surjection

(* There are finitely many names. *)
LEMMA GivenFinite ==
  ASSUME NEW r \in Registries
  PROVE  IsFiniteSet(NamesGiven(r)) /\ Cardinality(NamesGiven(r)) \in Nat
<1>1. PICK G : G = {ToSet(r.item[i].names) : i \in Items}
  OBVIOUS
<1>2. PICK f : f = [i \in Items |-> ToSet(r.item[i].names)]
  OBVIOUS
<1>3. f \in Surjection(Items, G)
  BY <1>1, <1>2 DEF Surjection
<1>4. IsFiniteSet(G)
  BY <1>3, NamesAssumption, FS_Surjection
<1>5. \A T \in G : IsFiniteSet(T)
  BY <1>1, Fields, ElementsFinite
<1>6. IsFiniteSet(UNION G)
  BY <1>4, <1>5, FS_UNION
<1>7. NamesGiven(r) = UNION G
  BY <1>1 DEF NamesGiven
<1> QED BY <1>6, <1>7, FS_CardinalityType

(* Names that end in different numbers are different. *)
LEMMA NumbersDiffer ==
  ASSUME NEW n \in AllNames, NEW k \in Nat, NEW l \in Nat, Append(n, k) = Append(n, l)
  PROVE  k = l
<1>1. n \in Seq(BaseNames \cup Nat)
  BY DEF AllNames
<1>2. Append(n, k)[Len(n) + 1] = k /\ Append(n, l)[Len(n) + 1] = l
  BY <1>1
<1> QED BY <1>2

(* One of the numbers that are tried gives a name that no other item has. *)
LEMMA NumberedOf ==
  ASSUME NEW r \in Registries, NEW i \in Items, NEW n \in AllNames
  PROVE  /\ Numbered(r, i, n) \in AllNames
         /\ Holder(r, r.item[i].kind, Numbered(r, i, n)) \in {NoItem, i}
<1>1. PICK C \in Nat : C = Cardinality(NamesGiven(r)) /\ IsFiniteSet(NamesGiven(r))
  BY GivenFinite
<1>2. PICK kind : kind = r.item[i].kind
  OBVIOUS
<1>3. PICK T : T = {k \in 2..C + 2 : Holder(r, kind, Append(n, k)) \in {NoItem, i}}
  OBVIOUS
<1>4. T # {}
  <2> SUFFICES ASSUME T = {} PROVE FALSE
    OBVIOUS
  <2>1. PICK f : f = [k \in 2..C + 2 |-> Append(n, k)]
    OBVIOUS
  <2>2. ASSUME NEW k \in 2..C + 2
        PROVE  Append(n, k) \in NamesGiven(r)
    <3>1. PICK m : m = Append(n, k)
      OBVIOUS
    <3>2. Holder(r, kind, m) \notin {NoItem, i}
      BY <1>3, <3>1
    <3>3. Holder(r, kind, m) \in Items /\ hasName(r, Holder(r, kind, m), m)
      BY <3>2, HolderOf
    <3> QED BY <3>1, <3>3 DEF hasName, NamesGiven
  <2>3. f \in [2..C + 2 -> NamesGiven(r)]
    BY <2>1, <2>2
  <2>4. IsFiniteSet(2..C + 2) /\ Cardinality(2..C + 2) = C + 1
    <3>1. 2 \in Int /\ C + 2 \in Int /\ ~(2 > C + 2) /\ (C + 2) - 2 + 1 = C + 1
      OBVIOUS
    <3>2. PICK a \in Int, b \in Int : a = 2 /\ b = C + 2
      BY <3>1
    <3>3. IsFiniteSet(a..b) /\ Cardinality(a..b) = IF a > b THEN 0 ELSE b - a + 1
      BY FS_Interval
    <3> QED BY <3>1, <3>2, <3>3
  <2>5. Cardinality(NamesGiven(r)) < Cardinality(2..C + 2)
    BY <1>1, <2>4
  <2>6. PICK k \in 2..C + 2, l \in 2..C + 2 : k # l /\ f[k] = f[l]
    BY <1>1, <2>3, <2>4, <2>5, FS_PigeonHole
  <2>7. Append(n, k) = Append(n, l) /\ k \in Nat /\ l \in Nat
    BY <2>1, <2>6
  <2> QED BY <2>6, <2>7, NumbersDiffer
<1>5. T \subseteq Nat
  BY <1>3
<1>6. PICK m \in T : m = Min(T)
  BY <1>4, <1>5, MinIsLeast
<1>7. Numbered(r, i, n) = Append(n, m)
  BY <1>1, <1>2, <1>3, <1>6 DEF Numbered
<1>8. Append(n, m) \in AllNames
  <2>1. n \in Seq(BaseNames \cup Nat) /\ n # <<>> /\ n[1] \in BaseNames
    BY DEF AllNames
  <2>2. m \in BaseNames \cup Nat
    BY <1>5, <1>6
  <2>3. PICK u : u = Append(n, m)
    OBVIOUS
  <2>4. u \in Seq(BaseNames \cup Nat) /\ Len(u) = Len(n) + 1 /\ (\A p \in 1..Len(n) : u[p] = n[p]) /\ Len(n) \in Nat
    BY <2>1, <2>2, <2>3, AppendOf
  <2>5. 1 \in 1..Len(n)
    BY <2>1
  <2>6. u # <<>> /\ u[1] \in BaseNames
    BY <2>1, <2>4, <2>5
  <2> QED BY <2>3, <2>4, <2>6 DEF AllNames
<1>9. Holder(r, kind, Append(n, m)) \in {NoItem, i}
  BY <1>3, <1>6
<1> QED BY <1>2, <1>7, <1>8, <1>9

------------------------------------------------------------------------------
(* Names that are taken *)

(* An item keeps everything but being active. *)
SameRecord(r, t, j) ==
  /\ t.item[j].names = r.item[j].names /\ t.item[j].kind = r.item[j].kind
  /\ t.item[j].local = r.item[j].local /\ t.item[j].used = r.item[j].used

(* What getName may do to the others on behalf of an item. *)
Cleared(r, i, n, t) ==
  /\ t \in Registries /\ Sound(t) /\ (r.replaced => t.replaced)
  /\ SameRecord(r, t, i) /\ t.item[i].active = r.item[i].active
  /\ \A k \in Kinds : /\ ToSet(t.list[k]) \subseteq ToSet(r.list[k])
                      /\ i \in ToSet(r.list[k]) => i \in ToSet(t.list[k])
  /\ i \in r.alive => i \in t.alive
  /\ i \notin r.dying => i \notin t.dying
  /\ \A j \in ListedIn(t) : SameRecord(r, t, j)
  /\ ~t.replaced => \A j \in ListedIn(t) : t.item[j].active => r.item[j].active
  /\ Sorted(r, {}) => Sorted(t, {})
  /\ t.list = r.list => \A Y : Sorted(r, Y) => Sorted(t, Y)
  /\ Unique(r) => Unique(t)
  /\ Apart(r) => Apart(t)
  /\ \A S : n \in S /\ Apart(r) /\ ShadowedBy(r, S) => ShadowedBy(t, S)
  /\ \A X, P : X \subseteq {i} /\ Belong(P, X) /\ Held(r, X, P) => Held(t, X, P)

(* A name is clear for an item already when nothing was done. *)
LEMMA ClearedSelf ==
  ASSUME NEW r \in Registries, Sound(r), NEW i \in Items, NEW n
  PROVE  Cleared(r, i, n, r)
BY DEF Cleared, SameRecord

(* The history of an item having taken a name from a local one. *)
Replaced(r) == [r EXCEPT !.replaced = TRUE]

(* What that history changes. *)
LEMMA ReplacedOf ==
  ASSUME NEW r \in Registries
  PROVE  LET t == Replaced(r)
         IN  /\ t \in Registries /\ t.list = r.list /\ t.deleted = r.deleted
             /\ t.ufv = r.ufv /\ t.ufvl = r.ufvl /\ t.item = r.item
             /\ t.alive = r.alive /\ t.dying = r.dying /\ t.replaced
BY DEF Replaced, Registries

(* Evicting the holder of a name: a local one is destroyed, any other becomes
   inactive. *)
LEMMA EvictOf ==
  ASSUME NEW r \in Registries, Sound(r), NEW i \in Items, NEW n, NEW h \in Items,
         h \in ListedIn(r), h # i, r.item[h].active, hasName(r, h, n)
  PROVE  /\ Cleared(r, i, n, Evict(r, i, h))
         /\ r.item[i].active /\ ~Evict(r, i, h).replaced => ~Evict(r, i, h).item[h].active
<1>1. CASE ~r.item[i].active
  <2>1. Evict(r, i, h) = r
    BY <1>1 DEF Evict
  <2> QED BY <1>1, <2>1, ClearedSelf
<1>2. CASE r.item[i].active /\ r.item[h].local
  <2>1. PICK s : s = destroy(r, h) /\ Destroyed(r, h, s)
    BY DestroyOf
  <2>2. PICK t : t = Replaced(s)
    OBVIOUS
  <2>3. Evict(r, i, h) = t
    BY <1>2, <2>1, <2>2 DEF Evict, Replaced
  <2>4. s \in Registries /\ Sound(s) /\ \A k \in Kinds : ToSet(s.list[k]) = ToSet(r.list[k]) \ {h}
    BY <2>1 DEF Destroyed
  <2>5. /\ t \in Registries /\ t.list = s.list /\ t.deleted = s.deleted
        /\ t.ufv = s.ufv /\ t.ufvl = s.ufvl /\ t.item = s.item
        /\ t.alive = s.alive /\ t.dying = s.dying /\ t.replaced
    BY <2>2, <2>4, ReplacedOf
  <2>6. h \notin ListedIn(s) /\ ListedIn(s) \subseteq ListedIn(r) /\ ListedIn(s) \subseteq Items
    <3>1. \A j : j \in ListedIn(s) <=> \E k \in Kinds : j \in ToSet(r.list[k]) /\ j # h
      BY <2>4 DEF ListedIn
    <3>2. \A j : j \in ListedIn(r) <=> \E k \in Kinds : j \in ToSet(r.list[k])
      BY DEF ListedIn
    <3>3. \A k \in Kinds : ToSet(r.list[k]) \subseteq Items
      BY ListsOf
    <3> QED BY <3>1, <3>2, <3>3
  <2>7. ElseSame(s, t, h)
    BY <2>4, <2>5 DEF ElseSame, Sound
  <2>8. /\ Sound(t) /\ ListedIn(t) = ListedIn(s)
        /\ Unique(s) => Unique(t)
        /\ Apart(s) => Apart(t)
        /\ \A S : ShadowedBy(s, S) => ShadowedBy(t, S)
        /\ \A X, P : Held(s, X, P) => Held(t, X, P)
    BY <2>4, <2>6, <2>7, ElseSameOf
  <2>9. Sorted(s, {}) => Sorted(t, {})
    <3>1. \A e, f : Before(t, e, f) <=> Before(s, e, f)
      BY <2>5 DEF Before, LengthAt
    <3> QED BY <2>5, <3>1 DEF Sorted
  <2>10. /\ \A j \in Items \ {h} : SameRecord(r, t, j)
         /\ \A j \in Items \ {h} : r.item[j].active => t.item[j].active
    BY <2>1, <2>5 DEF Destroyed, SameRecord
  <2>11. t.item[i].active = r.item[i].active
    BY <1>2, <2>5, <2>10, Fields
  <2>12. t.list # r.list
    <3>1. PICK k \in Kinds : h \in ToSet(r.list[k])
      BY DEF ListedIn
    <3> QED BY <2>4, <2>5, <3>1
  <2>13. \A j \in ListedIn(t) : SameRecord(r, t, j)
    BY <2>6, <2>8, <2>10
  <2>14. /\ Sorted(r, {}) => Sorted(t, {})
         /\ Unique(r) => Unique(t)
         /\ Apart(r) => Apart(t)
         /\ \A S : Apart(r) /\ ShadowedBy(r, S) => ShadowedBy(t, S)
    BY <2>1, <2>8, <2>9 DEF Destroyed
  <2>15. ASSUME NEW X, NEW P, X \subseteq {i}, Belong(P, X), Held(r, X, P)
         PROVE  Held(t, X, P)
    <3>1. (\A x \in X : x \notin ListedIn(r) \/ (x \in Items /\ r.item[x].active)) /\ h \notin X
      BY <1>2, <2>15
    <3>2. Held(s, X, P)
      BY <2>1, <2>15, <3>1 DEF Destroyed
    <3> QED BY <2>8, <3>2
  <2>16. /\ i \in r.alive => i \in t.alive
         /\ i \notin r.dying => i \notin t.dying
    BY <2>1, <2>5 DEF Destroyed
  <2>17. \A k \in Kinds : /\ ToSet(t.list[k]) \subseteq ToSet(r.list[k])
                          /\ i \in ToSet(r.list[k]) => i \in ToSet(t.list[k])
    BY <2>4, <2>5
  <2>18. SameRecord(r, t, i)
    BY <2>10
  <2>19. Cleared(r, i, n, t)
    BY <2>5, <2>8, <2>11, <2>12, <2>13, <2>14, <2>15, <2>16, <2>17, <2>18 DEF Cleared
  <2> QED BY <2>3, <2>5, <2>19
<1>3. CASE r.item[i].active /\ ~r.item[h].local
  <2>1. PICK t : t = Deactivate(r, h)
    OBVIOUS
  <2>2. Evict(r, i, h) = t
    BY <1>3, <2>1 DEF Evict
  <2>3. /\ t \in Registries /\ SameBooks(r, t) /\ SameItems(r, t)
        /\ \A j \in Items \ {h} : t.item[j].active = r.item[j].active
        /\ ~t.item[h].active
        /\ \A Y : Sorted(r, Y) => Sorted(t, Y)
        /\ \A X, P : Held(r, X, P) /\ h \notin X /\ Belong(P, X) => Held(t, X, P)
    BY <2>1, DeactivateOf
  <2>4. ListedIn(t) = ListedIn(r) /\ ListedIn(r) \subseteq Items
    <3>1. t.list = r.list
      BY <2>3, Zenon DEF SameBooks
    <3>2. ListedIn(r) \subseteq Items
      BY ListsOf
    <3> QED BY <3>1, <3>2 DEF ListedIn
  <2>5. Sound(t)
    <3>1. \A k \in Kinds : \A j \in ToSet(r.list[k]) : j \in Items
      BY SoundOf
    <3> QED BY <2>3, <3>1 DEF Sound, SameBooks, SameItems
  <2>6. /\ \A j, k \in Items : ShareName(t, j, k) <=> ShareName(r, j, k)
        /\ \A j \in Items : Class(t, j) = Class(r, j)
        /\ \A j \in Items : t.item[j].active => r.item[j].active
    BY <2>3 DEF ShareName, Class, SameItems
  <2>7. Unique(r) => Unique(t)
    BY <2>4, <2>6 DEF Unique
  <2>8. Apart(r) => Apart(t)
    BY <2>3, <2>4, <2>5, <2>6, ApartOf
  <2>9. ASSUME NEW S, n \in S, ShadowedBy(r, S) PROVE ShadowedBy(t, S)
    <3> SUFFICES ASSUME NEW j \in ListedIn(r), ~t.item[j].active
                 PROVE  ~t.item[j].local /\ (Shaded(t, j) \/ ToSet(t.item[j].names) \cap S # {})
      BY <2>4 DEF ShadowedBy
    <3>1. j \in Items /\ t.item[j].local = r.item[j].local /\ t.item[j].names = r.item[j].names
      BY <2>3, <2>4 DEF SameItems
    <3>2. CASE j = h
      BY <1>3, <2>9, <3>1, <3>2 DEF hasName
    <3>3. CASE j # h
      <4>1. ~r.item[j].local /\ (Shaded(r, j) \/ ToSet(r.item[j].names) \cap S # {})
        BY <2>3, <2>9, <3>1, <3>3 DEF ShadowedBy
      <4>2. Shaded(r, j) => Shaded(t, j)
        BY <2>4, <2>6, <3>1 DEF Shaded
      <4> QED BY <3>1, <4>1, <4>2
    <3> QED BY <3>2, <3>3
  <2>10. ASSUME NEW X, NEW P, X \subseteq {i}, Belong(P, X), Held(r, X, P)
         PROVE  Held(t, X, P)
    <3>1. h \notin X
      BY <2>10
    <3> QED BY <2>3, <2>10, <3>1
  <2>11. \A j \in Items : SameRecord(r, t, j)
    BY <2>3 DEF SameRecord, SameItems
  <2>12. t.list = r.list /\ t.alive = r.alive /\ t.dying = r.dying /\ t.replaced = r.replaced
    BY <2>3 DEF SameBooks
  <2>13. t.item[i].active = r.item[i].active
    BY <2>3
  <2>14. Cleared(r, i, n, t)
    BY <2>3, <2>4, <2>5, <2>6, <2>7, <2>8, <2>9, <2>10, <2>11, <2>12, <2>13 DEF Cleared
  <2> QED BY <2>2, <2>3, <2>14
<1> QED BY <1>1, <1>2, <1>3

(* The name that getName gives, and what it does for it. *)
LEMMA GetNameOf ==
  ASSUME NEW r \in Registries, Sound(r), NEW i \in Items, NEW n \in AllNames, NEW force \in BOOLEAN
  PROVE  LET g == getName(r, i, n, force)
         IN  /\ Cleared(r, i, n, g.reg) /\ g.name \in AllNames
             /\ force = TRUE => g.name = n
             /\ force = FALSE => g.reg = r
             /\ Unique(r) /\ r.item[i].active /\ i \notin ListedIn(r) /\ ~g.reg.replaced
                => \A j \in ListedIn(g.reg) : g.reg.item[j].active /\ Class(r, j) = Class(r, i)
                                                => ~hasName(g.reg, j, g.name)
<1>1. PICK kind \in Kinds : kind = r.item[i].kind
  BY Fields
<1>2. PICK h : h = Holder(r, kind, n)
  OBVIOUS
<1>3. \A j \in ListedIn(r) : j \in ListedAs(r, kind) <=> Class(r, j) = Class(r, i)
  <2>1. Class(r, i) <=> kind = "function"
    BY <1>1 DEF Class
  <2>2. \A j : Class(r, j) \in BOOLEAN
    BY DEF Class
  <2> QED BY <2>1, <2>2, SoundOf
<1>4. \A m : /\ Holder(r, kind, m) \in {NoItem, i} /\ i \notin ListedIn(r)
             => \A j \in ListedIn(r) : r.item[j].active /\ Class(r, j) = Class(r, i) => ~hasName(r, j, m)
  <2> SUFFICES ASSUME NEW m, Holder(r, kind, m) \in {NoItem, i}, i \notin ListedIn(r),
                      NEW j \in ListedIn(r), r.item[j].active, Class(r, j) = Class(r, i)
               PROVE  ~hasName(r, j, m)
    OBVIOUS
  <2>1. Holder(r, kind, m) = NoItem /\ \A k \in ListedAs(r, kind) : ~(r.item[k].active /\ hasName(r, k, m))
    BY HolderOf
  <2> QED BY <1>3, <2>1
<1>5. CASE h \in {NoItem, i}
  <2>1. getName(r, i, n, force) = [reg |-> r, name |-> n]
    BY <1>1, <1>2, <1>5 DEF getName
  <2>2. getName(r, i, n, force).reg = r /\ getName(r, i, n, force).name = n
    BY <2>1
  <2> QED BY <1>2, <1>4, <1>5, <2>2, ClearedSelf
<1>6. CASE h \notin {NoItem, i} /\ force = TRUE
  <2>1. PICK t : t = Evict(r, i, h)
    OBVIOUS
  <2>2. getName(r, i, n, force) = [reg |-> t, name |-> n]
    BY <1>1, <1>2, <1>6, <2>1 DEF getName
  <2>3. getName(r, i, n, force).reg = t /\ getName(r, i, n, force).name = n
    BY <2>2
  <2>4. h \in Items /\ h \in ListedIn(r) /\ h # i /\ r.item[h].active /\ hasName(r, h, n)
        /\ h \in ListedAs(r, kind)
    BY <1>2, <1>6, HolderOf
  <2>5. /\ Cleared(r, i, n, t)
        /\ r.item[i].active /\ ~t.replaced => ~t.item[h].active
    BY <2>1, <2>4, EvictOf
  <2>6. ASSUME Unique(r), r.item[i].active, i \notin ListedIn(r), ~t.replaced,
               NEW j \in ListedIn(t), t.item[j].active, Class(r, j) = Class(r, i)
        PROVE  ~hasName(t, j, n)
    <3>1. j \in ListedIn(r) /\ r.item[j].active /\ SameRecord(r, t, j)
      BY <2>5, <2>6 DEF Cleared, ListedIn
    <3>2. j # h
      BY <2>5, <2>6
    <3>3. Class(r, h) = Class(r, i)
      BY <1>3, <2>4
    <3>4. ~ShareName(r, j, h)
      BY <2>4, <2>6, <3>1, <3>2, <3>3 DEF Unique
    <3> QED BY <2>4, <3>1, <3>4 DEF ShareName, SameRecord, hasName
  <2> QED BY <1>6, <2>3, <2>5, <2>6
<1>7. CASE h \notin {NoItem, i} /\ force = FALSE
  <2>1. PICK m : m = Numbered(r, i, n)
    OBVIOUS
  <2>2. m \in AllNames /\ Holder(r, kind, m) \in {NoItem, i}
    BY <1>1, <2>1, NumberedOf
  <2>3. getName(r, i, n, force) = [reg |-> r, name |-> m]
    BY <1>1, <1>2, <1>7, <2>1 DEF getName
  <2>4. getName(r, i, n, force).reg = r /\ getName(r, i, n, force).name = m
    BY <2>3
  <2> QED BY <1>4, <1>7, <2>2, <2>4, ClearedSelf
<1> QED BY <1>5, <1>6, <1>7

(* An item with other names. *)
Renamed(r, i, ns) == [r EXCEPT !.item[i].names = ns]

(* What giving an item other names changes. *)
LEMMA RenamedOf ==
  ASSUME NEW r \in Registries, NEW i \in Items, NEW ns \in Seq(AllNames)
  PROVE  /\ Renamed(r, i, ns) \in Registries /\ SameBooks(r, Renamed(r, i, ns))
         /\ Renamed(r, i, ns).ufv = r.ufv /\ Renamed(r, i, ns).ufvl = r.ufvl
         /\ \A j \in Items \ {i} : Renamed(r, i, ns).item[j] = r.item[j]
         /\ Renamed(r, i, ns).item[i].names = ns
         /\ Renamed(r, i, ns).item[i].kind = r.item[i].kind
         /\ Renamed(r, i, ns).item[i].local = r.item[i].local
         /\ Renamed(r, i, ns).item[i].used = r.item[i].used
         /\ Renamed(r, i, ns).item[i].active = r.item[i].active
<1> DEFINE t == [r EXCEPT !.item[i].names = ns]
<1>1. t \in Registries
  BY ZenonT(60) DEF Registries, ItemRecords
<1>2. SameBooks(r, t) /\ t.ufv = r.ufv /\ t.ufvl = r.ufvl
  BY DEF Registries, ItemRecords, SameBooks
<1>3. t.item = [r.item EXCEPT ![i] = [r.item[i] EXCEPT !.names = ns]]
  BY DEF Registries, ItemRecords
<1>4. r.item \in [Items -> ItemRecords] /\ r.item[i] \in ItemRecords
  BY Fields
<1>5. (\A j \in Items \ {i} : t.item[j] = r.item[j]) /\ t.item[i] = [r.item[i] EXCEPT !.names = ns]
  BY <1>3, <1>4
<1>6. PICK x : x = t.item[i]
  OBVIOUS
<1>7. /\ x.names = ns /\ x.kind = r.item[i].kind /\ x.local = r.item[i].local
      /\ x.used = r.item[i].used /\ x.active = r.item[i].active
  BY <1>4, <1>5, <1>6 DEF ItemRecords
<1> HIDE DEF t
<1>8. /\ t.item[i].names = ns /\ t.item[i].kind = r.item[i].kind /\ t.item[i].local = r.item[i].local
      /\ t.item[i].used = r.item[i].used /\ t.item[i].active = r.item[i].active
  BY <1>6, <1>7
<1>9. Renamed(r, i, ns) = t
  BY Zenon DEF t, Renamed
<1> QED BY <1>1, <1>2, <1>5, <1>8, <1>9

(* One name changed. *)
LEMMA OneName ==
  ASSUME NEW r \in Registries, NEW i \in Items, NEW k \in DOMAIN r.item[i].names, NEW n \in AllNames,
         NEW ns, ns = [r.item[i].names EXCEPT ![k] = n]
  PROVE  /\ ns \in Seq(AllNames) /\ Len(ns) = Len(r.item[i].names)
         /\ DOMAIN ns = DOMAIN r.item[i].names
         /\ ns[k] = n /\ \A p \in DOMAIN ns \ {k} : ns[p] = r.item[i].names[p]
<1>1. PICK s \in Seq(AllNames) : s = r.item[i].names
  BY Fields
<1>2. ns \in Seq(AllNames) /\ Len(ns) = Len(s) /\ DOMAIN ns = DOMAIN s
      /\ ns[k] = n /\ \A p \in DOMAIN ns \ {k} : ns[p] = s[p]
  BY <1>1
<1> QED BY <1>1, <1>2

(* What is so after k names of an item that is not registered were checked. *)
Checked(r, t, i, k, force) ==
  /\ t \in Registries /\ Sound(t) /\ (r.replaced => t.replaced)
  /\ i \notin ListedIn(t)
  /\ t.item[i].kind = r.item[i].kind /\ t.item[i].local = r.item[i].local
  /\ t.item[i].used = r.item[i].used /\ t.item[i].active = r.item[i].active
  /\ DOMAIN t.item[i].names = DOMAIN r.item[i].names
  /\ force => t.item[i].names = r.item[i].names
  /\ i \in r.alive => i \in t.alive
  /\ i \notin r.dying => i \notin t.dying
  /\ Held(r, {}, Nothing) => Held(t, {}, Nothing)
  /\ Held(r, {}, Nothing) /\ Sorted(r, {}) => Sorted(t, {})
  /\ Unique(r) => Unique(t)
  /\ Apart(r) => Apart(t)
  /\ \A S : (force => ToSet(r.item[i].names) \subseteq S) /\ Apart(r) /\ ShadowedBy(r, S) => ShadowedBy(t, S)
  /\ Unique(r) /\ ~t.replaced /\ r.item[i].active =>
       \A p \in 1..k : \A j \in ListedIn(t) :
         t.item[j].active /\ Class(t, j) = Class(t, i) => ~hasName(t, j, t.item[i].names[p])

(* One step of the loop of CheckNames: the next name is clear as well. *)
LEMMA CheckNameStep ==
  ASSUME NEW r \in Registries, NEW i \in Items, NEW t, NEW force \in BOOLEAN,
         NEW k \in DOMAIN r.item[i].names, Checked(r, t, i, k - 1, force)
  PROVE  Checked(r, CheckName(t, i, k, force), i, k, force)
<1>1. /\ t \in Registries /\ Sound(t) /\ i \notin ListedIn(t)
      /\ DOMAIN t.item[i].names = DOMAIN r.item[i].names
      /\ t.item[i].kind = r.item[i].kind /\ t.item[i].local = r.item[i].local
      /\ t.item[i].used = r.item[i].used /\ t.item[i].active = r.item[i].active
  BY DEF Checked
<1>2. PICK s \in Seq(AllNames) : s = t.item[i].names /\ k \in DOMAIN s
  BY <1>1, Fields
<1>3. PICK n \in AllNames : n = t.item[i].names[k]
  BY <1>2
<1>4. PICK g : g = getName(t, i, n, force)
  OBVIOUS
<1>5. PICK v : v = g.reg
  OBVIOUS
<1>6. PICK m : m = g.name
  OBVIOUS
<1>7. /\ Cleared(t, i, n, v) /\ m \in AllNames
      /\ force = TRUE => m = n
      /\ force = FALSE => v = t
      /\ Unique(t) /\ t.item[i].active /\ i \notin ListedIn(t) /\ ~v.replaced
           => \A j \in ListedIn(v) : v.item[j].active /\ Class(t, j) = Class(t, i) => ~hasName(v, j, m)
  BY <1>1, <1>4, <1>5, <1>6, GetNameOf, ZenonT(60)
<1>8. /\ v \in Registries /\ Sound(v) /\ SameRecord(t, v, i) /\ v.item[i].active = t.item[i].active
      /\ \A kind \in Kinds : ToSet(v.list[kind]) \subseteq ToSet(t.list[kind])
  BY <1>7 DEF Cleared
<1>9. ListedIn(v) \subseteq ListedIn(t) /\ i \notin ListedIn(v)
  BY <1>1, <1>8 DEF ListedIn
<1>10. PICK ns : ns = [v.item[i].names EXCEPT ![k] = m]
  OBVIOUS
<1>11. v.item[i].names = s
  BY <1>2, <1>8 DEF SameRecord
<1>12. PICK u : u = Renamed(v, i, ns)
  OBVIOUS
<1>13. /\ ns \in Seq(AllNames) /\ DOMAIN ns = DOMAIN s
       /\ ns[k] = m /\ \A p \in DOMAIN ns \ {k} : ns[p] = s[p]
  BY <1>2, <1>7, <1>8, <1>10, <1>11, OneName
<1>14. CheckName(t, i, k, force) = u
  <2>1. [v EXCEPT !.item[i].names[k] = m] = u
    BY <1>10, <1>12, Zenon DEF Renamed
  <2>2. CheckName(t, i, k, force) = [getName(t, i, t.item[i].names[k], force).reg EXCEPT
          !.item[i].names[k] = getName(t, i, t.item[i].names[k], force).name]
    BY Zenon DEF CheckName, Given
  <2> QED BY <1>3, <1>4, <1>5, <1>6, <2>1, <2>2, Zenon
<1>15. /\ u \in Registries /\ SameBooks(v, u) /\ u.ufv = v.ufv /\ u.ufvl = v.ufvl
       /\ \A j \in Items \ {i} : u.item[j] = v.item[j]
  BY <1>8, <1>12, <1>13, RenamedOf
<1>16. /\ u.item[i].names = ns
       /\ u.item[i].kind = v.item[i].kind /\ u.item[i].local = v.item[i].local
       /\ u.item[i].used = v.item[i].used /\ u.item[i].active = v.item[i].active
  BY <1>8, <1>12, <1>13, RenamedOf
<1>17. ElseSame(v, u, i)
  BY <1>8, <1>15 DEF ElseSame, SameBooks, Sound
<1>18. /\ Sound(u) /\ ListedIn(u) = ListedIn(v)
       /\ Sorted(v, {i}) => Sorted(u, {i})
       /\ Unique(v) => Unique(u)
       /\ Apart(v) => Apart(u)
       /\ \A S : ShadowedBy(v, S) => ShadowedBy(u, S)
       /\ \A X, P : Held(v, X, P) => Held(u, X, P)
  BY <1>8, <1>9, <1>17, ElseSameOf
<1>19. /\ (r.replaced => u.replaced) /\ (u.replaced = v.replaced) /\ (t.replaced => u.replaced)
       /\ i \in r.alive => i \in u.alive
       /\ i \notin r.dying => i \notin u.dying
  BY <1>7, <1>15 DEF Checked, Cleared, SameBooks
<1>20. DOMAIN u.item[i].names = DOMAIN r.item[i].names /\ (force => u.item[i].names = r.item[i].names)
  <2>1. DOMAIN u.item[i].names = DOMAIN r.item[i].names
    BY <1>1, <1>2, <1>13, <1>16
  <2>2. ASSUME force PROVE u.item[i].names = r.item[i].names
    <3>1. m = n
      BY <1>7, <2>2
    <3>2. ns = s
      BY <1>2, <1>3, <1>13, <3>1
    <3> QED BY <1>2, <1>16, <2>2, <3>2 DEF Checked
  <2> QED BY <2>1, <2>2
<1>21. Held(r, {}, Nothing) => Held(u, {}, Nothing)
  <2>1. Belong(Nothing, {})
    BY DEF Belong, Nothing
  <2>2. Held(t, {}, Nothing) => Held(v, {}, Nothing)
    BY <1>7, <2>1 DEF Cleared
  <2> QED BY <1>18, <2>2 DEF Checked
<1>22. Held(r, {}, Nothing) /\ Sorted(r, {}) => Sorted(u, {})
  <2> SUFFICES ASSUME Held(r, {}, Nothing), Sorted(r, {}) PROVE Sorted(u, {})
    OBVIOUS
  <2>1. Sorted(v, {})
    BY <1>7 DEF Checked, Cleared
  <2>2. Sorted(u, {i})
    BY <1>18, <2>1, SortedLess
  <2>3. Held(u, {}, Nothing)
    BY <1>21
  <2>4. \A e \in ToSet(u.ufvl) : e \in Entered(u, {})
    BY <2>3 DEF Held, Nothing, Wheres, Table
  <2>5. \A e \in ToSet(u.ufvl) : e[1] \in ListedIn(u)
    BY <2>4 DEF Entered
  <2>6. \A e \in ToSet(u.ufvl) : e[1] \notin {i}
    BY <1>9, <1>18, <2>5
  <2> QED BY <2>2, <2>6, SortedAll
<1>23. (Unique(r) => Unique(u)) /\ (Apart(r) => Apart(u))
  BY <1>7, <1>18 DEF Checked, Cleared
<1>24. ASSUME NEW S, force => ToSet(r.item[i].names) \subseteq S, Apart(r), ShadowedBy(r, S)
       PROVE  ShadowedBy(u, S)
  <2>1. ShadowedBy(t, S) /\ Apart(t)
    BY <1>24 DEF Checked
  <2>2. ShadowedBy(v, S)
    <3>1. CASE force
      <4>1. n \in ToSet(r.item[i].names)
        BY <1>2, <1>3, <3>1 DEF Checked, ToSet
      <4> QED BY <1>7, <1>24, <2>1, <3>1, <4>1 DEF Cleared
    <3>2. CASE ~force
      BY <1>7, <2>1, <3>2
    <3> QED BY <3>1, <3>2
  <2> QED BY <1>18, <2>2
<1>25. ASSUME Unique(r), ~u.replaced, r.item[i].active,
              NEW p \in 1..k, NEW j \in ListedIn(u), u.item[j].active, Class(u, j) = Class(u, i)
       PROVE  ~hasName(u, j, u.item[i].names[p])
  <2>1. j \in ListedIn(v) /\ j \in ListedIn(t) /\ j # i /\ j \in Items
    BY <1>8, <1>9, <1>18, <1>25, ListsOf
  <2>2. u.item[j] = v.item[j] /\ SameRecord(t, v, j)
    BY <1>7, <1>15, <2>1 DEF Cleared
  <2>3. Class(t, j) = Class(t, i) /\ Class(v, j) = Class(v, i)
    BY <1>8, <1>16, <1>25, <2>2 DEF Class, SameRecord
  <2>4. ~v.replaced /\ ~t.replaced /\ v.item[j].active /\ t.item[j].active
    BY <1>7, <1>19, <1>25, <2>1, <2>2 DEF Cleared
  <2>5. CASE p = k
    <3>1. u.item[i].names[p] = m
      BY <1>13, <1>16, <2>5
    <3>2. Unique(t) /\ t.item[i].active
      BY <1>1, <1>25 DEF Checked
    <3>3. ~hasName(v, j, m)
      BY <1>1, <1>7, <2>1, <2>3, <2>4, <3>2
    <3> QED BY <2>2, <3>1, <3>3 DEF hasName
  <2>6. CASE p # k
    <3>1. p \in 1..k - 1 /\ p \in DOMAIN s
      <4>1. k \in 1..Len(s)
        BY <1>2
      <4> QED BY <2>6, <4>1
    <3>2. u.item[i].names[p] = s[p]
      BY <1>13, <1>16, <2>6, <3>1
    <3>3. ~hasName(t, j, t.item[i].names[p])
      BY <1>25, <2>1, <2>3, <2>4, <3>1 DEF Checked
    <3> QED BY <1>2, <2>2, <3>2, <3>3 DEF hasName, SameRecord
  <2> QED BY <2>5, <2>6
<1>26. /\ u.item[i].kind = r.item[i].kind /\ u.item[i].local = r.item[i].local
       /\ u.item[i].used = r.item[i].used /\ u.item[i].active = r.item[i].active
  BY <1>1, <1>8, <1>16 DEF SameRecord
<1>27. i \notin ListedIn(u)
  BY <1>9, <1>18
<1>28. Checked(r, u, i, k, force)
  BY <1>15, <1>18, <1>19, <1>20, <1>21, <1>22, <1>23, <1>24, <1>25, <1>26, <1>27 DEF Checked
<1> QED BY <1>14, <1>28

(* Checking all names of an item that is not registered. *)
LEMMA CheckNamesOf ==
  ASSUME NEW r \in Registries, Sound(r), NEW i \in Items, i \notin ListedIn(r), NEW force \in BOOLEAN
  PROVE  Checked(r, CheckNames(r, i, force), i, Len(r.item[i].names), force)
<1>1. PICK N \in Nat : N = Len(r.item[i].names) /\ DOMAIN r.item[i].names = 1..N
  <2>1. r.item[i].names \in Seq(AllNames)
    BY Fields
  <2> QED BY <2>1
<1>2. PICK W : W = [k \in 0..N |-> {t \in Registries : Checked(r, t, i, k, force)}]
  OBVIOUS
<1>3. \A k \in 0..N : \A t : t \in W[k] <=> t \in Registries /\ Checked(r, t, i, k, force)
  BY <1>2
<1>4. PICK F : F = [x \in (1..N) \X Registries |-> CheckName(x[2], i, x[1], force)]
  OBVIOUS
<1>5. \A k \in 1..N : \A t \in Registries : F[<<k, t>>] = CheckName(t, i, k, force)
  BY <1>4
<1>6. Rounds(W, N, r, F)
  <2>1. r \in W[0]
    <3>1. Checked(r, r, i, 0, force)
      BY DEF Checked
    <3>2. 0 \in 0..N
      OBVIOUS
    <3> QED BY <1>3, <3>1, <3>2
  <2>2. ASSUME NEW k \in 1..N, NEW t \in W[k - 1]
        PROVE  F[<<k, t>>] \in W[k]
    <3>1. k - 1 \in 0..N /\ k \in 0..N /\ k \in DOMAIN r.item[i].names
      BY <1>1
    <3>2. t \in Registries /\ Checked(r, t, i, k - 1, force)
      BY <1>3, <2>2, <3>1
    <3>3. PICK u : u = CheckName(t, i, k, force)
      OBVIOUS
    <3>4. Checked(r, u, i, k, force)
      BY <3>1, <3>2, <3>3, CheckNameStep
    <3>5. u \in Registries /\ F[<<k, t>>] = u
      BY <1>5, <3>2, <3>3, <3>4 DEF Checked
    <3> QED BY <1>3, <3>1, <3>4, <3>5
  <2> QED BY <2>1, <2>2 DEF Rounds
<1>7. PICK g : /\ g = [k \in 0..N |-> IF k = 0 THEN r ELSE F[<<k, g[k - 1]>>]]
               /\ \A k \in 0..N : g[k] \in W[k]
  BY <1>6, LoopRuns
<1>8. \A k \in 0..N : \A t \in W[k] : t \in Registries
  BY <1>3
<1>9. g = [k \in 0..Len(r.item[i].names) |-> IF k = 0 THEN r ELSE CheckName(g[k - 1], i, k, force)]
  <2>1. g = [k \in 0..N |-> g[k]]
    BY <1>7, Zenon
  <2>2. ASSUME NEW k \in 0..N
        PROVE  g[k] = IF k = 0 THEN r ELSE CheckName(g[k - 1], i, k, force)
    <3>1. g[k] = IF k = 0 THEN r ELSE F[<<k, g[k - 1]>>]
      BY <1>7, Zenon
    <3>2. k # 0 => k \in 1..N /\ k - 1 \in 0..N
      OBVIOUS
    <3>3. k # 0 => g[k - 1] \in Registries
      BY <1>7, <1>8, <3>2
    <3> QED BY <1>5, <3>1, <3>2, <3>3
  <2> QED BY <1>1, <2>1, <2>2
<1>10. \E a : /\ a = [k \in 0..Len(r.item[i].names) |-> IF k = 0 THEN r ELSE CheckName(a[k - 1], i, k, force)]
              /\ CheckNames(r, i, force) = a[Len(r.item[i].names)]
  BY <1>9, Zenon DEF CheckNames
<1>11. PICK a : /\ a = [k \in 0..Len(r.item[i].names) |-> IF k = 0 THEN r ELSE CheckName(a[k - 1], i, k, force)]
                /\ CheckNames(r, i, force) = a[Len(r.item[i].names)]
  BY <1>10
<1>12. \A k \in 0..N : a[k] = IF k = 0 THEN r ELSE CheckName(a[k - 1], i, k, force)
  BY <1>1, <1>11, Zenon
<1>13. \A k \in 0..N : a[k] \in W[k]
  <2>1. a[0] = r
    BY <1>12
  <2>2. ASSUME NEW k \in 1..N, a[k - 1] \in W[k - 1]
        PROVE  a[k] = F[<<k, a[k - 1]>>]
    <3>1. k \in 0..N /\ k - 1 \in 0..N /\ k # 0
      OBVIOUS
    <3>2. a[k - 1] \in Registries
      BY <1>8, <2>2, <3>1
    <3> QED BY <1>5, <1>12, <3>1, <3>2
  <2> QED BY <1>6, <2>1, <2>2, LoopKeeps
<1>14. PICK t : t = CheckNames(r, i, force) /\ t \in W[N]
  <2>1. N \in 0..N /\ CheckNames(r, i, force) = a[N]
    BY <1>1, <1>11
  <2> QED BY <1>13, <2>1
<1>15. N \in 0..N
  OBVIOUS
<1>16. Checked(r, t, i, N, force)
  BY <1>3, <1>14, <1>15
<1> QED BY <1>1, <1>14, <1>16


------------------------------------------------------------------------------
(* Adding *)

(* A sequence without repetition keeps so with one more, at either end. *)
OneMore(s, x, f) ==
  /\ Len(f) = Len(s) + 1
  /\ \/ f[Len(s) + 1] = x /\ \A p \in 1..Len(s) : f[p] = s[p]
     \/ f[1] = x /\ \A p \in 1..Len(s) : f[p + 1] = s[p]

(* A list with one more item that it did not have still holds no item twice. *)
LEMMA OneMoreInjective ==
  ASSUME NEW s \in Seq(Items), NEW x \in Items, IsInjective(s), x \notin ToSet(s),
         NEW f \in Seq(Items), OneMore(s, x, f)
  PROVE  IsInjective(f)
<1>1. PICK n \in Nat : n = Len(s) /\ DOMAIN s = 1..n /\ DOMAIN f = 1..n + 1
  BY DEF OneMore
<1>2. \A p, q \in 1..n : s[p] = s[q] => p = q
  BY <1>1 DEF IsInjective
<1>3. \A p \in 1..n : s[p] # x
  BY <1>1 DEF ToSet
<1>4. CASE f[n + 1] = x /\ \A p \in 1..n : f[p] = s[p]
  <2>1. ASSUME NEW p \in 1..n + 1, NEW q \in 1..n + 1, f[p] = f[q] PROVE p = q
    <3>1. (p = n + 1 \/ p \in 1..n) /\ (q = n + 1 \/ q \in 1..n)
      BY <1>1
    <3> QED BY <1>2, <1>3, <1>4, <2>1, <3>1
  <2> QED BY <1>1, <2>1 DEF IsInjective
<1>5. CASE f[1] = x /\ \A p \in 1..n : f[p + 1] = s[p]
  <2>1. ASSUME NEW p \in 1..n + 1, NEW q \in 1..n + 1, f[p] = f[q] PROVE p = q
    <3>1. \A c \in 1..n + 1 : c = 1 \/ \E d \in 1..n : c = d + 1
      <4>1. \A c \in 1..n + 1 : c # 1 => c - 1 \in 1..n /\ c = (c - 1) + 1
        BY <1>1
      <4> QED BY <4>1
    <3>2. CASE p = 1 /\ q = 1
      BY <3>2
    <3>3. CASE p = 1 /\ q # 1
      <4>1. PICK d \in 1..n : q = d + 1
        BY <3>1, <3>3
      <4>2. f[p] = x /\ f[q] = s[d]
        BY <1>5, <3>3, <4>1
      <4> QED BY <1>3, <2>1, <4>2
    <3>4. CASE p # 1 /\ q = 1
      <4>1. PICK d \in 1..n : p = d + 1
        BY <3>1, <3>4
      <4>2. f[q] = x /\ f[p] = s[d]
        BY <1>5, <3>4, <4>1
      <4> QED BY <1>3, <2>1, <4>2
    <3>5. CASE p # 1 /\ q # 1
      <4>1. PICK d \in 1..n : p = d + 1
        BY <3>1, <3>5
      <4>2. PICK e \in 1..n : q = e + 1
        BY <3>1, <3>5
      <4>3. f[p] = s[d] /\ f[q] = s[e]
        BY <1>5, <4>1, <4>2
      <4>4. d = e
        BY <1>2, <2>1, <4>3
      <4> QED BY <4>1, <4>2, <4>4
    <3> QED BY <3>2, <3>3, <3>4, <3>5
  <2> QED BY <1>1, <2>1 DEF IsInjective
<1> QED BY <1>1, <1>4, <1>5 DEF OneMore

(* An item takes its place in a list, before or after the others. *)
LEMMA ListedOf ==
  ASSUME NEW s \in Seq(Items), NEW i \in Items, NEW r
  PROVE  /\ Listed(r, s, i) \in Seq(Items)
         /\ ToSet(Listed(r, s, i)) = ToSet(s) \cup {i}
         /\ IsInjective(s) /\ i \notin ToSet(s) => IsInjective(Listed(r, s, i))
<1>1. PICK u : u = Listed(r, s, i)
  OBVIOUS
<1>2. PICK a : a = Append(s, i)
  OBVIOUS
<1>3. PICK o \in Seq(Items) : o = <<i>>
  <2>1. <<i>> \in Seq(Items)
    OBVIOUS
  <2> QED BY <2>1
<1>4. Len(o) = 1 /\ o[1] = i
  BY <1>3
<1>5. PICK b : b = o \o s
  OBVIOUS
<1>6. u = a \/ u = b
  BY <1>1, <1>2, <1>5, <1>3, Zenon DEF Listed
<1>7. a \in Seq(Items) /\ ToSet(a) = ToSet(s) \cup {i}
  BY <1>2, AppendOf
<1>8. ToSet(o) = {i}
  BY <1>3 DEF ToSet
<1>9. b \in Seq(Items) /\ ToSet(b) = ToSet(s) \cup {i}
  <2>1. o \o s \in Seq(Items) /\ ToSet(o \o s) = ToSet(o) \cup ToSet(s)
    BY ConcatSet
  <2> QED BY <1>5, <1>8, <2>1
<1>10. ASSUME IsInjective(s), i \notin ToSet(s) PROVE IsInjective(u)
  <2>1. OneMore(s, i, a)
    <3>1. Len(a) = Len(s) + 1 /\ a[Len(s) + 1] = i /\ \A p \in 1..Len(s) : a[p] = s[p]
      BY <1>2, AppendOf
    <3> QED BY <3>1 DEF OneMore
  <2>2. OneMore(s, i, b)
    <3>1. Len(b) = Len(o) + Len(s) /\ \A p \in 1..Len(o) + Len(s) :
             b[p] = IF p <= Len(o) THEN o[p] ELSE s[p - Len(o)]
      BY <1>5
    <3>2. Len(b) = Len(s) + 1
      BY <1>4, <3>1
    <3>3. b[1] = i
      BY <1>4, <3>1
    <3>4. \A p \in 1..Len(s) : b[p + 1] = s[p]
      <4> TAKE p \in 1..Len(s)
      <4>1. p + 1 \in 1..Len(o) + Len(s) /\ ~(p + 1 <= Len(o)) /\ (p + 1) - Len(o) = p
        BY <1>4
      <4> QED BY <3>1, <4>1
    <3> QED BY <3>2, <3>3, <3>4 DEF OneMore
  <2>3. IsInjective(a)
    BY <1>7, <1>10, <2>1, OneMoreInjective
  <2>4. IsInjective(b)
    BY <1>9, <1>10, <2>2, OneMoreInjective
  <2> QED BY <1>6, <2>3, <2>4
<1> QED BY <1>1, <1>6, <1>7, <1>9, <1>10

(* An item put on the list of a kind. *)
Enlisted(r, i, kind) == [r EXCEPT !.list[kind] = Listed(r, @, i)]

(* An item taken off what is noted as deleted. *)
Revived(r, i, kind) == [r EXCEPT !.deleted[kind] = @ \ {i}]

(* What putting an item on a list changes. *)
LEMMA EnlistedOf ==
  ASSUME NEW r \in Registries, NEW i \in Items, NEW kind \in Kinds
  PROVE  LET t == Enlisted(r, i, kind)
         IN  /\ t \in Registries /\ t.item = r.item /\ t.ufv = r.ufv /\ t.ufvl = r.ufvl
             /\ t.alive = r.alive /\ t.dying = r.dying /\ t.replaced = r.replaced
             /\ t.deleted = r.deleted
             /\ ToSet(t.list[kind]) = ToSet(r.list[kind]) \cup {i}
             /\ IsInjective(r.list[kind]) /\ i \notin ToSet(r.list[kind]) => IsInjective(t.list[kind])
             /\ \A k \in Kinds : k # kind => t.list[k] = r.list[k]
<1>1. PICK s \in Seq(Items) : s = r.list[kind]
  BY Fields
<1>2. PICK u \in Seq(Items) :
        /\ u = Listed(r, s, i) /\ ToSet(u) = ToSet(s) \cup {i}
        /\ IsInjective(s) /\ i \notin ToSet(s) => IsInjective(u)
  BY ListedOf
<1>3. PICK t : t = [r EXCEPT !.list[kind] = u]
  OBVIOUS
<1>4. Enlisted(r, i, kind) = [r EXCEPT !.list[kind] = Listed(r, r.list[kind], i)]
  BY DEF Enlisted
<1>5. t = Enlisted(r, i, kind)
  BY <1>1, <1>2, <1>3, <1>4
<1>6. /\ t \in Registries /\ t.item = r.item /\ t.ufv = r.ufv /\ t.ufvl = r.ufvl
      /\ t.alive = r.alive /\ t.dying = r.dying /\ t.replaced = r.replaced
      /\ t.deleted = r.deleted
  BY <1>3 DEF Registries
<1>7. t.list[kind] = u /\ \A k \in Kinds : k # kind => t.list[k] = r.list[k]
  BY <1>3 DEF Registries
<1> QED BY <1>1, <1>2, <1>5, <1>6, <1>7

(* What taking an item off the deleted ones changes. *)
LEMMA RevivedOf ==
  ASSUME NEW r \in Registries, NEW i \in Items, NEW kind \in Kinds
  PROVE  LET t == Revived(r, i, kind)
         IN  /\ t \in Registries /\ t.item = r.item /\ t.ufv = r.ufv /\ t.ufvl = r.ufvl
             /\ t.alive = r.alive /\ t.dying = r.dying /\ t.replaced = r.replaced
             /\ t.list = r.list /\ t.deleted[kind] = r.deleted[kind] \ {i}
             /\ \A k \in Kinds : k # kind => t.deleted[k] = r.deleted[k]
<1>1. PICK D \in SUBSET Items : D = r.deleted[kind] \ {i}
  BY Fields
<1>2. PICK t : t = [r EXCEPT !.deleted[kind] = D]
  OBVIOUS
<1>3. t = Revived(r, i, kind)
  BY <1>1, <1>2 DEF Revived
<1>4. /\ t \in Registries /\ t.item = r.item /\ t.ufv = r.ufv /\ t.ufvl = r.ufvl
      /\ t.alive = r.alive /\ t.dying = r.dying /\ t.replaced = r.replaced
      /\ t.list = r.list
  BY <1>2 DEF Registries
<1>5. t.deleted[kind] = D /\ \A k \in Kinds : k # kind => t.deleted[k] = r.deleted[k]
  BY <1>2 DEF Registries
<1> QED BY <1>1, <1>3, <1>4, <1>5

(* Registering: the item joins its list, its names the tables. *)
Register(r, i, kind) == Revived(nameChanged(Enlisted(r, i, kind), i, TRUE), i, kind)

(* What registering an item does to each part of the invariant. *)
Registered(r, i, t) ==
  /\ t \in Registries /\ t.item = r.item /\ t.replaced = r.replaced
  /\ t.alive = r.alive /\ t.dying = r.dying
  /\ ListedIn(t) = ListedIn(r) \cup {i}
  /\ Sound(t)
  /\ Sorted(r, {}) => Sorted(t, {})
  /\ Held(r, {}, Nothing) => Held(t, {}, Nothing)

(* Registering an item with names, that is alive and not registered, does that.
   *)
LEMMA RegisterOf ==
  ASSUME NEW r \in Registries, Sound(r), NEW i \in Items, i \notin ListedIn(r), i \in r.alive,
         i \notin r.dying, r.item[i].names # <<>>, NEW kind \in Kinds, kind = r.item[i].kind
  PROVE  Registered(r, i, Register(r, i, kind))
<1>1. PICK a : a = Enlisted(r, i, kind)
  OBVIOUS
<1>2. /\ a \in Registries /\ a.item = r.item /\ a.ufv = r.ufv /\ a.ufvl = r.ufvl
      /\ a.alive = r.alive /\ a.dying = r.dying /\ a.replaced = r.replaced
      /\ a.deleted = r.deleted
      /\ ToSet(a.list[kind]) = ToSet(r.list[kind]) \cup {i}
      /\ IsInjective(r.list[kind]) /\ i \notin ToSet(r.list[kind]) => IsInjective(a.list[kind])
      /\ \A k \in Kinds : k # kind => a.list[k] = r.list[k]
  BY <1>1, EnlistedOf
<1>3. PICK new : new = TRUE
  OBVIOUS
<1>4. PICK b : b = nameChanged(a, i, TRUE)
  OBVIOUS
<1>5. /\ b \in Registries /\ b.item = a.item /\ SameBooks(a, b)
      /\ ~a.item[i].active => b = a
      /\ Sorted(a, {}) => Sorted(b, {})
      /\ \A X, P : /\ i \in ListedIn(a) /\ i \notin X
                   /\ \A w \in Wheres : \A e \in P[w] : e[1] # i
                   /\ Held(a, X \cup {i}, P)
                   => Held(b, X, P)
  BY <1>2, <1>4, NameChangedNew
<1>6. PICK t : t = Revived(b, i, kind)
  OBVIOUS
<1>7. /\ t \in Registries /\ t.item = b.item /\ t.ufv = b.ufv /\ t.ufvl = b.ufvl
      /\ t.alive = b.alive /\ t.dying = b.dying /\ t.replaced = b.replaced
      /\ t.list = b.list /\ t.deleted[kind] = b.deleted[kind] \ {i}
      /\ \A k \in Kinds : k # kind => t.deleted[k] = b.deleted[k]
  BY <1>5, <1>6, RevivedOf
<1>8. t = Register(r, i, kind)
  BY <1>1, <1>4, <1>6 DEF Register
<1>9. /\ t.item = r.item /\ t.list = a.list /\ t.alive = r.alive /\ t.dying = r.dying
      /\ t.replaced = r.replaced
      /\ t.deleted[kind] = r.deleted[kind] \ {i}
      /\ \A k \in Kinds : k # kind => t.deleted[k] = r.deleted[k]
  BY <1>2, <1>5, <1>7 DEF SameBooks
<1>10. ListedIn(a) = ListedIn(r) \cup {i} /\ ListedIn(t) = ListedIn(a) /\ ListedIn(b) = ListedIn(a)
  <2>1. \A k \in Kinds : ToSet(a.list[k]) = IF k = kind THEN ToSet(r.list[k]) \cup {i} ELSE ToSet(r.list[k])
    BY <1>2
  <2>2. \A j : j \in ListedIn(a) <=> \E k \in Kinds : j \in ToSet(r.list[k]) \/ (k = kind /\ j = i)
    <3>1. \A j : j \in ListedIn(a) <=> \E k \in Kinds : j \in ToSet(a.list[k])
      BY DEF ListedIn
    <3> QED BY <2>1, <3>1
  <2>3. \A j : j \in ListedIn(r) <=> \E k \in Kinds : j \in ToSet(r.list[k])
    BY DEF ListedIn
  <2>4. ListedIn(t) = ListedIn(a) /\ ListedIn(b) = ListedIn(a)
    BY <1>5, <1>9 DEF ListedIn, SameBooks
  <2> QED BY <2>2, <2>3, <2>4
<1>11. Sound(t)
  <2>1. i \notin ToSet(r.list[kind])
    BY DEF ListedIn
  <2>2. ASSUME NEW k \in Kinds
        PROVE  /\ IsInjective(t.list[k])
               /\ \A j \in ToSet(t.list[k]) :
                    /\ t.item[j].kind = k /\ t.item[j].names # <<>>
                    /\ j \in t.alive /\ j \notin t.dying /\ j \notin t.deleted[k]
    <3>1. CASE k = kind
      BY <1>2, <1>9, <2>1, <3>1 DEF Sound
    <3>2. CASE k # kind
      BY <1>2, <1>9, <3>2 DEF Sound
    <3> QED BY <3>1, <3>2
  <2>3. t.dying \subseteq t.alive
    BY <1>9 DEF Sound
  <2> QED BY <2>2, <2>3 DEF Sound
<1>12. Sorted(r, {}) => Sorted(t, {})
  <2>1. Sorted(r, {}) => Sorted(a, {})
    BY <1>2, SortedChange
  <2>2. Sorted(b, {}) => Sorted(t, {})
    BY <1>5, <1>7, SortedChange
  <2> QED BY <1>5, <2>1, <2>2
<1>13. Held(r, {}, Nothing) => Held(t, {}, Nothing)
  <2> SUFFICES ASSUME Held(r, {}, Nothing) PROVE Held(t, {}, Nothing)
    OBVIOUS
  <2>1. PICK P : P = Nothing
    OBVIOUS
  <2>2. PICK X : X = {}
    OBVIOUS
  <2>3. Held(r, X \cup {i}, P)
    BY <2>1, <2>2, HeldOut
  <2>4. PICK Y : Y = X \cup {i}
    OBVIOUS
  <2>5. ListedIn(a) \ Y = ListedIn(r) \ Y
    BY <1>10, <2>4
  <2>6. Held(a, Y, P)
    BY <1>2, <2>3, <2>4, <2>5, HeldChange
  <2>7. \A w \in Wheres : \A e \in P[w] : e[1] # i
    BY <2>1 DEF Nothing
  <2>8. i \notin X /\ i \in ListedIn(a) /\ Held(a, X \cup {i}, P)
    BY <1>10, <2>2, <2>4, <2>6
  <2>9. Held(b, X, P)
    BY <1>5, <2>7, <2>8
  <2>10. Held(t, X, P)
    BY <1>5, <1>7, <1>10, <2>9, HeldChange
  <2> QED BY <2>1, <2>2, <2>10
<1>14. Registered(r, i, t)
  BY <1>7, <1>9, <1>10, <1>11, <1>12, <1>13 DEF Registered
<1> QED BY <1>8, <1>14

(* Where only registered active items have entries, the order of the entries of
   all but an item that is not one is the order of all. *)
LEMMA SortedListed ==
  ASSUME NEW r \in Registries, NEW i, i \notin ListedIn(r) \/ ~r.item[i].active,
         Held(r, {}, Nothing), Sorted(r, {i})
  PROVE  Sorted(r, {})
<1>1. \A e \in ToSet(r.ufvl) : e \in Entered(r, {})
  BY DEF Held, Nothing, Wheres, Table
<1>2. \A e \in ToSet(r.ufvl) : e[1] \in ListedIn(r) /\ r.item[e[1]].active
  BY <1>1 DEF Entered
<1>3. \A e \in ToSet(r.ufvl) : e[1] \notin {i}
  BY <1>2
<1> QED BY <1>3, SortedAll

(* Names stay unique, and inactive items shadowed, when an item is registered.
   *)
LEMMA RegisteredKeeps ==
  ASSUME NEW r \in Registries, NEW i \in Items, NEW t, Registered(r, i, t)
  PROVE  /\ /\ Unique(r)
            /\ \A j \in ListedIn(r) : r.item[j].active /\ Class(r, j) = Class(r, i) => ~ShareName(r, i, j)
            => Unique(t)
         /\ \A S : /\ ShadowedBy(r, S) /\ S \subseteq ToSet(r.item[i].names) /\ r.item[i].active
                   => Shadowed(t)
<1>1. t.item = r.item /\ ListedIn(t) = ListedIn(r) \cup {i}
  BY DEF Registered
<1>2. \A j, k : ShareName(t, j, k) <=> ShareName(r, j, k)
  BY <1>1 DEF ShareName
<1>3. \A j, k : ShareName(r, j, k) <=> ShareName(r, k, j)
  BY DEF ShareName
<1>4. ASSUME Unique(r),
             \A j \in ListedIn(r) : r.item[j].active /\ Class(r, j) = Class(r, i) => ~ShareName(r, i, j),
             NEW j \in ListedIn(t), NEW k \in ListedIn(t), j # k, t.item[j].active, t.item[k].active,
             Class(t, j) = Class(t, k)
      PROVE  ~ShareName(t, j, k)
  <2>1. Class(r, j) = Class(r, k) /\ r.item[j].active /\ r.item[k].active
    BY <1>1, <1>4 DEF Class
  <2>2. CASE j \in ListedIn(r) /\ k \in ListedIn(r)
    BY <1>2, <1>4, <2>1, <2>2 DEF Unique
  <2>3. CASE j = i
    BY <1>1, <1>2, <1>4, <2>1, <2>3
  <2>4. CASE k = i
    BY <1>1, <1>2, <1>3, <1>4, <2>1, <2>4
  <2> QED BY <1>1, <2>2, <2>3, <2>4
<1>5. ASSUME NEW S, ShadowedBy(r, S), S \subseteq ToSet(r.item[i].names), r.item[i].active,
             NEW j \in ListedIn(t), ~t.item[j].active
      PROVE  ~t.item[j].local /\ Shaded(t, j)
  <2>1. j \in ListedIn(r) /\ ~r.item[j].active /\ j # i
    BY <1>1, <1>5
  <2>2. ~r.item[j].local /\ (Shaded(r, j) \/ ToSet(r.item[j].names) \cap S # {})
    BY <1>5, <2>1 DEF ShadowedBy
  <2>3. CASE Shaded(r, j)
    BY <1>1, <1>2, <2>2, <2>3 DEF Shaded
  <2>4. CASE ToSet(r.item[j].names) \cap S # {}
    <3>1. ShareName(r, j, i)
      BY <1>5, <2>4 DEF ShareName
    <3> QED BY <1>1, <1>2, <2>1, <2>2, <3>1 DEF Shaded
  <2> QED BY <2>2, <2>3, <2>4
<1>6. Unique(r) /\ (\A j \in ListedIn(r) : r.item[j].active /\ Class(r, j) = Class(r, i) => ~ShareName(r, i, j))
        => Unique(t)
  BY <1>4 DEF Unique
<1>7. \A S : ShadowedBy(r, S) /\ S \subseteq ToSet(r.item[i].names) /\ r.item[i].active => Shadowed(t)
  BY <1>5 DEF Shadowed
<1> QED BY <1>6, <1>7

(* Shadowed is ShadowedBy for no further names, and less for more of them. *)
LEMMA ShadowedIs ==
  ASSUME NEW r
  PROVE  /\ Shadowed(r) <=> ShadowedBy(r, {})
         /\ \A S : Shadowed(r) => ShadowedBy(r, S)
BY DEF Shadowed, ShadowedBy

(* What addVariable, addFunction and addUnit make of a registry. *)
Added(r, i, u) ==
  /\ u \in Registries /\ Sound(u) /\ (r.replaced => u.replaced)
  /\ i \in ListedIn(u) /\ u.item[i].names # <<>> /\ u.item[i].active = r.item[i].active
  /\ Held(r, {}, Nothing) => Held(u, {}, Nothing)
  /\ Held(r, {}, Nothing) /\ Sorted(r, {}) => Sorted(u, {})
  /\ Unique(r) /\ ~u.replaced /\ r.item[i].active => Unique(u)
  /\ Apart(r) /\ Shadowed(r) /\ r.item[i].active => Shadowed(u)

(* addVariable, addFunction and addUnit, with the check of the names: what they
   do to each part of the invariant. *)
LEMMA AddItemOf ==
  ASSUME NEW r \in Registries, Sound(r), NEW i \in Items, i \notin ListedIn(r), i \in r.alive,
         i \notin r.dying, r.item[i].names # <<>>, NEW force \in BOOLEAN,
         NEW check, check = TRUE
  PROVE  Added(r, i, addItem(r, i, force, check))
<1>1. PICK t : t = CheckNames(r, i, force)
  OBVIOUS
<1>2. PICK N \in Nat : N = Len(r.item[i].names) /\ DOMAIN r.item[i].names = 1..N
  <2>1. r.item[i].names \in Seq(AllNames)
    BY Fields
  <2> QED BY <2>1
<1>3. Checked(r, t, i, N, force)
  BY <1>1, <1>2, CheckNamesOf
<1>4. PICK kind \in Kinds : kind = r.item[i].kind
  BY Fields
<1>5. PICK u : u = Register(t, i, kind)
  OBVIOUS
<1>6. addItem(r, i, force, check) = u
  BY <1>1, <1>4, <1>5, Zenon DEF addItem, Register, Enlisted, Revived
<1>7. /\ t \in Registries /\ Sound(t) /\ i \notin ListedIn(t) /\ t.item[i].kind = kind
      /\ t.item[i].active = r.item[i].active /\ DOMAIN t.item[i].names = 1..N
      /\ i \in t.alive /\ i \notin t.dying
  BY <1>2, <1>3, <1>4 DEF Checked
<1>8. t.item[i].names # <<>>
  <2>1. r.item[i].names \in Seq(AllNames) /\ t.item[i].names \in Seq(AllNames)
    BY <1>7, Fields
  <2>2. N # 0
    BY <1>2, <2>1
  <2> QED BY <1>7, <2>1, <2>2
<1>9. Registered(t, i, u)
  BY <1>5, <1>7, <1>8, RegisterOf
<1>10. /\ u \in Registries /\ u.item = t.item /\ u.replaced = t.replaced
       /\ ListedIn(u) = ListedIn(t) \cup {i} /\ Sound(u)
       /\ Sorted(t, {}) => Sorted(u, {})
       /\ Held(t, {}, Nothing) => Held(u, {}, Nothing)
  BY <1>9 DEF Registered
<1>11. /\ r.replaced => u.replaced
       /\ Held(r, {}, Nothing) => Held(u, {}, Nothing)
       /\ Held(r, {}, Nothing) /\ Sorted(r, {}) => Sorted(u, {})
  BY <1>3, <1>10 DEF Checked
<1>12. ASSUME Unique(r), ~u.replaced, r.item[i].active PROVE Unique(u)
  <2>1. Unique(t)
    BY <1>3, <1>12 DEF Checked
  <2>2. ASSUME NEW j \in ListedIn(t), t.item[j].active, Class(t, j) = Class(t, i)
        PROVE  ~ShareName(t, i, j)
    <3>1. \A p \in 1..N : ~hasName(t, j, t.item[i].names[p])
      BY <1>3, <1>10, <1>12, <2>2 DEF Checked
    <3>2. \A n \in ToSet(t.item[i].names) : n \notin ToSet(t.item[j].names)
      BY <1>7, <3>1 DEF hasName, ToSet
    <3> QED BY <3>2 DEF ShareName
  <2> QED BY <1>7, <1>9, <2>1, <2>2, RegisteredKeeps
<1>13. ASSUME Apart(r), Shadowed(r), r.item[i].active PROVE Shadowed(u)
  <2>1. CASE force
    <3>1. PICK S : S = ToSet(r.item[i].names)
      OBVIOUS
    <3>2. ShadowedBy(r, S)
      BY <1>13, ShadowedIs
    <3>3. ShadowedBy(t, S)
      BY <1>3, <1>13, <2>1, <3>1, <3>2 DEF Checked
    <3>4. S \subseteq ToSet(t.item[i].names) /\ t.item[i].active
      BY <1>3, <1>13, <2>1, <3>1 DEF Checked
    <3> QED BY <1>7, <1>9, <3>3, <3>4, RegisteredKeeps
  <2>2. CASE ~force
    <3>1. PICK S : S = {}
      OBVIOUS
    <3>2. ShadowedBy(r, S)
      BY <1>13, ShadowedIs
    <3>3. ShadowedBy(t, S)
      BY <1>3, <1>13, <2>2, <3>2 DEF Checked
    <3>4. S \subseteq ToSet(t.item[i].names) /\ t.item[i].active
      BY <1>7, <1>13, <3>1
    <3> QED BY <1>7, <1>9, <3>3, <3>4, RegisteredKeeps
  <2> QED BY <2>1, <2>2
<1>14. Added(r, i, u)
  BY <1>7, <1>8, <1>10, <1>11, <1>12, <1>13 DEF Added
<1> QED BY <1>6, <1>14

(* A new item. *)
LEMMA ConstructOf ==
  ASSUME NEW r \in Registries, Sound(r), NEW i \in Items \ r.alive, NEW d \in Definitions,
         NEW names \in Seq(AllNames), NEW active \in BOOLEAN
  PROVE  LET t == Construct(r, i, d, names, active)
         IN  /\ ElseSame(r, t, i) /\ t \in Registries /\ i \notin ListedIn(r)
             /\ t.item[i].kind = d.kind /\ t.item[i].names = names /\ t.item[i].active = active
             /\ i \in t.alive /\ i \notin t.dying /\ t.replaced = r.replaced
<1>1. PICK kind \in Kinds, local \in BOOLEAN, used \in Used :
        kind = d.kind /\ local = d.local /\ used = d.used
  BY NamesAssumption
<1>2. PICK x : x = [kind |-> kind, names |-> names, local |-> local, used |-> used, active |-> active]
  OBVIOUS
<1>3. x \in ItemRecords /\ x.kind = kind /\ x.names = names /\ x.active = active
  BY <1>2 DEF ItemRecords
<1>4. PICK A \in SUBSET Items : A = r.alive \cup {i}
  BY Fields
<1>5. PICK t : t = [r EXCEPT !.alive = A, !.item[i] = x]
  OBVIOUS
<1>6. t = Construct(r, i, d, names, active)
  BY <1>1, <1>4, <1>5, <1>2, Zenon DEF Construct
<1>7. /\ t \in Registries /\ t.list = r.list /\ t.deleted = r.deleted
      /\ t.ufv = r.ufv /\ t.ufvl = r.ufvl /\ t.replaced = r.replaced
      /\ t.alive = A /\ t.dying = r.dying
  BY <1>3, <1>5 DEF Registries
<1>8. t.item[i] = x /\ \A j \in Items \ {i} : t.item[j] = r.item[j]
  BY <1>3, <1>5 DEF Registries
<1>9. r.dying \subseteq r.alive /\ i \notin ListedIn(r)
  BY SoundOf DEF Sound
<1>10. ElseSame(r, t, i)
  BY <1>4, <1>7, <1>8, <1>9 DEF ElseSame
<1> QED BY <1>1, <1>3, <1>4, <1>6, <1>7, <1>8, <1>9, <1>10

------------------------------------------------------------------------------
(* The calls *)

(* What a call may leave behind. *)
After(r, isPlain) ==
  /\ r \in Registries /\ Sound(r) /\ Held(r, {}, Nothing)
  /\ tidy => Sorted(r, {})
  /\ plain /\ isPlain /\ apart /\ Apart(r) => Shadowed(r)
  /\ plain /\ isPlain /\ ~r.replaced => Unique(r)

(* A call keeps the invariant if what it leaves behind is in order. *)
LEMMA CallKeeps ==
  ASSUME NamesInv, NEW r, NEW isPlain \in BOOLEAN, After(r, isPlain), Call(r, isPlain)
  PROVE  NamesInv'
<1>1. reg' = r /\ calls' = calls + 1 /\ calls < MaxCalls /\ plain' = (plain /\ isPlain)
      /\ apart' = (apart /\ Apart(r)) /\ tidy' = tidy
  BY DEF Call
<1>2. calls' \in 0..MaxCalls
  BY <1>1, NamesAssumption DEF NamesInv
<1>3. {plain, apart, tidy}' \subseteq BOOLEAN
  <2>1. plain \in BOOLEAN /\ apart \in BOOLEAN /\ tidy \in BOOLEAN
    BY DEF NamesInv
  <2>2. plain' \in BOOLEAN /\ tidy' \in BOOLEAN
    BY <1>1, <2>1
  <2>3. Apart(r) \in BOOLEAN
    BY DEF Apart
  <2>4. apart' \in BOOLEAN
    BY <1>1, <2>1, <2>3
  <2> QED BY <2>2, <2>4
<1>4. reg' \in Registries /\ Sound(reg') /\ Held(reg', {}, Nothing)
  BY <1>1 DEF After
<1>5. tidy' => Sorted(reg', {})
  BY <1>1 DEF After
<1>6. apart' => Apart(reg')
  BY <1>1
<1>7. plain' /\ apart' => Shadowed(reg')
  BY <1>1 DEF After
<1>8. plain' /\ ~reg.replaced' => Unique(reg')
  BY <1>1 DEF After
<1> QED BY <1>2, <1>3, <1>4, <1>5, <1>6, <1>7, <1>8 DEF NamesInv

(* From the new item to the registered one. *)
LEMMA AddedAfter ==
  ASSUME NamesInv, NEW i \in Items, i \notin ListedIn(reg), NEW t \in Registries, ElseSame(reg, t, i),
         t.replaced = reg.replaced
  PROVE  /\ Sound(t) /\ i \notin ListedIn(t) /\ Held(t, {}, Nothing) /\ (tidy => Sorted(t, {}))
         /\ plain /\ apart => Shadowed(t) /\ Apart(t)
         /\ plain /\ ~reg.replaced => Unique(t)
<1>1. reg \in Registries /\ Sound(reg) /\ Held(reg, {}, Nothing)
  BY DEF NamesInv
<1>2. /\ Sound(t) /\ ListedIn(t) = ListedIn(reg)
      /\ Sorted(reg, {i}) => Sorted(t, {i})
      /\ Unique(reg) => Unique(t)
      /\ Apart(reg) => Apart(t)
      /\ \A S : ShadowedBy(reg, S) => ShadowedBy(t, S)
      /\ \A X, P : Held(reg, X, P) => Held(t, X, P)
  BY <1>1, ElseSameOf
<1>3. Held(t, {}, Nothing)
  BY <1>1, <1>2
<1>4. tidy => Sorted(t, {})
  <2> SUFFICES ASSUME tidy PROVE Sorted(t, {})
    OBVIOUS
  <2>1. Sorted(reg, {})
    BY DEF NamesInv
  <2>2. Sorted(t, {i})
    BY <1>2, <2>1, SortedLess
  <2> QED BY <1>2, <1>3, <2>2, SortedListed
<1>5. plain /\ apart => Shadowed(t) /\ Apart(t)
  BY <1>2, ShadowedIs DEF NamesInv
<1>6. plain /\ ~reg.replaced => Unique(t)
  BY <1>2 DEF NamesInv
<1> QED BY <1>2, <1>3, <1>4, <1>5, <1>6

(* Constructing an item and adding it keeps the invariant. *)
LEMMA AddKeeps ==
  ASSUME NamesInv, Add
  PROVE  NamesInv'
<1>1. PICK i \in Fresh, d \in Definitions, active \in BOOLEAN, force \in BOOLEAN :
        Call(addItem(Construct(reg, i, d, d.names, active), i, force, TRUE), active)
  BY DEF Add
<1>2. reg \in Registries /\ Sound(reg) /\ i \in Items \ reg.alive
  BY DEF NamesInv, Fresh
<1>3. PICK names \in Seq(AllNames) : names = d.names /\ names # <<>>
  BY NamesAssumption
<1>4. PICK t : t = Construct(reg, i, d, names, active)
  OBVIOUS
<1>5. /\ ElseSame(reg, t, i) /\ t \in Registries /\ i \notin ListedIn(reg)
      /\ t.item[i].kind = d.kind /\ t.item[i].names = names /\ t.item[i].active = active
      /\ i \in t.alive /\ i \notin t.dying /\ t.replaced = reg.replaced
  BY <1>2, <1>4, ConstructOf
<1>6. /\ Sound(t) /\ i \notin ListedIn(t) /\ Held(t, {}, Nothing) /\ (tidy => Sorted(t, {}))
      /\ plain /\ apart => Shadowed(t) /\ Apart(t)
      /\ plain /\ ~reg.replaced => Unique(t)
  BY <1>2, <1>5, AddedAfter
<1>7. PICK check : check = TRUE
  OBVIOUS
<1>8. PICK u : u = addItem(t, i, force, check)
  OBVIOUS
<1>9. Added(t, i, u)
  BY <1>2, <1>3, <1>5, <1>6, <1>7, <1>8, AddItemOf
<1>10. After(u, active)
  <2>1. u \in Registries /\ Sound(u) /\ Held(u, {}, Nothing) /\ (tidy => Sorted(u, {}))
    BY <1>6, <1>9 DEF Added
  <2>2. plain /\ active /\ apart => Shadowed(u)
    BY <1>5, <1>6, <1>9 DEF Added
  <2>3. plain /\ active /\ ~u.replaced => Unique(u)
    BY <1>5, <1>6, <1>9 DEF Added
  <2> QED BY <2>1, <2>2, <2>3 DEF After
<1>11. Call(u, active)
  <2>1. u = addItem(Construct(reg, i, d, d.names, active), i, force, TRUE)
    BY <1>3, <1>4, <1>7, <1>8, Zenon
  <2> QED BY <1>1, <2>1, Zenon
<1> QED BY <1>10, <1>11, CallKeeps

(* Without the check of names: those of a definition that are free. *)
LEMMA LoadGlobalKeeps ==
  ASSUME NamesInv, LoadGlobal
  PROVE  NamesInv'
<1>1. PICK i \in Fresh, d \in Definitions, active \in BOOLEAN :
        LET names == Only(d.names, {n \in ToSet(d.names) : Holder(reg, d.kind, n) = NoItem})
        IN  /\ ~d.local
            /\ names # <<>>
            /\ Call(addItem(Construct(reg, i, d, names, active), i, TRUE, FALSE), active)
  BY Zenon DEF LoadGlobal
<1>2. reg \in Registries /\ Sound(reg) /\ i \in Items \ reg.alive
  BY DEF NamesInv, Fresh
<1>3. PICK all \in Seq(AllNames), kind \in Kinds : all = d.names /\ kind = d.kind
  BY NamesAssumption
<1>4. PICK S : S = {n \in ToSet(all) : Holder(reg, kind, n) = NoItem}
  OBVIOUS
<1>5. PICK names \in Seq(AllNames) : names = Only(all, S) /\ ToSet(names) = ToSet(all) \cap S
  BY OnlyOf
<1>6. names # <<>> /\ Call(addItem(Construct(reg, i, d, names, active), i, TRUE, FALSE), active)
  BY <1>1, <1>3, <1>4, <1>5, Zenon
<1>7. PICK t : t = Construct(reg, i, d, names, active)
  OBVIOUS
<1>8. /\ ElseSame(reg, t, i) /\ t \in Registries /\ i \notin ListedIn(reg)
      /\ t.item[i].kind = d.kind /\ t.item[i].names = names /\ t.item[i].active = active
      /\ i \in t.alive /\ i \notin t.dying /\ t.replaced = reg.replaced
  BY <1>2, <1>7, ConstructOf
<1>9. /\ Sound(t) /\ i \notin ListedIn(t) /\ Held(t, {}, Nothing) /\ (tidy => Sorted(t, {}))
      /\ plain /\ apart => Shadowed(t) /\ Apart(t)
      /\ plain /\ ~reg.replaced => Unique(t)
  BY <1>2, <1>8, AddedAfter
<1>10. PICK u : u = Register(t, i, kind)
  OBVIOUS
<1>11. addItem(t, i, TRUE, FALSE) = u
  BY <1>3, <1>8, <1>10, Zenon DEF addItem, Register, Enlisted, Revived
<1>12. Registered(t, i, u)
  BY <1>2, <1>3, <1>6, <1>8, <1>9, <1>10, RegisterOf
<1>13. /\ u \in Registries /\ Sound(u) /\ Held(u, {}, Nothing) /\ (tidy => Sorted(u, {}))
       /\ u.replaced = t.replaced
  BY <1>9, <1>12 DEF Registered
<1>14. ASSUME plain, active, apart PROVE Shadowed(u)
  <2>1. PICK T : T = {}
    OBVIOUS
  <2>2. ShadowedBy(t, T)
    BY <1>9, <1>14, ShadowedIs
  <2>3. T \subseteq ToSet(t.item[i].names) /\ t.item[i].active
    BY <1>8, <1>14, <2>1
  <2> QED BY <1>2, <1>8, <1>12, <2>2, <2>3, RegisteredKeeps
<1>15. ASSUME plain, active, ~u.replaced PROVE Unique(u)
  <2>1. Unique(t)
    BY <1>8, <1>9, <1>13, <1>15
  <2>2. ASSUME NEW j \in ListedIn(t), t.item[j].active, Class(t, j) = Class(t, i)
        PROVE  ~ShareName(t, i, j)
    <3>1. j \in ListedIn(reg) /\ j # i /\ j \in Items
      BY <1>2, <1>8, <1>9, <2>2, ListsOf DEF ElseSame, ListedIn
    <3>2. t.item[j] = reg.item[j]
      BY <1>8, <3>1 DEF ElseSame
    <3>3. Class(t, i) = (kind = "function") /\ Class(reg, j) = (kind = "function")
      BY <1>3, <1>8, <2>2, <3>2 DEF Class
    <3>4. j \in ListedAs(reg, kind)
      BY <1>2, <3>1, <3>3, SoundOf
    <3>5. ASSUME NEW n \in ToSet(names) PROVE n \notin ToSet(t.item[j].names)
      <4>1. Holder(reg, kind, n) = NoItem
        BY <1>4, <1>5, <3>5
      <4>2. ~(reg.item[j].active /\ hasName(reg, j, n))
        BY <1>2, <3>4, <4>1, HolderOf
      <4> QED BY <2>2, <3>2, <4>2 DEF hasName
    <3> QED BY <1>8, <3>5 DEF ShareName
  <2> QED BY <1>2, <1>8, <1>12, <2>1, <2>2, RegisteredKeeps
<1>16. After(u, active)
  BY <1>13, <1>14, <1>15 DEF After
<1>17. Call(u, active)
  BY <1>6, <1>7, <1>11, Zenon
<1> QED BY <1>16, <1>17, CallKeeps

(* Nothing held of items set aside is of any kind one likes. *)
LEMMA NothingBelongs ==
  ASSUME NEW X
  PROVE  Belong(Nothing, X) /\ \A i, kind : OfKind(Nothing, i, kind)
BY DEF Belong, OfKind, Nothing

(* The books stay in order when only what is active changes. *)
LEMMA SoundSame ==
  ASSUME NEW r \in Registries, Sound(r), NEW t, SameBooks(r, t), SameItems(r, t)
  PROVE  Sound(t) /\ ListedIn(t) = ListedIn(r)
<1>1. \A k \in Kinds : \A j \in ToSet(r.list[k]) : j \in Items
  BY SoundOf
<1>2. Sound(t)
  BY <1>1 DEF Sound, SameBooks, SameItems
<1>3. ListedIn(t) = ListedIn(r)
  BY DEF ListedIn, SameBooks
<1> QED BY <1>2, <1>3

(* Activating or deactivating a registered item. *)
LEMMA SetActiveOf ==
  ASSUME NEW r \in Registries, Sound(r), NEW i \in Items, i \in ListedIn(r), NEW v \in BOOLEAN,
         Held(r, {}, Nothing)
  PROVE  LET t == setActive(r, i, v)
         IN  /\ t \in Registries /\ Sound(t) /\ Held(t, {}, Nothing) /\ (Sorted(r, {}) => Sorted(t, {}))
             /\ ListedIn(t) = ListedIn(r) /\ SameItems(r, t) /\ SameBooks(r, t)
<1>1. PICK X, P : X = {} /\ P = Nothing
  OBVIOUS
<1>2. Held(r, X, P) /\ Belong(P, X) /\ i \notin X
  BY <1>1, NothingBelongs
<1>3. CASE v
  <2>1. PICK t : t = Activate(r, i)
    OBVIOUS
  <2>2. setActive(r, i, v) = t
    BY <1>3, <2>1 DEF setActive
  <2>3. r.item[i].names # <<>>
    BY SoundOf
  <2>4. /\ t \in Registries /\ SameBooks(r, t) /\ SameItems(r, t)
        /\ Sorted(r, {}) => Sorted(t, {})
        /\ Held(t, X, P)
    BY <1>1, <1>2, <2>1, <2>3, ActivateOf
  <2> QED BY <1>1, <2>2, <2>4, SoundSame
<1>4. CASE ~v
  <2>1. PICK t : t = Deactivate(r, i)
    OBVIOUS
  <2>2. setActive(r, i, v) = t
    BY <1>4, <2>1 DEF setActive
  <2>3. /\ t \in Registries /\ SameBooks(r, t) /\ SameItems(r, t)
        /\ \A Y : Sorted(r, Y) => Sorted(t, Y)
        /\ Held(t, X, P)
    BY <1>2, <2>1, DeactivateOf
  <2> QED BY <1>1, <2>2, <2>3, SoundSame
<1> QED BY <1>3, <1>4

(* A call that is not one of those that only add and destroy. *)
LEMMA OtherCallKeeps ==
  ASSUME NamesInv, NEW r, r \in Registries, Sound(r), Held(r, {}, Nothing),
         Sorted(reg, {}) => Sorted(r, {}), NEW isPlain, isPlain = FALSE, Call(r, isPlain)
  PROVE  NamesInv'
<1>1. tidy => Sorted(r, {})
  BY DEF NamesInv
<1>2. After(r, isPlain)
  BY <1>1 DEF After
<1>3. isPlain \in BOOLEAN
  OBVIOUS
<1> QED BY <1>2, <1>3, CallKeeps

(* <activate> keeps the invariant: a rival that gives way loses its entries. *)
LEMMA ActivateNamedKeeps ==
  ASSUME NamesInv, ActivateNamed
  PROVE  NamesInv'
<1>1. PICK b \in BaseNames :
        LET i == getInactiveExpressionItem(reg, <<b>>)
        IN  i # NoItem /\ ~reg.item[i].local /\ Call(setActive(reg, i, TRUE), FALSE)
  BY Zenon DEF ActivateNamed
<1>2. PICK n : n = <<b>>
  OBVIOUS
<1>3. PICK i : i = getInactiveExpressionItem(reg, n)
  OBVIOUS
<1>4. PICK yes, no : yes = TRUE /\ no = FALSE
  OBVIOUS
<1>5. i # NoItem /\ Call(setActive(reg, i, yes), no)
  BY <1>1, <1>2, <1>3, <1>4, Zenon
<1>6. reg \in Registries /\ Sound(reg) /\ Held(reg, {}, Nothing)
  BY DEF NamesInv
<1>7. i \in Items /\ i \in ListedIn(reg)
  BY <1>3, <1>5, <1>6, GetInactiveOf
<1>8. PICK t : t = setActive(reg, i, yes)
  OBVIOUS
<1>9. yes \in BOOLEAN
  BY <1>4
<1>10. t \in Registries /\ Sound(t) /\ Held(t, {}, Nothing) /\ (Sorted(reg, {}) => Sorted(t, {}))
  BY <1>6, <1>7, <1>8, <1>9, SetActiveOf
<1>11. Call(t, no)
  BY <1>5, <1>8
<1> QED BY <1>4, <1>10, <1>11, OtherCallKeeps

(* <deactivate> keeps the invariant. *)
LEMMA DeactivateNamedKeeps ==
  ASSUME NamesInv, DeactivateNamed
  PROVE  NamesInv'
<1>1. PICK b \in BaseNames :
        LET i == getActiveExpressionItem(reg, <<b>>, NoItem)
        IN  i # NoItem /\ ~reg.item[i].local /\ Call(setActive(reg, i, FALSE), FALSE)
  BY Zenon DEF DeactivateNamed
<1>2. PICK n : n = <<b>>
  OBVIOUS
<1>3. PICK i : i = getActiveExpressionItem(reg, n, NoItem)
  OBVIOUS
<1>4. PICK no : no = FALSE
  OBVIOUS
<1>5. i # NoItem /\ Call(setActive(reg, i, no), no)
  BY <1>1, <1>2, <1>3, <1>4, Zenon
<1>6. reg \in Registries /\ Sound(reg) /\ Held(reg, {}, Nothing)
  BY DEF NamesInv
<1>7. i \in Items /\ i \in ListedIn(reg)
  BY <1>3, <1>5, <1>6, GetActiveOf
<1>8. PICK t : t = setActive(reg, i, no)
  OBVIOUS
<1>9. no \in BOOLEAN
  BY <1>4
<1>10. t \in Registries /\ Sound(t) /\ Held(t, {}, Nothing) /\ (Sorted(reg, {}) => Sorted(t, {}))
  BY <1>6, <1>7, <1>8, <1>9, SetActiveOf
<1>11. Call(t, no)
  BY <1>5, <1>8
<1> QED BY <1>4, <1>10, <1>11, OtherCallKeeps

(* Restoring makes none inactive. *)
LEMMA FollowsAfter ==
  ASSUME NamesInv, NEW t, Follows(reg, t), NEW isPlain
  PROVE  After(t, isPlain)
<1>1. reg \in Registries /\ Sound(reg) /\ Held(reg, {}, Nothing)
  BY DEF NamesInv
<1>2. /\ t \in Registries /\ SameBooks(reg, t) /\ SameItems(reg, t)
      /\ Sorted(reg, {}) => Sorted(t, {})
      /\ Unique(reg) => Unique(t)
      /\ \A j \in Items : reg.item[j].active => t.item[j].active
  BY DEF Follows
<1>3. Sound(t) /\ ListedIn(t) = ListedIn(reg) /\ ListedIn(t) \subseteq Items
  BY <1>1, <1>2, SoundSame, ListsOf
<1>4. Held(t, {}, Nothing)
  <2>1. PICK X, P : X = {} /\ P = Nothing
    OBVIOUS
  <2>2. Held(reg, X, P) /\ Belong(P, X) /\ \A x \in X : x \notin ListedIn(reg) \/ (x \in Items /\ reg.item[x].active)
    BY <1>1, <2>1, NothingBelongs
  <2>3. Held(t, X, P)
    BY <2>2 DEF Follows
  <2> QED BY <2>1, <2>3
<1>5. Shadowed(reg) => Shadowed(t)
  <2>1. \A i, j \in Items : ShareName(t, i, j) <=> ShareName(reg, i, j)
    BY <1>2 DEF ShareName, SameItems
  <2>2. \A i \in ListedIn(t) : Shaded(reg, i) => Shaded(t, i)
    BY <1>3, <2>1 DEF Shaded
  <2> QED BY <1>2, <1>3, <2>2 DEF Shadowed, SameItems
<1>6. t.replaced = reg.replaced
  BY <1>2 DEF SameBooks
<1> QED BY <1>2, <1>3, <1>4, <1>5, <1>6 DEF After, NamesInv

(* Waking all global items after a set of files keeps the invariant, uniqueness
   with it. *)
LEMMA RestoreAllKeeps ==
  ASSUME NamesInv, RestoreAll
  PROVE  NamesInv'
<1>1. PICK v \in Kinds, u \in Kinds, f \in Kinds : v = "variable" /\ u = "unit" /\ f = "function"
  BY DEF Kinds
<1>2. PICK a : a = Wake(reg, v, Items)
  OBVIOUS
<1>3. PICK b : b = Wake(a, u, Items)
  OBVIOUS
<1>4. PICK c : c = Wake(b, f, Items)
  OBVIOUS
<1>5. PICK yes : yes = TRUE
  OBVIOUS
<1>6. Call(c, yes)
  BY <1>1, <1>2, <1>3, <1>4, <1>5, Zenon DEF RestoreAll
<1>7. reg \in Registries /\ Named(reg)
  BY SoundOf DEF NamesInv
<1>8. Follows(reg, a) /\ a \in Registries
  BY <1>2, <1>7, WakeOf DEF Follows
<1>9. Named(a)
  BY <1>7, <1>8, FollowsKeeps
<1>10. Follows(a, b) /\ b \in Registries
  BY <1>3, <1>8, <1>9, WakeOf DEF Follows
<1>11. Named(b)
  BY <1>8, <1>9, <1>10, FollowsKeeps
<1>12. Follows(b, c)
  BY <1>4, <1>10, <1>11, WakeOf
<1>13. Follows(reg, c)
  BY <1>7, <1>8, <1>10, <1>12, FollowsOn
<1>14. After(c, yes) /\ yes \in BOOLEAN
  BY <1>5, <1>13, FollowsAfter
<1> QED BY <1>6, <1>14, CallKeeps

(* Destroying a registered item keeps the invariant: what was inactive only
   because of it is active afterwards. *)
LEMMA DestroyKeeps ==
  ASSUME NamesInv, Destroy
  PROVE  NamesInv'
<1>1. PICK i \in listed : Call(destroy(reg, i), TRUE)
  BY DEF Destroy
<1>2. reg \in Registries /\ Sound(reg) /\ Held(reg, {}, Nothing)
  BY DEF NamesInv
<1>3. i \in ListedIn(reg) /\ i \in Items
  BY <1>2, ListsOf DEF listed, ListedIn
<1>4. PICK t : t = destroy(reg, i) /\ Destroyed(reg, i, t)
  BY <1>2, <1>3, DestroyOf
<1>5. PICK yes : yes = TRUE
  OBVIOUS
<1>6. Call(t, yes)
  BY <1>1, <1>4, <1>5, Zenon
<1>7. Held(t, {}, Nothing)
  <2>1. PICK X, P : X = {} /\ P = Nothing
    OBVIOUS
  <2>2. /\ \A x \in X : x \notin ListedIn(reg) \/ (x \in Items /\ reg.item[x].active)
        /\ i \notin X /\ Belong(P, X) /\ Held(reg, X, P)
    BY <1>2, <2>1, NothingBelongs
  <2>3. Held(t, X, P)
    BY <1>4, <2>2 DEF Destroyed
  <2> QED BY <2>1, <2>3
<1>8. Apart(reg) /\ Shadowed(reg) => Shadowed(t)
  BY <1>4, ShadowedIs DEF Destroyed
<1>9. After(t, yes)
  BY <1>4, <1>7, <1>8 DEF After, Destroyed, NamesInv
<1>10. yes \in BOOLEAN
  BY <1>5
<1> QED BY <1>6, <1>9, <1>10, CallKeeps

(* Giving up the last reference keeps the invariant: the item is not registered
   any more. *)
LEMMA UnrefKeeps ==
  ASSUME NamesInv, Unref
  PROVE  NamesInv'
<1>1. PICK i \in reg.dying : Call(Free(reg, i), TRUE)
  BY DEF Unref
<1>2. reg \in Registries /\ Sound(reg)
  BY DEF NamesInv
<1>3. i \in Items /\ i \notin ListedIn(reg)
  BY <1>2, SoundOf, Fields
<1>4. PICK t : t = Free(reg, i)
  OBVIOUS
<1>5. /\ t \in Registries /\ t.list = reg.list /\ t.deleted = reg.deleted
      /\ t.ufv = reg.ufv /\ t.ufvl = reg.ufvl /\ t.replaced = reg.replaced
      /\ t.alive = reg.alive \ {i} /\ t.dying = reg.dying \ {i}
      /\ \A j \in Items \ {i} : t.item[j] = reg.item[j]
  BY <1>2, <1>3, <1>4, FreeOf
<1>6. ElseSame(reg, t, i)
  BY <1>2, <1>5 DEF ElseSame, Sound
<1>7. /\ Sound(t) /\ Held(t, {}, Nothing) /\ (tidy => Sorted(t, {}))
      /\ plain /\ apart => Shadowed(t) /\ Apart(t)
      /\ plain /\ ~reg.replaced => Unique(t)
  BY <1>3, <1>5, <1>6, AddedAfter
<1>8. PICK yes \in BOOLEAN : yes = TRUE
  OBVIOUS
<1>9. After(t, yes)
  BY <1>5, <1>7 DEF After
<1>10. Call(t, yes)
  BY <1>1, <1>4, <1>8, Zenon
<1> QED BY <1>9, <1>10, CallKeeps

(* Before a registered item gets other names its entries are put aside. *)
LEMMA EntriesAside ==
  ASSUME NEW r \in Registries, NEW i \in Items, Held(r, {}, Nothing)
  PROVE  \E P : /\ Held(r, {i}, P) /\ Belong(P, {i}) /\ OfKind(P, i, r.item[i].kind)
                /\ ~r.item[i].active => P = Nothing
<1>1. PICK X : X = {}
  OBVIOUS
<1>2. X \cup {i} = {i}
  BY <1>1
<1>3. CASE r.item[i].active
  <2>1. PICK N : N = Nothing
    OBVIOUS
  <2>2. PICK P : P = Aside(r, X, N, i)
    OBVIOUS
  <2>3. Held(r, {i}, P)
    BY <1>1, <1>2, <2>1, <2>2, HeldAside
  <2>4. Belong(N, X) /\ OfKind(N, i, r.item[i].kind)
    BY <2>1, NothingBelongs
  <2>5. /\ \A w \in Wheres : \A e \in P[w] : e \in N[w] \/ e[1] = i
        /\ OfKind(P, i, r.item[i].kind)
    BY <2>2, <2>4, AsideOf
  <2>6. Belong(P, {i})
    BY <2>1, <2>5 DEF Belong, Nothing
  <2> QED BY <1>3, <2>3, <2>5, <2>6
<1>4. CASE ~r.item[i].active
  <2>1. PICK P : P = Nothing
    OBVIOUS
  <2>2. Held(r, X \cup {i}, P)
    BY <1>1, <1>4, <2>1, HeldOut
  <2>3. Held(r, {i}, P)
    BY <1>2, <2>2
  <2>4. Belong(P, {i}) /\ OfKind(P, i, r.item[i].kind)
    BY <2>1, NothingBelongs
  <2> QED BY <2>1, <2>3, <2>4
<1> QED BY <1>3, <1>4

(* Afterwards it is entered again, under the names that it has now. *)
LEMMA EnteredAgain ==
  ASSUME NEW r \in Registries, Sound(r), NEW i \in Items, i \in ListedIn(r), NEW P,
         Held(r, {i}, P), Belong(P, {i}), OfKind(P, i, r.item[i].kind), ~r.item[i].active => P = Nothing
  PROVE  LET t == nameChanged(r, i, FALSE)
         IN  /\ t \in Registries /\ Sound(t) /\ Held(t, {}, Nothing)
             /\ Sorted(r, {i}) => Sorted(t, {})
<1>1. PICK t : t = nameChanged(r, i, FALSE)
  OBVIOUS
<1>2. r.item[i].names # <<>>
  BY SoundOf
<1>3. PICK X : X = {}
  OBVIOUS
<1>4. X \cup {i} = {i} /\ i \notin X
  BY <1>3
<1>5. /\ t \in Registries /\ t.item = r.item /\ SameBooks(r, t)
      /\ ~r.item[i].active => t = r
      /\ r.item[i].active /\ Sorted(r, {i}) => Sorted(t, {})
      /\ r.item[i].active /\ Held(r, X \cup {i}, P) => Held(t, X, Without(P, i))
  BY <1>1, <1>2, <1>4, NameChangedOf
<1>6. SameItems(r, t)
  BY <1>5 DEF SameItems
<1>7. Sound(t)
  BY <1>5, <1>6, SoundSame
<1>8. CASE r.item[i].active
  <2>1. Held(t, X, Without(P, i))
    BY <1>4, <1>5, <1>8
  <2>2. PICK N : N = Nothing
    OBVIOUS
  <2>3. PICK Q : Q = Without(P, i)
    OBVIOUS
  <2>4. \A w \in Wheres : Q[w] = N[w]
    BY <2>2, <2>3 DEF Without, Nothing, Belong
  <2>5. Held(t, X, N)
    BY <2>1, <2>3, <2>4, HeldSame
  <2> QED BY <1>1, <1>3, <1>5, <1>7, <1>8, <2>2, <2>5
<1>9. CASE ~r.item[i].active
  <2>1. t = r
    BY <1>5, <1>9
  <2>2. Held(r, X \cup {i}, P)
    BY <1>4
  <2>3. Held(r, X, P)
    BY <1>9, <2>2, HeldBack
  <2>4. Held(t, {}, Nothing)
    BY <1>3, <1>9, <2>1, <2>3
  <2>5. Sorted(r, {i}) => Sorted(t, {})
    BY <1>5, <1>9, <2>1, <2>4, SortedListed
  <2> QED BY <1>1, <1>5, <1>7, <2>4, <2>5
<1> QED BY <1>8, <1>9

(* Other names for a registered item whose entries are aside. *)
LEMMA RenamedAside ==
  ASSUME NEW r \in Registries, Sound(r), NEW i \in Items, NEW ns \in Seq(AllNames), ns # <<>>
  PROVE  LET t == Renamed(r, i, ns)
         IN  /\ t \in Registries /\ Sound(t) /\ SameBooks(r, t) /\ ListedIn(t) = ListedIn(r)
             /\ t.item[i].names = ns /\ t.item[i].kind = r.item[i].kind
             /\ t.item[i].active = r.item[i].active
             /\ Sorted(r, {i}) => Sorted(t, {i})
             /\ \A P : Held(r, {i}, P) => Held(t, {i}, P)
<1>1. PICK t : t = Renamed(r, i, ns)
  OBVIOUS
<1>2. /\ t \in Registries /\ SameBooks(r, t) /\ t.ufv = r.ufv /\ t.ufvl = r.ufvl
      /\ \A j \in Items \ {i} : t.item[j] = r.item[j]
      /\ t.item[i].names = ns /\ t.item[i].kind = r.item[i].kind
      /\ t.item[i].active = r.item[i].active
  BY <1>1, RenamedOf
<1>3. ListedIn(t) = ListedIn(r) /\ ListedIn(r) \subseteq Items
  BY <1>2, ListsOf DEF ListedIn, SameBooks
<1>4. Sound(t)
  <2>1. \A k \in Kinds : \A j \in ToSet(r.list[k]) : j \in Items
    BY SoundOf
  <2>2. \A j \in Items : t.item[j].kind = r.item[j].kind /\ (r.item[j].names # <<>> => t.item[j].names # <<>>)
    BY <1>2
  <2> QED BY <1>2, <2>1, <2>2 DEF Sound, SameBooks
<1>5. PICK Y : Y = {i}
  OBVIOUS
<1>6. Sorted(r, Y) => Sorted(t, Y)
  BY <1>2, <1>5, SortedChange
<1>7. \A P : Held(r, Y, P) => Held(t, Y, P)
  BY <1>2, <1>3, <1>5, HeldChange
<1> QED BY <1>1, <1>2, <1>3, <1>4, <1>5, <1>6, <1>7

(* A base name alone is a name. *)
LEMMA BaseNameOf ==
  ASSUME NEW b \in BaseNames
  PROVE  <<b>> \in AllNames
<1>1. <<b>> \in Seq(BaseNames \cup Nat) /\ <<b>> # <<>> /\ <<b>>[1] = b
  OBVIOUS
<1> QED BY <1>1 DEF AllNames

(* A registered item that has other names already when one of them is looked up,
   while the tables have the indices of before: they are in step again after it,
   and in order unless another item was destroyed by it. *)
LEMMA RenameKeeps ==
  ASSUME NamesInv, NEW i \in Items, i \in ListedIn(reg), NEW ms \in Seq(AllNames), ms # <<>>,
         NEW k \in DOMAIN ms, NEW force \in BOOLEAN, Rename(Renamed(reg, i, ms), i, k, force)
  PROVE  NamesInv'
<1>1. reg \in Registries /\ Sound(reg) /\ Held(reg, {}, Nothing)
  BY DEF NamesInv
<1>2. i \in ListedIn(reg) /\ i \in Items
  OBVIOUS
<1>3. ms \in Seq(AllNames) /\ k \in DOMAIN ms /\ ms # <<>>
  OBVIOUS
<1>4. PICK r : r = Renamed(reg, i, ms)
  OBVIOUS
<1>5. Rename(r, i, k, force)
  BY <1>4, Zenon
<1>6. PICK P : /\ Held(reg, {i}, P) /\ Belong(P, {i}) /\ OfKind(P, i, reg.item[i].kind)
               /\ ~reg.item[i].active => P = Nothing
  BY <1>1, <1>2, EntriesAside
<1>7. /\ r \in Registries /\ Sound(r) /\ SameBooks(reg, r) /\ ListedIn(r) = ListedIn(reg)
      /\ r.item[i].names = ms /\ r.item[i].kind = reg.item[i].kind
      /\ r.item[i].active = reg.item[i].active
      /\ Sorted(reg, {i}) => Sorted(r, {i})
      /\ Held(r, {i}, P)
  BY <1>1, <1>2, <1>3, <1>4, <1>6, RenamedAside
<1>8. PICK n \in AllNames : n = r.item[i].names[k]
  BY <1>3, <1>7
<1>9. PICK v : v = getName(r, i, n, force).reg
  OBVIOUS
<1>10. PICK m : m = getName(r, i, n, force).name
  OBVIOUS
<1>11. Cleared(r, i, n, v) /\ m \in AllNames
  BY <1>2, <1>7, <1>9, <1>10, GetNameOf
<1>12. /\ v \in Registries /\ Sound(v) /\ SameRecord(r, v, i) /\ i \in ListedIn(v)
       /\ v.item[i].active = r.item[i].active
       /\ v.list = r.list => (Sorted(r, {i}) => Sorted(v, {i}))
  <2>1. /\ v \in Registries /\ Sound(v) /\ SameRecord(r, v, i)
        /\ v.item[i].active = r.item[i].active
        /\ v.list = r.list => \A Y : Sorted(r, Y) => Sorted(v, Y)
        /\ \A kind \in Kinds : i \in ToSet(r.list[kind]) => i \in ToSet(v.list[kind])
    BY <1>11 DEF Cleared
  <2>2. i \in ListedIn(r)
    BY <1>2, <1>7
  <2>3. i \in ListedIn(v)
    BY <2>1, <2>2 DEF ListedIn
  <2> QED BY <2>1, <2>3
<1>13. Held(v, {i}, P)
  <2>1. PICK X : X = {i}
    OBVIOUS
  <2>2. X \subseteq {i} /\ Belong(P, X) /\ Held(r, X, P)
    BY <1>6, <1>7, <2>1
  <2>3. Held(v, X, P)
    BY <1>11, <2>2 DEF Cleared
  <2> QED BY <2>1, <2>3
<1>14. PICK ns : ns = [v.item[i].names EXCEPT ![k] = m]
  OBVIOUS
<1>15. ns \in Seq(AllNames) /\ ns # <<>>
  <2>1. k \in DOMAIN v.item[i].names
    BY <1>3, <1>7, <1>12 DEF SameRecord
  <2>2. ns \in Seq(AllNames) /\ DOMAIN ns = DOMAIN v.item[i].names
    BY <1>2, <1>11, <1>12, <1>14, <2>1, OneName
  <2> QED BY <2>1, <2>2
<1>16. PICK u : u = Renamed(v, i, ns)
  OBVIOUS
<1>17. CheckName(r, i, k, force) = u
  <2>1. [v EXCEPT !.item[i].names[k] = m] = u
    BY <1>14, <1>16, Zenon DEF Renamed
  <2>2. CheckName(r, i, k, force) = [getName(r, i, r.item[i].names[k], force).reg EXCEPT
          !.item[i].names[k] = getName(r, i, r.item[i].names[k], force).name]
    BY Zenon DEF CheckName, Given
  <2> QED BY <1>8, <1>9, <1>10, <2>1, <2>2, Zenon
<1>18. /\ u \in Registries /\ Sound(u) /\ SameBooks(v, u) /\ ListedIn(u) = ListedIn(v)
       /\ u.item[i].kind = v.item[i].kind /\ u.item[i].active = v.item[i].active
       /\ Sorted(v, {i}) => Sorted(u, {i})
       /\ Held(u, {i}, P)
  BY <1>2, <1>12, <1>13, <1>15, <1>16, RenamedAside
<1>19. PICK t : t = nameChanged(u, i, FALSE)
  OBVIOUS
<1>20. /\ t \in Registries /\ Sound(t) /\ Held(t, {}, Nothing)
       /\ Sorted(u, {i}) => Sorted(t, {})
  <2>1. i \in ListedIn(u) /\ OfKind(P, i, u.item[i].kind) /\ (~u.item[i].active => P = Nothing)
    BY <1>6, <1>7, <1>12, <1>18 DEF SameRecord
  <2> QED BY <1>2, <1>6, <1>18, <1>19, <2>1, EnteredAgain
<1>21. /\ calls < MaxCalls /\ calls' = calls + 1 /\ reg' = t /\ plain' = FALSE
       /\ apart' = (apart /\ Apart(t)) /\ tidy' = (tidy /\ u.list = reg.list)
  <2>1. /\ calls < MaxCalls /\ calls' = calls + 1 /\ plain' = FALSE
        /\ reg' = nameChanged(CheckName(r, i, k, force), i, FALSE)
        /\ apart' = (apart /\ Apart(reg'))
        /\ tidy' = (tidy /\ CheckName(r, i, k, force).list = reg.list)
    BY <1>5, Zenon DEF Rename
  <2> QED BY <1>17, <1>19, <2>1, Zenon
<1>22. tidy' => Sorted(t, {})
  <2> SUFFICES ASSUME tidy, u.list = reg.list PROVE Sorted(t, {})
    BY <1>21
  <2>1. Sorted(reg, {i})
    BY SortedLess DEF NamesInv
  <2>2. v.list = r.list
    BY <1>7, <1>18 DEF SameBooks
  <2> QED BY <1>7, <1>12, <1>18, <1>20, <2>1, <2>2
<1>23. calls' \in 0..MaxCalls
  BY <1>21, NamesAssumption DEF NamesInv
<1>24. {plain, apart, tidy}' \subseteq BOOLEAN
  <2>1. apart \in BOOLEAN /\ tidy \in BOOLEAN /\ Apart(t) \in BOOLEAN
    BY DEF NamesInv, Apart
  <2>2. plain' \in BOOLEAN
    BY <1>21
  <2>3. apart' \in BOOLEAN
    BY <1>21, <2>1
  <2>4. tidy' \in BOOLEAN
    BY <1>21, <2>1
  <2> QED BY <2>2, <2>3, <2>4
<1> QED BY <1>20, <1>21, <1>22, <1>23, <1>24 DEF NamesInv

(* setName of a string gives up the old name when the new one is got. *)
LEMMA SetStringKeeps ==
  ASSUME NamesInv, NEW i \in listed, NEW b \in BaseNames, NEW force \in BOOLEAN,
         NEW k \in DOMAIN reg.item[i].names,
         Call(nameChanged(Given(getName(reg, i, <<b>>, force), i, k), i, FALSE), FALSE)
  PROVE  NamesInv'
<1>1. reg \in Registries /\ Sound(reg) /\ Held(reg, {}, Nothing)
  BY DEF NamesInv
<1>2. i \in ListedIn(reg) /\ i \in Items
  BY <1>1, ListsOf DEF listed, ListedIn
<1>3. PICK n \in AllNames : n = <<b>>
  BY BaseNameOf
<1>4. PICK v : v = getName(reg, i, n, force).reg
  OBVIOUS
<1>5. PICK m : m = getName(reg, i, n, force).name
  OBVIOUS
<1>6. Cleared(reg, i, n, v) /\ m \in AllNames
  BY <1>1, <1>2, <1>4, <1>5, GetNameOf
<1>7. PICK ns : ns = [v.item[i].names EXCEPT ![k] = m]
  OBVIOUS
<1>8. PICK u : u = Renamed(v, i, ns)
  OBVIOUS
<1>9. PICK no : no = FALSE
  OBVIOUS
<1>10. Call(nameChanged(u, i, FALSE), no)
  <2>1. [v EXCEPT !.item[i].names[k] = m] = u
    BY <1>7, <1>8, Zenon DEF Renamed
  <2>2. Call(nameChanged([getName(reg, i, <<b>>, force).reg EXCEPT
                            !.item[i].names[k] = getName(reg, i, <<b>>, force).name], i, FALSE), FALSE)
    BY Zenon DEF Given
  <2> QED BY <1>3, <1>4, <1>5, <1>9, <2>1, <2>2, Zenon
<1>11. /\ v \in Registries /\ Sound(v) /\ SameRecord(reg, v, i) /\ i \in ListedIn(v)
       /\ Sorted(reg, {}) => Sorted(v, {})
  <2>1. /\ v \in Registries /\ Sound(v) /\ SameRecord(reg, v, i)
        /\ Sorted(reg, {}) => Sorted(v, {})
        /\ \A kind \in Kinds : i \in ToSet(reg.list[kind]) => i \in ToSet(v.list[kind])
    BY <1>6 DEF Cleared
  <2> QED BY <1>2, <2>1 DEF ListedIn
<1>12. Held(v, {}, Nothing)
  <2>1. PICK X, P : X = {} /\ P = Nothing
    OBVIOUS
  <2>2. X \subseteq {i} /\ Belong(P, X) /\ Held(reg, X, P)
    BY <1>1, <2>1, NothingBelongs
  <2>3. Held(v, X, P)
    BY <1>6, <2>2 DEF Cleared
  <2> QED BY <2>1, <2>3
<1>13. ns \in Seq(AllNames) /\ ns # <<>>
  <2>1. k \in DOMAIN v.item[i].names
    BY <1>11 DEF SameRecord
  <2>2. ns \in Seq(AllNames) /\ DOMAIN ns = DOMAIN v.item[i].names
    BY <1>2, <1>6, <1>7, <1>11, <2>1, OneName
  <2> QED BY <2>1, <2>2
<1>14. PICK P : /\ Held(v, {i}, P) /\ Belong(P, {i}) /\ OfKind(P, i, v.item[i].kind)
                /\ ~v.item[i].active => P = Nothing
  BY <1>2, <1>11, <1>12, EntriesAside
<1>15. /\ u \in Registries /\ Sound(u) /\ ListedIn(u) = ListedIn(v)
       /\ u.item[i].kind = v.item[i].kind /\ u.item[i].active = v.item[i].active
       /\ Sorted(v, {i}) => Sorted(u, {i})
       /\ Held(u, {i}, P)
  BY <1>2, <1>8, <1>11, <1>13, <1>14, RenamedAside
<1>16. PICK t : t = nameChanged(u, i, FALSE)
  OBVIOUS
<1>17. /\ t \in Registries /\ Sound(t) /\ Held(t, {}, Nothing)
       /\ Sorted(u, {i}) => Sorted(t, {})
  <2>1. i \in ListedIn(u) /\ OfKind(P, i, u.item[i].kind) /\ (~u.item[i].active => P = Nothing)
    BY <1>11, <1>14, <1>15
  <2> QED BY <1>2, <1>14, <1>15, <1>16, <2>1, EnteredAgain
<1>18. Sorted(reg, {}) => Sorted(t, {})
  <2>1. Sorted(v, {}) => Sorted(v, {i})
    BY SortedLess
  <2> QED BY <1>11, <1>15, <1>17, <2>1
<1>19. Call(t, no)
  BY <1>10, <1>16
<1> QED BY <1>9, <1>17, <1>18, <1>19, OtherCallKeeps

(* setName of an ExpressionName writes the new name before it asks whether it is
   free. *)
LEMMA SetNameKeeps ==
  ASSUME NamesInv, setName
  PROVE  NamesInv'
<1>1. PICK i \in listed, b \in BaseNames, force \in BOOLEAN : \E k \in DOMAIN reg.item[i].names :
        /\ reg.item[i].names[k] # <<b>>
        /\ \/ Call(nameChanged(Given(getName(reg, i, <<b>>, force), i, k), i, FALSE), FALSE)
           \/ Rename([reg EXCEPT !.item[i].names[k] = <<b>>], i, k, force)
  BY Zenon DEF setName
<1>2. PICK k \in DOMAIN reg.item[i].names :
        \/ Call(nameChanged(Given(getName(reg, i, <<b>>, force), i, k), i, FALSE), FALSE)
        \/ Rename([reg EXCEPT !.item[i].names[k] = <<b>>], i, k, force)
  BY <1>1, Zenon
<1>3. CASE Call(nameChanged(Given(getName(reg, i, <<b>>, force), i, k), i, FALSE), FALSE)
  BY <1>3, SetStringKeeps, Zenon
<1>4. CASE Rename([reg EXCEPT !.item[i].names[k] = <<b>>], i, k, force)
  <2>1. reg \in Registries /\ Sound(reg)
    BY DEF NamesInv
  <2>2. i \in ListedIn(reg) /\ i \in Items
    BY <2>1, ListsOf DEF listed, ListedIn
  <2>3. PICK x \in AllNames : x = <<b>>
    BY BaseNameOf
  <2>4. PICK ms : ms = [reg.item[i].names EXCEPT ![k] = x]
    OBVIOUS
  <2>5. ms \in Seq(AllNames) /\ DOMAIN ms = DOMAIN reg.item[i].names
    BY <2>1, <2>2, <2>4, OneName
  <2>6. k \in DOMAIN ms /\ ms # <<>>
    BY <2>5
  <2>7. Rename(Renamed(reg, i, ms), i, k, force)
    <3>1. [reg EXCEPT !.item[i].names[k] = <<b>>] = Renamed(reg, i, ms)
      BY <2>3, <2>4, Zenon DEF Renamed
    <3> QED BY <1>4, <3>1, Zenon
  <2> QED BY <2>2, <2>5, <2>6, <2>7, RenameKeeps
<1> QED BY <1>2, <1>3, <1>4, Zenon

(* removeName keeps the invariant. *)
LEMMA RemoveNameKeeps ==
  ASSUME NamesInv, removeName
  PROVE  NamesInv'
<1>1. PICK i \in listed : \E k \in DOMAIN reg.item[i].names :
        /\ Len(reg.item[i].names) > 1
        /\ Call(nameChanged([reg EXCEPT !.item[i].names = RemoveAt(@, k)], i, FALSE), FALSE)
  BY Zenon DEF removeName
<1>2. PICK k \in DOMAIN reg.item[i].names :
        /\ Len(reg.item[i].names) > 1
        /\ Call(nameChanged([reg EXCEPT !.item[i].names = RemoveAt(@, k)], i, FALSE), FALSE)
  BY <1>1, Zenon
<1>3. reg \in Registries /\ Sound(reg) /\ Held(reg, {}, Nothing)
  BY DEF NamesInv
<1>4. i \in ListedIn(reg) /\ i \in Items
  BY <1>3, ListsOf DEF listed, ListedIn
<1>5. PICK s \in Seq(AllNames) : s = reg.item[i].names
  BY <1>3, <1>4, Fields
<1>6. PICK ns : ns = RemoveAt(s, k)
  OBVIOUS
<1>7. ns \in Seq(AllNames) /\ ns # <<>>
  BY <1>2, <1>5, <1>6, RemoveOf
<1>8. PICK u : u = Renamed(reg, i, ns)
  OBVIOUS
<1>9. PICK no : no = FALSE
  OBVIOUS
<1>10. Call(nameChanged(u, i, FALSE), no)
  <2>1. [reg EXCEPT !.item[i].names = RemoveAt(@, k)] = u
    BY <1>5, <1>6, <1>8, Zenon DEF Renamed
  <2> QED BY <1>2, <1>9, <2>1, Zenon
<1>11. PICK P : /\ Held(reg, {i}, P) /\ Belong(P, {i}) /\ OfKind(P, i, reg.item[i].kind)
                /\ ~reg.item[i].active => P = Nothing
  BY <1>3, <1>4, EntriesAside
<1>12. /\ u \in Registries /\ Sound(u) /\ ListedIn(u) = ListedIn(reg)
       /\ u.item[i].kind = reg.item[i].kind /\ u.item[i].active = reg.item[i].active
       /\ Sorted(reg, {i}) => Sorted(u, {i})
       /\ Held(u, {i}, P)
  BY <1>3, <1>4, <1>7, <1>8, <1>11, RenamedAside
<1>13. PICK t : t = nameChanged(u, i, FALSE)
  OBVIOUS
<1>14. /\ t \in Registries /\ Sound(t) /\ Held(t, {}, Nothing)
       /\ Sorted(u, {i}) => Sorted(t, {})
  <2>1. i \in ListedIn(u) /\ OfKind(P, i, u.item[i].kind) /\ (~u.item[i].active => P = Nothing)
    BY <1>4, <1>11, <1>12
  <2> QED BY <1>4, <1>11, <1>12, <1>13, <2>1, EnteredAgain
<1>15. Sorted(reg, {}) => Sorted(t, {})
  <2>1. Sorted(reg, {}) => Sorted(reg, {i})
    BY SortedLess
  <2> QED BY <1>12, <1>14, <2>1
<1>16. Call(t, no)
  BY <1>10, <1>13
<1> QED BY <1>9, <1>14, <1>15, <1>16, OtherCallKeeps

(* addName inserts the name before it asks whether it is free. *)
LEMMA AddNameKeeps ==
  ASSUME NamesInv, addName
  PROVE  NamesInv'
<1>1. PICK i \in listed, b \in BaseNames, force \in BOOLEAN :
        \E k \in 1..Len(reg.item[i].names) + 1 :
          Rename([reg EXCEPT !.item[i].names = InsertAt(@, k, <<b>>)], i, k, force)
  BY Zenon DEF addName
<1>2. PICK k \in 1..Len(reg.item[i].names) + 1 :
        Rename([reg EXCEPT !.item[i].names = InsertAt(@, k, <<b>>)], i, k, force)
  BY <1>1, Zenon
<1>3. reg \in Registries /\ Sound(reg) /\ Held(reg, {}, Nothing)
  BY DEF NamesInv
<1>4. i \in ListedIn(reg) /\ i \in Items
  BY <1>3, ListsOf DEF listed, ListedIn
<1>5. PICK s \in Seq(AllNames) : s = reg.item[i].names
  BY <1>3, <1>4, Fields
<1>6. PICK x \in AllNames : x = <<b>>
  BY BaseNameOf
<1>7. PICK ms : ms = InsertAt(s, k, x)
  OBVIOUS
<1>8. ms \in Seq(AllNames) /\ Len(ms) = Len(s) + 1
  BY <1>5, <1>7, InsertOf
<1>9. k \in DOMAIN ms /\ ms # <<>>
  BY <1>5, <1>8
<1>10. PICK r : r = Renamed(reg, i, ms)
  OBVIOUS
<1>11. Rename(Renamed(reg, i, ms), i, k, force)
  <2>1. [reg EXCEPT !.item[i].names = InsertAt(@, k, <<b>>)] = r
    BY <1>5, <1>6, <1>7, <1>10, Zenon DEF Renamed
  <2> QED BY <1>2, <1>10, <2>1, Zenon
<1> QED BY <1>4, <1>8, <1>9, <1>11, RenameKeeps

(* The item that is made local, or global. *)
Localized(r, i, is_local) == [r EXCEPT !.item[i].local = is_local]

(* What making an item local or global changes. *)
LEMMA LocalizedOf ==
  ASSUME NEW r \in Registries, NEW i \in Items, NEW is_local \in BOOLEAN
  PROVE  LET t == Localized(r, i, is_local)
         IN  /\ t \in Registries /\ SameBooks(r, t) /\ t.ufv = r.ufv /\ t.ufvl = r.ufvl
             /\ \A j \in Items : /\ t.item[j].names = r.item[j].names
                                 /\ t.item[j].kind = r.item[j].kind
                                 /\ t.item[j].active = r.item[j].active
<1>1. PICK yes \in BOOLEAN : yes = is_local
  OBVIOUS
<1>2. PICK t : t = [r EXCEPT !.item[i].local = yes]
  OBVIOUS
<1>3. t = Localized(r, i, is_local)
  BY <1>1, <1>2, Zenon DEF Localized
<1>4. t \in Registries
  BY <1>2, ZenonT(60) DEF Registries, ItemRecords
<1>5. SameBooks(r, t) /\ t.ufv = r.ufv /\ t.ufvl = r.ufvl
  BY <1>2 DEF Registries, ItemRecords, SameBooks
<1>6. t.item = [r.item EXCEPT ![i] = [r.item[i] EXCEPT !.local = yes]]
  BY <1>2 DEF Registries, ItemRecords
<1>7. r.item \in [Items -> ItemRecords] /\ r.item[i] \in ItemRecords
  BY Fields
<1>8. (\A j \in Items \ {i} : t.item[j] = r.item[j]) /\ t.item[i] = [r.item[i] EXCEPT !.local = yes]
  BY <1>6, <1>7
<1>9. PICK x : x = t.item[i]
  OBVIOUS
<1>10. x.names = r.item[i].names /\ x.kind = r.item[i].kind /\ x.active = r.item[i].active
  BY <1>7, <1>8, <1>9 DEF ItemRecords
<1>11. \A j \in Items : /\ t.item[j].names = r.item[j].names
                        /\ t.item[j].kind = r.item[j].kind
                        /\ t.item[j].active = r.item[j].active
  BY <1>8, <1>9, <1>10
<1> QED BY <1>3, <1>4, <1>5, <1>11

(* Making an item local or global keeps all but that. *)
LEMMA LocalizedKeeps ==
  ASSUME NEW r \in Registries, Sound(r), Held(r, {}, Nothing), NEW i \in Items, NEW is_local \in BOOLEAN
  PROVE  LET t == Localized(r, i, is_local)
         IN  /\ t \in Registries /\ SameBooks(r, t)
             /\ \A j \in Items : t.item[j].names = r.item[j].names
             /\ Sound(t) /\ Held(t, {}, Nothing) /\ (Sorted(r, {}) => Sorted(t, {}))
<1>1. PICK t : t = Localized(r, i, is_local)
  OBVIOUS
<1>2. /\ t \in Registries /\ SameBooks(r, t) /\ t.ufv = r.ufv /\ t.ufvl = r.ufvl
      /\ \A j \in Items : /\ t.item[j].names = r.item[j].names
                          /\ t.item[j].kind = r.item[j].kind
                          /\ t.item[j].active = r.item[j].active
  BY <1>1, LocalizedOf
<1>3. ListedIn(t) = ListedIn(r) /\ ListedIn(r) \subseteq Items
  BY <1>2, ListsOf DEF ListedIn, SameBooks
<1>4. Sound(t)
  <2>1. \A k \in Kinds : \A j \in ToSet(r.list[k]) : j \in Items
    BY SoundOf
  <2> QED BY <1>2, <2>1 DEF Sound, SameBooks
<1>5. Held(t, {}, Nothing)
  <2>1. PICK X, P : X = {} /\ P = Nothing
    OBVIOUS
  <2>2. Held(t, X, P)
    BY <1>2, <1>3, <2>1, HeldChange
  <2> QED BY <2>1, <2>2
<1>6. Sorted(r, {}) => Sorted(t, {})
  <2>1. PICK Y : Y = {}
    OBVIOUS
  <2>2. Sorted(r, Y) => Sorted(t, Y)
    BY <1>2, SortedChange
  <2> QED BY <2>1, <2>2
<1> QED BY <1>1, <1>2, <1>4, <1>5, <1>6

(* The copy that setLocal keeps is at an address of its own, with names. *)
LEMMA CopiedOf ==
  ASSUME NEW r \in Registries, Sound(r), NEW i \in Items, i \in ListedIn(r), NEW j \in Items \ r.alive
  PROVE  LET t == Copied(r, i, j)
         IN  /\ ElseSame(r, t, j) /\ t \in Registries /\ j \notin ListedIn(r)
             /\ t.item[j].names # <<>> /\ j \in t.alive /\ j \notin t.dying
<1>1. PICK s \in Seq(AllNames) : s = r.item[i].names /\ s # <<>>
  BY Fields, SoundOf
<1>2. 1 \in DOMAIN s /\ s[1] \in AllNames
  BY <1>1
<1>3. PICK ns : ns = [k \in DOMAIN s |-> s[1]]
  OBVIOUS
<1>4. ns \in Seq(AllNames) /\ ns # <<>>
  BY <1>1, <1>2, <1>3
<1>5. PICK no \in BOOLEAN, un \in Used : no = FALSE /\ un = "no"
  BY DEF Used
<1>6. PICK y \in ItemRecords : y = r.item[i]
  BY Fields
<1>7. PICK x : x = [y EXCEPT !.names = ns, !.used = un, !.active = no]
  OBVIOUS
<1>8. x \in ItemRecords /\ x.names = ns
  BY <1>4, <1>7 DEF ItemRecords
<1>9. PICK A \in SUBSET Items : A = r.alive \cup {j}
  BY Fields
<1>10. PICK t : t = [r EXCEPT !.alive = A, !.item[j] = x]
  OBVIOUS
<1>11. t = Copied(r, i, j)
  <2>1. x = [r.item[i] EXCEPT !.names = [k \in DOMAIN r.item[i].names |-> r.item[i].names[1]],
                              !.used = "no", !.active = FALSE]
    BY <1>1, <1>3, <1>5, <1>6, <1>7, Zenon
  <2> QED BY <1>9, <1>10, <2>1, Zenon DEF Copied
<1>12. /\ t \in Registries /\ t.list = r.list /\ t.deleted = r.deleted
       /\ t.ufv = r.ufv /\ t.ufvl = r.ufvl /\ t.replaced = r.replaced
       /\ t.alive = A /\ t.dying = r.dying
  BY <1>8, <1>10 DEF Registries
<1>13. t.item[j] = x /\ \A l \in Items \ {j} : t.item[l] = r.item[l]
  BY <1>8, <1>10 DEF Registries
<1>14. r.dying \subseteq r.alive /\ j \notin ListedIn(r)
  BY SoundOf DEF Sound
<1>15. ElseSame(r, t, j)
  BY <1>9, <1>12, <1>13, <1>14 DEF ElseSame
<1> QED BY <1>4, <1>8, <1>9, <1>11, <1>12, <1>13, <1>14, <1>15

(* setLocal of a global item keeps the invariant: the item is changed while it
   is registered, and its copy is added after that. *)
LEMMA MakeLocalKeeps ==
  ASSUME NamesInv, NEW i \in listed, NEW j \in Fresh, NEW will_be_active \in -1..1,
         LET local == [Copied(reg, i, j) EXCEPT !.item[i].local = TRUE]
             set == setActive(local, i, will_be_active # 0)
             added == addItem(set, j, TRUE, TRUE)
         IN  /\ ~reg.item[i].local
             /\ Call(IF reg.item[i].active /\ will_be_active = 0
                     THEN setActive(added, j, TRUE) ELSE added, FALSE)
  PROVE  NamesInv'
<1>1. reg \in Registries /\ Sound(reg) /\ Held(reg, {}, Nothing)
  BY DEF NamesInv
<1>2. i \in ListedIn(reg) /\ i \in Items /\ j \in Items \ reg.alive
  BY <1>1, ListsOf DEF listed, ListedIn, Fresh
<1>3. PICK yes \in BOOLEAN, no \in BOOLEAN, wba \in BOOLEAN : yes = TRUE /\ no = FALSE /\ wba = (will_be_active # 0)
  OBVIOUS
<1>4. PICK c : c = Copied(reg, i, j)
  OBVIOUS
<1>5. /\ ElseSame(reg, c, j) /\ c \in Registries /\ j \notin ListedIn(reg)
      /\ c.item[j].names # <<>> /\ j \in c.alive /\ j \notin c.dying
  BY <1>1, <1>2, <1>4, CopiedOf
<1>6. /\ Sound(c) /\ ListedIn(c) = ListedIn(reg)
      /\ Sorted(reg, {j}) => Sorted(c, {j})
      /\ \A X, P : Held(reg, X, P) => Held(c, X, P)
  BY <1>1, <1>2, <1>5, ElseSameOf
<1>7. Held(c, {}, Nothing) /\ (Sorted(reg, {}) => Sorted(c, {}))
  <2>1. Held(c, {}, Nothing)
    BY <1>1, <1>6
  <2>2. Sorted(reg, {}) => Sorted(reg, {j})
    BY SortedLess
  <2> QED BY <1>5, <1>6, <2>1, <2>2, SortedListed
<1>8. PICK l : l = Localized(c, i, yes)
  OBVIOUS
<1>9. /\ l \in Registries /\ SameBooks(c, l)
      /\ \A k \in Items : l.item[k].names = c.item[k].names
      /\ Sound(l) /\ Held(l, {}, Nothing) /\ (Sorted(c, {}) => Sorted(l, {}))
  BY <1>2, <1>5, <1>6, <1>7, <1>8, LocalizedKeeps
<1>10. ListedIn(l) = ListedIn(c)
  BY <1>9 DEF ListedIn, SameBooks
<1>11. PICK s : s = setActive(l, i, wba)
  OBVIOUS
<1>12. i \in ListedIn(l) /\ j \notin ListedIn(l)
  BY <1>2, <1>5, <1>6, <1>10
<1>13. /\ s \in Registries /\ Sound(s) /\ Held(s, {}, Nothing) /\ (Sorted(l, {}) => Sorted(s, {}))
       /\ ListedIn(s) = ListedIn(l) /\ SameItems(l, s) /\ SameBooks(l, s)
  BY <1>2, <1>9, <1>11, <1>12, SetActiveOf
<1>14. /\ j \notin ListedIn(s) /\ s.item[j].names # <<>> /\ j \in s.alive /\ j \notin s.dying
  BY <1>2, <1>5, <1>9, <1>12, <1>13 DEF SameItems, SameBooks
<1>15. PICK a : a = addItem(s, j, yes, yes)
  OBVIOUS
<1>16. Added(s, j, a)
  BY <1>2, <1>3, <1>13, <1>14, <1>15, AddItemOf
<1>17. /\ a \in Registries /\ Sound(a) /\ j \in ListedIn(a) /\ Held(a, {}, Nothing)
       /\ Sorted(s, {}) => Sorted(a, {})
  BY <1>13, <1>16 DEF Added
<1>18. PICK t : t = setActive(a, j, yes)
  OBVIOUS
<1>19. /\ t \in Registries /\ Sound(t) /\ Held(t, {}, Nothing) /\ (Sorted(a, {}) => Sorted(t, {}))
  BY <1>2, <1>17, <1>18, SetActiveOf
<1>20. PICK u : u = IF reg.item[i].active /\ will_be_active = 0 THEN t ELSE a
  OBVIOUS
<1>21. Call(u, no)
  <2>1. Call(IF reg.item[i].active /\ will_be_active = 0
             THEN setActive(addItem(setActive([Copied(reg, i, j) EXCEPT !.item[i].local = TRUE], i,
                                              will_be_active # 0), j, TRUE, TRUE), j, TRUE)
             ELSE addItem(setActive([Copied(reg, i, j) EXCEPT !.item[i].local = TRUE], i,
                                    will_be_active # 0), j, TRUE, TRUE), FALSE)
    BY Zenon
  <2>2. [Copied(reg, i, j) EXCEPT !.item[i].local = TRUE] = l
    BY <1>3, <1>4, <1>8, Zenon DEF Localized
  <2>3. setActive(l, i, will_be_active # 0) = s
    BY <1>3, <1>11, Zenon
  <2>4. addItem(s, j, TRUE, TRUE) = a
    BY <1>3, <1>15, Zenon
  <2>5. setActive(a, j, TRUE) = t
    BY <1>3, <1>18, Zenon
  <2> QED BY <1>3, <1>20, <2>1, <2>2, <2>3, <2>4, <2>5, Zenon
<1>22. u \in Registries /\ Sound(u) /\ Held(u, {}, Nothing) /\ (Sorted(reg, {}) => Sorted(u, {}))
  BY <1>7, <1>9, <1>13, <1>17, <1>19, <1>20
<1> QED BY <1>3, <1>21, <1>22, OtherCallKeeps

(* setLocal keeps the invariant. *)
LEMMA SetLocalKeeps ==
  ASSUME NamesInv, setLocal
  PROVE  NamesInv'
<1>1. CASE \E i \in listed, j \in Fresh, will_be_active \in -1..1 :
             LET local == [Copied(reg, i, j) EXCEPT !.item[i].local = TRUE]
                 set == setActive(local, i, will_be_active # 0)
                 added == addItem(set, j, TRUE, TRUE)
             IN  /\ ~reg.item[i].local
                 /\ Call(IF reg.item[i].active /\ will_be_active = 0
                         THEN setActive(added, j, TRUE) ELSE added, FALSE)
  BY <1>1, MakeLocalKeeps, Zenon
<1>2. CASE \E i \in listed : /\ reg.item[i].local
                           /\ Call([reg EXCEPT !.item[i].local = FALSE], FALSE)
  <2>1. PICK i \in listed : Call([reg EXCEPT !.item[i].local = FALSE], FALSE)
    BY <1>2
  <2>2. reg \in Registries /\ Sound(reg) /\ Held(reg, {}, Nothing)
    BY DEF NamesInv
  <2>3. i \in Items
    BY <2>2, ListsOf DEF listed
  <2>4. PICK no \in BOOLEAN : no = FALSE
    OBVIOUS
  <2>5. PICK t : t = Localized(reg, i, no)
    OBVIOUS
  <2>6. t \in Registries /\ Sound(t) /\ Held(t, {}, Nothing) /\ (Sorted(reg, {}) => Sorted(t, {}))
    BY <2>2, <2>3, <2>5, LocalizedKeeps
  <2>7. Call(t, no)
    BY <2>1, <2>4, <2>5, Zenon DEF Localized
  <2> QED BY <2>4, <2>6, <2>7, OtherCallKeeps
<1>3. CASE \E i \in listed, will_be_active \in BOOLEAN : Call(setActive(reg, i, will_be_active), FALSE)
  <2>1. PICK i \in listed, will_be_active \in BOOLEAN : Call(setActive(reg, i, will_be_active), FALSE)
    BY <1>3
  <2>2. reg \in Registries /\ Sound(reg) /\ Held(reg, {}, Nothing)
    BY DEF NamesInv
  <2>3. i \in ListedIn(reg) /\ i \in Items
    BY <2>2, ListsOf DEF listed, ListedIn
  <2>4. PICK t : t = setActive(reg, i, will_be_active)
    OBVIOUS
  <2>5. t \in Registries /\ Sound(t) /\ Held(t, {}, Nothing) /\ (Sorted(reg, {}) => Sorted(t, {}))
    BY <2>2, <2>3, <2>4, SetActiveOf
  <2>6. PICK no : no = FALSE
    OBVIOUS
  <2>7. Call(t, no)
    BY <2>1, <2>4, <2>6, Zenon
  <2> QED BY <2>5, <2>6, <2>7, OtherCallKeeps
<1> QED BY <1>1, <1>2, <1>3, Zenon DEF setLocal

(* The calculator starts with no items and empty tables. *)
LEMMA NamesInvInit ==
  ASSUME Init
  PROVE  NamesInv
<1>1. /\ reg.item = [i \in Items |-> None] /\ reg.list = [k \in Kinds |-> <<>>]
      /\ reg.deleted = [k \in Kinds |-> {}] /\ reg.ufv = [k \in Kinds |-> <<>>]
      /\ reg.ufvl = <<>> /\ reg.alive = {} /\ reg.dying = {} /\ reg.replaced = FALSE
  BY DEF Init
<1>2. reg \in Registries
  <2>1. None \in ItemRecords
    BY DEF None, ItemRecords, Kinds, Used
  <2>2. PICK x \in ItemRecords : x = None
    BY <2>1
  <2>3. PICK f \in [Items -> ItemRecords] : f = [i \in Items |-> x]
    OBVIOUS
  <2>a. <<>> \in Seq(Items) /\ <<>> \in Seq(EntryType)
    OBVIOUS
  <2>b. PICK y \in Seq(Items), w \in Seq(EntryType) : y = <<>> /\ w = <<>>
    BY <2>a
  <2>4. PICK l \in [Kinds -> Seq(Items)] : l = [k \in Kinds |-> y]
    OBVIOUS
  <2>5. PICK d \in [Kinds -> SUBSET Items] : d = [k \in Kinds |-> {}]
    OBVIOUS
  <2>6. PICK v \in [Kinds -> Seq(EntryType)] : v = [k \in Kinds |-> w]
    OBVIOUS
  <2>8. PICK e \in SUBSET Items : e = {}
    OBVIOUS
  <2>9. PICK no \in BOOLEAN : no = FALSE
    OBVIOUS
  <2>10. reg = [item |-> f, list |-> l, deleted |-> d, ufv |-> v, ufvl |-> w,
                alive |-> e, dying |-> e, replaced |-> no]
    BY <2>2, <2>3, <2>b, <2>4, <2>5, <2>6, <2>8, <2>9, Zenon DEF Init
  <2> QED BY <2>10 DEF Registries
<1>3. \A k \in Kinds : ToSet(reg.list[k]) = {} /\ IsInjective(reg.list[k])
  BY <1>1 DEF ToSet, IsInjective
<1>4. Sound(reg)
  BY <1>1, <1>3 DEF Sound
<1>5. ListedIn(reg) = {}
  BY <1>3 DEF ListedIn
<1>6. Held(reg, {}, Nothing)
  <2>1. Entered(reg, {}) = {}
    BY <1>5 DEF Entered
  <2>2. \A w \in Wheres : Table(reg, w) = <<>>
    BY <1>1 DEF Table, Wheres
  <2>3. \A w \in Wheres : IsInjective(Table(reg, w)) /\ ToSet(Table(reg, w)) = {}
    BY <2>2 DEF ToSet, IsInjective
  <2> QED BY <2>1, <2>3 DEF Held, Nothing
<1>7. Sorted(reg, {})
  <2>1. DOMAIN reg.ufvl = {}
    BY <1>1
  <2> QED BY <2>1 DEF Sorted
<1>8. Apart(reg)
  <2>1. PICK f \in Kinds : f = "function"
    BY DEF Kinds
  <2>2. ToSet(reg.list["function"]) = {}
    BY <1>3, <2>1
  <2> QED BY <2>2 DEF Apart
<1>9. Shadowed(reg) /\ Unique(reg)
  BY <1>5 DEF Shadowed, Unique
<1>10. calls \in 0..MaxCalls /\ {plain, apart, tidy} \subseteq BOOLEAN
  BY NamesAssumption DEF Init
<1> QED BY <1>2, <1>4, <1>6, <1>7, <1>8, <1>9, <1>10 DEF NamesInv

(* Every call keeps the invariant. *)
LEMMA NamesInvNext ==
  ASSUME NamesInv, [Next]_vars
  PROVE  NamesInv'
<1>1. CASE Next
  BY <1>1, AddKeeps, LoadGlobalKeeps, ActivateNamedKeeps, DeactivateNamedKeeps, RestoreAllKeeps,
     DestroyKeeps, UnrefKeeps, SetNameKeeps, AddNameKeeps, RemoveNameKeeps, SetLocalKeeps, Zenon DEF Next
<1>2. CASE UNCHANGED vars
  <2>1. reg' = reg /\ calls' = calls /\ plain' = plain /\ apart' = apart /\ tidy' = tidy
    BY <1>2 DEF vars
  <2> QED BY <2>1 DEF NamesInv
<1> QED BY <1>1, <1>2

------------------------------------------------------------------------------
(* The theorems *)

(* Two sequences without repetition and with nothing in common make one without
   repetition. *)
LEMMA JoinedInjective ==
  ASSUME NEW T, NEW a \in Seq(T), NEW b \in Seq(T), IsInjective(a), IsInjective(b),
         ToSet(a) \cap ToSet(b) = {}
  PROVE  IsInjective(a \o b)
<1>1. PICK m \in Nat, n \in Nat : m = Len(a) /\ n = Len(b) /\ DOMAIN a = 1..m /\ DOMAIN b = 1..n
  OBVIOUS
<1>2. PICK c : c = a \o b
  OBVIOUS
<1>3. DOMAIN c = 1..(m + n) /\ (\A p \in 1..m : c[p] = a[p]) /\ (\A p \in 1..n : c[m + p] = b[p])
  BY <1>1, <1>2
<1>4. /\ \A p, q \in 1..m : a[p] = a[q] => p = q
      /\ \A p, q \in 1..n : b[p] = b[q] => p = q
  BY <1>1 DEF IsInjective
<1>5. \A p \in 1..m, q \in 1..n : a[p] # b[q]
  BY <1>1 DEF ToSet
<1>6. ASSUME NEW p \in 1..(m + n), NEW q \in 1..(m + n), c[p] = c[q] PROVE p = q
  <2>1. \A x \in 1..(m + n) : x \in 1..m \/ \E y \in 1..n : x = m + y
    <3> TAKE x \in 1..(m + n)
    <3>1. x \notin 1..m => x - m \in 1..n /\ x = m + (x - m)
      BY <1>1
    <3> QED BY <3>1
  <2>2. CASE p \in 1..m /\ q \in 1..m
    BY <1>3, <1>4, <1>6, <2>2
  <2>3. CASE p \in 1..m /\ q \notin 1..m
    <3>1. PICK y \in 1..n : q = m + y
      BY <2>1, <2>3
    <3>2. c[p] = a[p] /\ c[q] = b[y]
      BY <1>3, <2>3, <3>1
    <3> QED BY <1>5, <1>6, <2>3, <3>2
  <2>4. CASE p \notin 1..m /\ q \in 1..m
    <3>1. PICK y \in 1..n : p = m + y
      BY <2>1, <2>4
    <3>2. c[q] = a[q] /\ c[p] = b[y]
      BY <1>3, <2>4, <3>1
    <3> QED BY <1>5, <1>6, <2>4, <3>2
  <2>5. CASE p \notin 1..m /\ q \notin 1..m
    <3>1. PICK y \in 1..n : p = m + y
      BY <2>1, <2>5
    <3>2. PICK z \in 1..n : q = m + z
      BY <2>1, <2>5
    <3>3. c[p] = b[y] /\ c[q] = b[z]
      BY <1>3, <3>1, <3>2
    <3>4. y = z
      BY <1>4, <1>6, <3>3
    <3> QED BY <3>1, <3>2, <3>4
  <2> QED BY <2>2, <2>3, <2>4, <2>5
<1>7. IsInjective(c)
  BY <1>3, <1>6 DEF IsInjective
<1> QED BY <1>2, <1>7

(* The invariant gives what is said of the type, *)
LEMMA NamesInvType ==
  ASSUME NamesInv
  PROVE  TypeOK
<1>1. reg \in Registries /\ Sound(reg)
  BY DEF NamesInv
<1>2. /\ reg.item \in [Items -> ItemRecords]
      /\ \A i \in Items : reg.item[i].kind \in Kinds /\ reg.item[i].active \in BOOLEAN
      /\ \A k \in Kinds : reg.list[k] \in Seq(Items) /\ reg.deleted[k] \subseteq Items
      /\ reg.ufv \in [Kinds -> Seq(EntryType)] /\ reg.ufvl \in Seq(EntryType)
      /\ reg.replaced \in BOOLEAN
  BY <1>1, Fields
<1>3. \A k \in Kinds : /\ ToSet(reg.list[k]) \subseteq Items
                       /\ reg.deleted[k] \subseteq Items
                       /\ ToSet(reg.ufv[k]) \subseteq EntryType
  <2> TAKE k \in Kinds
  <2>1. reg.list[k] \in Seq(Items) /\ reg.ufv[k] \in Seq(EntryType) /\ reg.deleted[k] \subseteq Items
    BY <1>2
  <2>2. ToSet(reg.list[k]) \subseteq Items /\ ToSet(reg.ufv[k]) \subseteq EntryType
    BY <2>1 DEF ToSet
  <2> QED BY <2>1, <2>2
<1>4. ToSet(reg.ufvl) \subseteq EntryType
  BY <1>2 DEF ToSet
<1>5. reg.dying \subseteq reg.alive
  BY <1>1 DEF Sound
<1>6. calls \in 0..MaxCalls /\ {plain, apart, tidy, reg.replaced} \subseteq BOOLEAN
  BY <1>2 DEF NamesInv
<1> QED BY <1>2, <1>3, <1>4, <1>5, <1>6 DEF TypeOK

(* of the tables, *)
LEMMA NamesInvTables ==
  ASSUME NamesInv
  PROVE  TablesInStep
<1>1. reg \in Registries /\ Held(reg, {}, Nothing)
  BY DEF NamesInv
<1>2. PICK l \in Seq(EntryType), v \in Seq(EntryType), f \in Seq(EntryType), u \in Seq(EntryType) :
        l = reg.ufvl /\ v = reg.ufv["variable"] /\ f = reg.ufv["function"] /\ u = reg.ufv["unit"]
  <2>1. reg.ufvl \in Seq(EntryType) /\ reg.ufv \in [Kinds -> Seq(EntryType)]
    BY <1>1, Fields
  <2>2. \A k \in Kinds : reg.ufv[k] \in Seq(EntryType)
    BY <2>1
  <2> QED BY <2>1, <2>2 DEF Kinds
<1>3. PICK E : E = Entered(reg, {})
  OBVIOUS
<1>4. /\ IsInjective(l) /\ ToSet(l) = {e \in E : Place(reg, e) = "ufvl"}
      /\ IsInjective(v) /\ ToSet(v) = {e \in E : Place(reg, e) = "variable"}
      /\ IsInjective(f) /\ ToSet(f) = {e \in E : Place(reg, e) = "function"}
      /\ IsInjective(u) /\ ToSet(u) = {e \in E : Place(reg, e) = "unit"}
  <2>1. \A w \in Wheres : IsInjective(Table(reg, w)) /\ ToSet(Table(reg, w)) = {e \in E : Place(reg, e) = w}
    BY <1>1, <1>3 DEF Held, Nothing
  <2>2. /\ Table(reg, "ufvl") = l /\ Table(reg, "variable") = v
        /\ Table(reg, "function") = f /\ Table(reg, "unit") = u
    BY <1>2 DEF Table
  <2>3. /\ IsInjective(Table(reg, "ufvl")) /\ ToSet(Table(reg, "ufvl")) = {e \in E : Place(reg, e) = "ufvl"}
        /\ IsInjective(Table(reg, "variable")) /\ ToSet(Table(reg, "variable")) = {e \in E : Place(reg, e) = "variable"}
        /\ IsInjective(Table(reg, "function")) /\ ToSet(Table(reg, "function")) = {e \in E : Place(reg, e) = "function"}
        /\ IsInjective(Table(reg, "unit")) /\ ToSet(Table(reg, "unit")) = {e \in E : Place(reg, e) = "unit"}
    BY <2>1 DEF Wheres, Kinds
  <2> QED BY <2>2, <2>3
<1>5. \A e \in E : /\ Place(reg, e) \in {"ufvl", "variable", "function", "unit"}
                   /\ e[1] \in Items /\ e[2] \in DOMAIN reg.item[e[1]].names
  <2> TAKE e \in E
  <2>1. e[1] \in Items /\ e[2] \in DOMAIN reg.item[e[1]].names
    BY <1>1, <1>3, EnteredOf
  <2>2. reg.item[e[1]].kind \in Kinds
    BY <1>1, <2>1, Fields
  <2> QED BY <2>1, <2>2 DEF Place, Kinds
<1>6. PICK a \in Seq(EntryType) : a = l \o v /\ ToSet(a) = ToSet(l) \cup ToSet(v) /\ IsInjective(a)
  <2>1. l \o v \in Seq(EntryType) /\ ToSet(l \o v) = ToSet(l) \cup ToSet(v)
    BY ConcatSet
  <2>2. ToSet(l) \cap ToSet(v) = {}
    BY <1>4
  <2>3. IsInjective(l \o v)
    BY <1>4, <2>2, JoinedInjective
  <2> QED BY <2>1, <2>3
<1>7. PICK b \in Seq(EntryType) : b = a \o f /\ ToSet(b) = ToSet(a) \cup ToSet(f) /\ IsInjective(b)
  <2>1. a \o f \in Seq(EntryType) /\ ToSet(a \o f) = ToSet(a) \cup ToSet(f)
    BY ConcatSet
  <2>2. ToSet(a) \cap ToSet(f) = {}
    BY <1>4, <1>6
  <2>3. IsInjective(a \o f)
    BY <1>4, <1>6, <2>2, JoinedInjective
  <2> QED BY <2>1, <2>3
<1>8. PICK c \in Seq(EntryType) : c = b \o u /\ ToSet(c) = ToSet(b) \cup ToSet(u) /\ IsInjective(c)
  <2>1. b \o u \in Seq(EntryType) /\ ToSet(b \o u) = ToSet(b) \cup ToSet(u)
    BY ConcatSet
  <2>2. ToSet(b) \cap ToSet(u) = {}
    BY <1>4, <1>6, <1>7
  <2>3. IsInjective(b \o u)
    BY <1>4, <1>7, <2>2, JoinedInjective
  <2> QED BY <2>1, <2>3
<1>9. c = reg.ufvl \o reg.ufv["variable"] \o reg.ufv["function"] \o reg.ufv["unit"]
  BY <1>2, <1>6, <1>7, <1>8, Zenon
<1>10. ToSet(c) = E
  BY <1>4, <1>5, <1>6, <1>7, <1>8
<1>11. E = UNION {{<<i, k>> : k \in DOMAIN reg.item[i].names} : i \in {j \in listed : reg.item[j].active}}
  BY <1>3 DEF Entered, listed, ListedIn
<1>12. ASSUME tidy, NEW p \in DOMAIN reg.ufvl, NEW q \in DOMAIN reg.ufvl, p < q
       PROVE  Before(reg, reg.ufvl[p], reg.ufvl[q])
  <2>1. Sorted(reg, {})
    BY <1>12 DEF NamesInv
  <2> QED BY <1>12, <2>1 DEF Sorted
<1>13. \A e : Rank(reg.item[e[1]].kind) = CASE reg.item[e[1]].kind = "function" -> 0
                                            [] reg.item[e[1]].kind = "unit" -> 1
                                            [] OTHER -> 2
  BY DEF Rank
<1>14. \A p, q \in DOMAIN reg.ufvl : tidy /\ p < q =>
         \/ LengthAt(reg, reg.ufvl[p]) > LengthAt(reg, reg.ufvl[q])
         \/ /\ LengthAt(reg, reg.ufvl[p]) = LengthAt(reg, reg.ufvl[q])
            /\ Rank(reg.item[reg.ufvl[p][1]].kind) <= Rank(reg.item[reg.ufvl[q][1]].kind)
  BY <1>12 DEF Before
<1> QED BY <1>8, <1>9, <1>10, <1>11, <1>13, <1>14, Zenon DEF TablesInStep, LengthAt, Rank

(* of what may still be there, *)
LEMMA NamesInvListed ==
  ASSUME NamesInv
  PROVE  StillHasWhatIsListed
<1>1. Sound(reg)
  BY DEF NamesInv
<1>2. listed = ListedIn(reg)
  BY DEF listed, ListedIn
<1>3. \A k \in Kinds : ToSet(reg.list[k]) \cap reg.deleted[k] = {} /\ IsInjective(reg.list[k])
  BY <1>1 DEF Sound
<1>4. ListedIn(reg) \subseteq reg.alive
  BY <1>1 DEF Sound, ListedIn
<1> QED BY <1>2, <1>3, <1>4 DEF StillHasWhatIsListed

(* of the inactive items, *)
LEMMA NamesInvShadowed ==
  ASSUME NamesInv
  PROVE  InactiveIsShadowed
<1>1. listed = ListedIn(reg)
  BY DEF listed, ListedIn
<1> QED BY <1>1 DEF NamesInv, Shadowed, Shaded, InactiveIsShadowed

(* and of names that are unique. *)
LEMMA NamesInvUnique ==
  ASSUME NamesInv
  PROVE  NameIsUnique
<1>1. listed = ListedIn(reg)
  BY DEF listed, ListedIn
<1> QED BY <1>1 DEF NamesInv, Unique, NameIsUnique

(* The inductive invariant holds throughout. *)
THEOREM NamesInvHolds == Spec => []NamesInv
<1>1. Init => NamesInv
  BY NamesInvInit
<1>2. NamesInv /\ [Next]_vars => NamesInv'
  BY NamesInvNext
<1> QED BY <1>1, <1>2, PTL DEF Spec

(* The registry keeps its type through every call: no vector, table or set gets
   a null pointer or an index below the first, for any number of items, names
   and calls. *)
THEOREM NamesType == Spec => []TypeOK
<1>1. NamesInv => TypeOK
  BY NamesInvType
<1> QED BY <1>1, NamesInvHolds, PTL

(* The tables of the parser (ufv and ufvl) are in step with the items after
   every call, for any number of items, names and calls: each name of each
   active registered item once, nothing else, the long ones in the order in
   which the parser tries them while tidy. *)
THEOREM NamesTables == Spec => []TablesInStep
<1>1. NamesInv => TablesInStep
  BY NamesInvTables
<1> QED BY <1>1, NamesInvHolds, PTL

(* No registered item is one that stillHasVariable, stillHasFunction or
   stillHasUnit denies, or was freed, or is registered twice. *)
THEOREM NamesListed == Spec => []StillHasWhatIsListed
<1>1. NamesInv => StillHasWhatIsListed
  BY NamesInvListed
<1> QED BY <1>1, NamesInvHolds, PTL

(* Adding, destroying and restoring leaves no item inactive without one that
   shares a name with it, whose removal brings it back. *)
THEOREM NamesShadowed == Spec => []InactiveIsShadowed
<1>1. NamesInv => InactiveIsShadowed
  BY NamesInvShadowed
<1> QED BY <1>1, NamesInvHolds, PTL

(* "Each name must be fully unique": no two active items of a class share a
   name, while items are added, destroyed and restored and none takes a name
   from a local one. *)
THEOREM NamesUnique == Spec => []NameIsUnique
<1>1. NamesInv => NameIsUnique
  BY NamesInvUnique
<1> QED BY <1>1, NamesInvHolds, PTL

==============================================================================
