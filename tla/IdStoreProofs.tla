---------------------------- MODULE IdStoreProofs ----------------------------
(***************************************************************************)
(* The three invariants of the id store are inductive together: what its   *)
(* holders expect (HeldIsStored) rests on ids being handed out only when   *)
(* they are free (IdsPartition), and both on the two maps having the same  *)
(* keys (TypeOK).                                                          *)
(***************************************************************************)
EXTENDS IdStore, SequenceTheorems, TLAPS

IInv == TypeOK /\ IdsPartition /\ HeldIsStored

-----------------------------------------------------------------------------
(* Maps and sequences *)

\* One more key in a map.
LEMMA WithFacts ==
  ASSUME NEW f, NEW id, NEW v
  PROVE  /\ DOMAIN With(f, id, v) = DOMAIN f \cup {id}
         /\ With(f, id, v)[id] = v
         /\ \A k \in DOMAIN f : k # id => With(f, id, v)[k] = f[k]
  BY DEF With

\* And its type.
LEMMA WithType ==
  ASSUME NEW S, NEW f, f \in [DOMAIN f -> S], NEW id, NEW v \in S
  PROVE  With(f, id, v) \in [DOMAIN f \cup {id} -> S]
  BY DEF With

\* One less.
LEMMA WithoutFacts ==
  ASSUME NEW f, NEW id
  PROVE  /\ DOMAIN Without(f, id) = DOMAIN f \ {id}
         /\ \A k \in DOMAIN f : k # id => Without(f, id)[k] = f[k]
         /\ \A S : f \in [DOMAIN f -> S] => Without(f, id) \in [DOMAIN f \ {id} -> S]
  BY DEF Without

\* What the last element leaves.
LEMMA FrontFacts ==
  ASSUME NEW S, NEW s \in Seq(S), s # <<>>
  PROVE  /\ Front(s) \in Seq(S) /\ Last(s) \in S
         /\ ToSet(s) = ToSet(Front(s)) \cup {Last(s)}
         /\ IsInjective(s) => IsInjective(Front(s)) /\ Last(s) \notin ToSet(Front(s))
<1>1. /\ Len(s) \in Nat /\ Len(s) > 0 /\ DOMAIN s = 1..Len(s)
      /\ \A i \in 1..Len(s) : s[i] \in S
  BY EmptySeq, LenProperties, ElementOfSeq
<1>2. /\ Front(s) \in Seq(S) /\ Len(Front(s)) = Len(s) - 1
      /\ \A i \in 1..Len(s) - 1 : Front(s)[i] = s[i]
  <2>1. \A i \in 1..Len(s) - 1 : s[i] \in S
    BY <1>1
  <2> QED BY <1>1, <2>1, SubSeqProperties DEF Front
<1>3. DOMAIN Front(s) = 1..Len(s) - 1
  BY <1>2, LenProperties
<1>4. Last(s) = s[Len(s)] /\ Len(s) \in 1..Len(s)
  BY <1>1 DEF Last
<1>5. ToSet(s) = ToSet(Front(s)) \cup {Last(s)}
  BY <1>1, <1>2, <1>3, <1>4 DEF ToSet
<1>6. ASSUME IsInjective(s) PROVE IsInjective(Front(s)) /\ Last(s) \notin ToSet(Front(s))
  BY <1>1, <1>2, <1>3, <1>4, <1>6 DEF IsInjective, ToSet
<1> QED BY <1>1, <1>2, <1>4, <1>5, <1>6

\* What a new last element adds.
LEMMA AppendFacts ==
  ASSUME NEW S, NEW s \in Seq(S), NEW e \in S
  PROVE  /\ Append(s, e) \in Seq(S)
         /\ ToSet(Append(s, e)) = ToSet(s) \cup {e}
         /\ IsInjective(s) /\ e \notin ToSet(s) => IsInjective(Append(s, e))
<1>1. /\ Len(s) \in Nat /\ DOMAIN s = 1..Len(s)
      /\ Append(s, e) \in Seq(S) /\ DOMAIN Append(s, e) = 1..Len(s) + 1
      /\ \A i \in 1..Len(s) : Append(s, e)[i] = s[i]
      /\ Append(s, e)[Len(s) + 1] = e
  BY AppendProperties, LenProperties
<1>2. ToSet(Append(s, e)) = ToSet(s) \cup {e}
  BY <1>1 DEF ToSet
<1>3. ASSUME IsInjective(s), e \notin ToSet(s) PROVE IsInjective(Append(s, e))
  BY <1>1, <1>3 DEF IsInjective, ToSet
<1> QED BY <1>1, <1>2, <1>3

\* A sequence of the elements it has.
LEMMA Retype ==
  ASSUME NEW S, NEW T, NEW s \in Seq(S)
  PROVE  ToSet(s) \subseteq T <=> s \in Seq(T)
<1>1. Len(s) \in Nat /\ DOMAIN s = 1..Len(s)
  BY LenProperties
<1>2. ASSUME ToSet(s) \subseteq T PROVE s \in Seq(T)
  <2>1. \A i \in 1..Len(s) : s[i] \in T
    BY <1>1, <1>2 DEF ToSet
  <2> QED BY <1>1, <2>1
<1>3. ASSUME s \in Seq(T) PROVE ToSet(s) \subseteq T
  BY <1>1, <1>3, ElementOfSeq DEF ToSet
<1> QED BY <1>2, <1>3

-----------------------------------------------------------------------------
(* The steps *)

\* A new value gets an id that nobody has.
LEMMA AllocateStep ==
  ASSUME IInv, NEW v \in Values \cup {Empty}, NEW persistent \in BOOLEAN,
         Allocate(NewId, v, persistent)
  PROVE  /\ NewId \notin DOMAIN id_structs /\ NewId \notin DOMAIN held
         /\ NewId \notin ToSet(parsing)
         /\ ids_i' \in Nat /\ freed_ids' \in Seq(Nat) /\ defined
         /\ DOMAIN id_structs' = DOMAIN id_structs \cup {NewId}
         /\ id_structs' \in [DOMAIN id_structs' -> Values \cup {Empty}]
         /\ ids_p' \in [DOMAIN id_structs' -> BOOLEAN]
         /\ \A k \in DOMAIN id_structs : id_structs'[k] = id_structs[k]
         /\ id_structs'[NewId] = v
         /\ IdsPartition'
<1> USE DEF IInv
<1>1. /\ ids_i \in Nat /\ freed_ids \in Seq(Nat) /\ IsInjective(freed_ids)
      /\ DOMAIN ids_p = DOMAIN id_structs
      /\ id_structs \in [DOMAIN id_structs -> Values \cup {Empty}]
      /\ ids_p \in [DOMAIN ids_p -> BOOLEAN]
      /\ ToSet(freed_ids) \cap DOMAIN ids_p = {}
      /\ ToSet(freed_ids) \cup DOMAIN ids_p = 1..ids_i
      /\ parsing \in Seq(DOMAIN id_structs)
  BY DEF TypeOK, IdsPartition
<1>2. /\ ids_p' = With(ids_p, NewId, persistent) /\ id_structs' = With(id_structs, NewId, v)
      /\ defined
  BY DEF Allocate
<1>3. /\ NewId \notin DOMAIN ids_p
      /\ ids_i' \in Nat /\ freed_ids' \in Seq(Nat) /\ IsInjective(freed_ids')
      /\ NewId \notin ToSet(freed_ids')
      /\ ToSet(freed_ids') \cap DOMAIN ids_p = {}
      /\ ToSet(freed_ids') \cup DOMAIN ids_p \cup {NewId} = 1..ids_i'
  <2>1. CASE freed_ids # <<>>
    <3>1. NewId = Last(freed_ids) /\ freed_ids' = Front(freed_ids) /\ ids_i' = ids_i
      BY <2>1 DEF NewId, Allocate
    <3>2. /\ freed_ids' \in Seq(Nat) /\ IsInjective(freed_ids')
          /\ ToSet(freed_ids) = ToSet(freed_ids') \cup {NewId} /\ NewId \notin ToSet(freed_ids')
      BY <1>1, <2>1, <3>1, FrontFacts
    <3> QED BY <1>1, <3>1, <3>2
  <2>2. CASE freed_ids = <<>>
    <3>1. NewId = ids_i + 1 /\ ids_i' = ids_i + 1 /\ freed_ids' = freed_ids
      BY <2>2 DEF NewId, Allocate
    <3>2. ToSet(freed_ids) = {}
      BY <2>2 DEF ToSet
    <3> QED BY <1>1, <3>1, <3>2
  <2> QED BY <2>1, <2>2
<1>4. /\ DOMAIN ids_p' = DOMAIN ids_p \cup {NewId}
      /\ DOMAIN id_structs' = DOMAIN id_structs \cup {NewId}
      /\ id_structs'[NewId] = v
      /\ \A k \in DOMAIN id_structs : k # NewId => id_structs'[k] = id_structs[k]
  <2>1. DOMAIN ids_p' = DOMAIN ids_p \cup {NewId}
    BY <1>2, WithFacts
  <2>2. /\ DOMAIN id_structs' = DOMAIN id_structs \cup {NewId} /\ id_structs'[NewId] = v
        /\ \A k \in DOMAIN id_structs : k # NewId => id_structs'[k] = id_structs[k]
    BY <1>2 DEF With
  <2> QED BY <2>1, <2>2
<1>5. /\ id_structs' \in [DOMAIN id_structs \cup {NewId} -> Values \cup {Empty}]
      /\ ids_p' \in [DOMAIN ids_p \cup {NewId} -> BOOLEAN]
  BY <1>1, <1>2, WithType
<1>6. IdsPartition'
  BY <1>3, <1>4 DEF IdsPartition
<1>7. ToSet(parsing) \subseteq DOMAIN id_structs
  BY <1>1, Retype
<1>8. DOMAIN held \subseteq DOMAIN id_structs
  BY DEF HeldIsStored
<1> QED BY <1>1, <1>2, <1>3, <1>4, <1>5, <1>6, <1>7, <1>8

\* An id leaves the store: it was a holder's, and is free afterwards.
LEMMA FreeStep ==
  ASSUME IInv, NEW id \in DOMAIN held, AfterGet(id),
         held' = Without(held, id), UNCHANGED <<ids_i, parsing, defined>>
  PROVE  IInv'
<1> USE DEF IInv
<1>1. /\ ids_i \in Nat /\ freed_ids \in Seq(Nat) /\ IsInjective(freed_ids)
      /\ DOMAIN ids_p = DOMAIN id_structs
      /\ id_structs \in [DOMAIN id_structs -> Values \cup {Empty}]
      /\ ids_p \in [DOMAIN ids_p -> BOOLEAN]
      /\ held \in [DOMAIN held -> Values]
      /\ ToSet(freed_ids) \cap DOMAIN ids_p = {}
      /\ ToSet(freed_ids) \cup DOMAIN ids_p = 1..ids_i
      /\ parsing \in Seq(DOMAIN id_structs)
  BY DEF TypeOK, IdsPartition
<1>2. id \in DOMAIN ids_p /\ id \in Nat /\ id \notin ToSet(freed_ids) /\ id \notin ToSet(parsing)
  BY <1>1 DEF HeldIsStored
<1>3. /\ freed_ids' = Append(freed_ids, id) /\ id_structs' = Without(id_structs, id)
      /\ ids_p' = Without(ids_p, id)
  BY DEF AfterGet
<1>4. /\ DOMAIN ids_p' = DOMAIN ids_p \ {id} /\ DOMAIN id_structs' = DOMAIN id_structs \ {id}
      /\ DOMAIN held' = DOMAIN held \ {id}
      /\ \A k \in DOMAIN id_structs : k # id => id_structs'[k] = id_structs[k]
      /\ \A k \in DOMAIN held : k # id => held'[k] = held[k]
  BY <1>3, WithoutFacts
<1>5. /\ id_structs' \in [DOMAIN id_structs' -> Values \cup {Empty}]
      /\ ids_p' \in [DOMAIN id_structs' -> BOOLEAN]
      /\ held' \in [DOMAIN held' -> Values]
  BY <1>1, <1>3, <1>4, WithoutFacts
<1>6. /\ freed_ids' \in Seq(Nat) /\ ToSet(freed_ids') = ToSet(freed_ids) \cup {id}
      /\ IsInjective(freed_ids')
  BY <1>1, <1>2, <1>3, AppendFacts
<1>7. IdsPartition'
  BY <1>1, <1>2, <1>4, <1>6 DEF IdsPartition
<1>8. parsing' \in Seq(DOMAIN id_structs')
  BY <1>1, <1>2, <1>4, Retype
<1>9. TypeOK'
  BY <1>1, <1>5, <1>6, <1>8 DEF TypeOK
<1>10. HeldIsStored'
  BY <1>4 DEF HeldIsStored
<1> QED BY <1>7, <1>9, <1>10

\* A holder's id is forgotten and nothing else changes.
LEMMA ForgetStep ==
  ASSUME IInv, NEW id, held' = Without(held, id) \/ held' = held,
         UNCHANGED <<ids_i, freed_ids, ids_p, id_structs, parsing, defined>>
  PROVE  IInv'
<1>1. held \in [DOMAIN held -> Values]
  BY DEF IInv, TypeOK
<1>2. /\ held' \in [DOMAIN held' -> Values] /\ DOMAIN held' \subseteq DOMAIN held
      /\ \A k \in DOMAIN held' : held'[k] = held[k]
  <2>1. CASE held' = held
    BY <1>1, <2>1
  <2>2. CASE held' = Without(held, id)
    <3>1. /\ DOMAIN held' = DOMAIN held \ {id}
          /\ \A k \in DOMAIN held : k # id => held'[k] = held[k]
      BY <2>2, WithoutFacts, Zenon
    <3>2. held' \in [DOMAIN held \ {id} -> Values]
      BY <1>1, <2>2, WithoutFacts
    <3> QED BY <3>1, <3>2
  <2> QED BY <2>1, <2>2
<1> QED BY <1>2 DEF IInv, TypeOK, IdsPartition, HeldIsStored

\* Every step keeps the three.
LEMMA Step == IInv /\ [Next]_vars => IInv'
<1> SUFFICES ASSUME IInv, [Next]_vars PROVE IInv'
  OBVIOUS
<1>1. ASSUME NEW v \in Values, NEW persistent \in BOOLEAN, addId(v, persistent) PROVE IInv'
  <2>1. /\ Allocate(NewId, v, persistent) /\ held' = With(held, NewId, v)
        /\ parsing' = parsing /\ defined' = defined
    BY <1>1 DEF addId
  <2>2. /\ NewId \notin DOMAIN id_structs /\ NewId \notin DOMAIN held
        /\ NewId \notin ToSet(parsing)
        /\ ids_i' \in Nat /\ freed_ids' \in Seq(Nat)
        /\ DOMAIN id_structs' = DOMAIN id_structs \cup {NewId}
        /\ id_structs' \in [DOMAIN id_structs' -> Values \cup {Empty}]
        /\ ids_p' \in [DOMAIN id_structs' -> BOOLEAN]
        /\ \A k \in DOMAIN id_structs : id_structs'[k] = id_structs[k]
        /\ id_structs'[NewId] = v
        /\ IdsPartition'
    BY <2>1, AllocateStep
  <2>3. /\ held \in [DOMAIN held -> Values] /\ parsing \in Seq(DOMAIN id_structs)
        /\ defined \in BOOLEAN
    BY DEF IInv, TypeOK
  <2>4. /\ DOMAIN held' = DOMAIN held \cup {NewId} /\ held'[NewId] = v
        /\ \A k \in DOMAIN held : k # NewId => held'[k] = held[k]
        /\ held' \in [DOMAIN held' -> Values]
    <3>1. /\ DOMAIN held' = DOMAIN held \cup {NewId} /\ held'[NewId] = v
          /\ \A k \in DOMAIN held : k # NewId => held'[k] = held[k]
      BY <2>1 DEF With
    <3>2. held' \in [DOMAIN held \cup {NewId} -> Values]
      BY <2>1, <2>3, WithType
    <3> QED BY <3>1, <3>2
  <2>5. parsing' \in Seq(DOMAIN id_structs')
    BY <2>1, <2>2, <2>3, SeqMonotonic
  <2>6. TypeOK'
    BY <2>1, <2>2, <2>3, <2>4, <2>5 DEF TypeOK
  <2>7. HeldIsStored'
    BY <2>1, <2>2, <2>4 DEF IInv, HeldIsStored
  <2> QED BY <2>2, <2>6, <2>7 DEF IInv
<1>2. ASSUME NEW persistent \in BOOLEAN, parseAddId(persistent) PROVE IInv'
  <2>1. /\ Allocate(NewId, Empty, persistent) /\ parsing' = Append(parsing, NewId)
        /\ held' = held /\ defined' = defined
    BY <1>2 DEF parseAddId
  <2>2. /\ NewId \notin DOMAIN id_structs /\ NewId \notin DOMAIN held
        /\ NewId \notin ToSet(parsing)
        /\ ids_i' \in Nat /\ freed_ids' \in Seq(Nat)
        /\ DOMAIN id_structs' = DOMAIN id_structs \cup {NewId}
        /\ id_structs' \in [DOMAIN id_structs' -> Values \cup {Empty}]
        /\ ids_p' \in [DOMAIN id_structs' -> BOOLEAN]
        /\ \A k \in DOMAIN id_structs : id_structs'[k] = id_structs[k]
        /\ IdsPartition'
    BY <2>1, AllocateStep
  <2>3. /\ held \in [DOMAIN held -> Values] /\ parsing \in Seq(DOMAIN id_structs)
        /\ defined \in BOOLEAN /\ IsInjective(parsing) /\ ToSet(parsing) \cap DOMAIN held = {}
    BY DEF IInv, TypeOK, HeldIsStored
  <2>4. parsing \in Seq(DOMAIN id_structs') /\ NewId \in DOMAIN id_structs'
    BY <2>2, <2>3, SeqMonotonic
  <2>5. /\ parsing' \in Seq(DOMAIN id_structs') /\ IsInjective(parsing')
        /\ ToSet(parsing') = ToSet(parsing) \cup {NewId}
    BY <2>1, <2>2, <2>3, <2>4, AppendFacts
  <2>6. TypeOK'
    BY <2>1, <2>2, <2>3, <2>5 DEF TypeOK
  <2>7. HeldIsStored'
    BY <2>1, <2>2, <2>3, <2>5 DEF IInv, HeldIsStored
  <2> QED BY <2>2, <2>6, <2>7 DEF IInv
<1>3. ASSUME NEW v \in Values, parseAddIdReturns(v) PROVE IInv'
  <2> DEFINE id == Last(parsing)
  <2>1. /\ parsing # <<>> /\ id_structs' = With(id_structs, id, v) /\ held' = With(held, id, v)
        /\ parsing' = Front(parsing) /\ UNCHANGED <<ids_i, freed_ids, ids_p, defined>>
    BY <1>3 DEF parseAddIdReturns
  <2>2. /\ parsing \in Seq(DOMAIN id_structs) /\ IsInjective(parsing)
        /\ id_structs \in [DOMAIN id_structs -> Values \cup {Empty}]
        /\ held \in [DOMAIN held -> Values] /\ ToSet(parsing) \cap DOMAIN held = {}
    BY DEF IInv, TypeOK, HeldIsStored
  <2>3. /\ parsing' \in Seq(DOMAIN id_structs) /\ id \in DOMAIN id_structs
        /\ ToSet(parsing) = ToSet(parsing') \cup {id}
        /\ IsInjective(parsing') /\ id \notin ToSet(parsing')
    BY <2>1, <2>2, FrontFacts
  <2>4. /\ DOMAIN id_structs' = DOMAIN id_structs \cup {id} /\ id_structs'[id] = v
        /\ \A k \in DOMAIN id_structs : k # id => id_structs'[k] = id_structs[k]
        /\ DOMAIN held' = DOMAIN held \cup {id} /\ held'[id] = v
        /\ \A k \in DOMAIN held : k # id => held'[k] = held[k]
    <3>1. /\ DOMAIN id_structs' = DOMAIN id_structs \cup {id} /\ id_structs'[id] = v
          /\ \A k \in DOMAIN id_structs : k # id => id_structs'[k] = id_structs[k]
      BY <2>1 DEF With
    <3>2. /\ DOMAIN held' = DOMAIN held \cup {id} /\ held'[id] = v
          /\ \A k \in DOMAIN held : k # id => held'[k] = held[k]
      BY <2>1 DEF With
    <3> QED BY <3>1, <3>2
  <2>5. /\ id_structs' \in [DOMAIN id_structs \cup {id} -> Values \cup {Empty}]
        /\ held' \in [DOMAIN held \cup {id} -> Values]
    BY <2>1, <2>2, WithType
  <2>6. DOMAIN id_structs' = DOMAIN id_structs
    BY <2>3, <2>4
  <2>7. TypeOK'
    BY <2>1, <2>3, <2>4, <2>5, <2>6 DEF IInv, TypeOK
  <2>8. IdsPartition'
    BY <2>1 DEF IInv, IdsPartition
  <2>9. HeldIsStored'
    BY <2>2, <2>3, <2>4 DEF IInv, HeldIsStored
  <2> QED BY <2>7, <2>8, <2>9 DEF IInv
<1>4. ASSUME NEW id \in Ids, getId(id) PROVE IInv'
  <2>1. CASE Stays(id)
    BY <1>4, <2>1, ForgetStep DEF getId
  <2>2. CASE ~Stays(id)
    <3>1. id \in DOMAIN held /\ AfterGet(id) /\ UNCHANGED <<ids_i, parsing, defined>>
      BY <1>4, <2>2 DEF getId, Stays
    <3>2. held' = Without(held, id)
      BY <1>4, <2>2 DEF getId, Stays
    <3> QED BY <3>1, <3>2, FreeStep
  <2> QED BY <2>1, <2>2
<1>5. ASSUME NEW id \in Ids, delId(id) PROVE IInv'
  <2>1. CASE Deletable(id)
    <3>1. /\ id \in DOMAIN held /\ AfterGet(id) /\ held' = Without(held, id)
          /\ UNCHANGED <<ids_i, parsing, defined>>
      BY <1>5, <2>1 DEF delId, Deletable, AfterGet
    <3> QED BY <3>1, FreeStep
  <2>2. CASE ~Deletable(id)
    BY <1>5, <2>2, ForgetStep DEF delId
  <2> QED BY <2>1, <2>2
<1>6. ASSUME NEW id \in Ids, Forget(id) PROVE IInv'
  BY <1>6, ForgetStep DEF Forget
<1>7. CASE clearBuffers
  BY <1>7 DEF clearBuffers, IInv, TypeOK, IdsPartition, HeldIsStored
<1>8. CASE UNCHANGED vars
  BY <1>8 DEF vars, IInv, TypeOK, IdsPartition, HeldIsStored
<1> QED BY <1>1, <1>2, <1>3, <1>4, <1>5, <1>6, <1>7, <1>8 DEF Next

\* The store is empty at first.
LEMMA Start == Init => IInv
<1> SUFFICES ASSUME Init PROVE IInv
  OBVIOUS
<1>1. DOMAIN ids_p = {} /\ DOMAIN id_structs = {} /\ DOMAIN held = {} /\ ToSet(freed_ids) = {}
      /\ ToSet(parsing) = {}
  BY DEF Init, ToSet
<1>2. TypeOK
  BY <1>1 DEF Init, TypeOK
<1>3. IdsPartition
  BY <1>1 DEF Init, IdsPartition, IsInjective
<1>4. HeldIsStored
  BY <1>1 DEF Init, HeldIsStored, IsInjective
<1> QED BY <1>2, <1>3, <1>4 DEF IInv

LEMMA Inductive == Spec => []IInv
  BY Start, Step, PTL DEF Spec

-----------------------------------------------------------------------------
\* The two maps have the same keys, whatever is stored and however deep the
\* parsers are nested (addId, parseAddId, getId, delId in Calculator.cc).
THEOREM Typing == Spec => []TypeOK
<1>1. IInv => TypeOK
  BY DEF IInv
<1> QED BY <1>1, Inductive, PTL

\* No id is lost or handed out twice (getId and delId free it, addId and
\* parseAddId take it).
THEOREM Partition == Spec => []IdsPartition
<1>1. IInv => IdsPartition
  BY DEF IInv
<1> QED BY <1>1, Inductive, PTL

\* Whoever holds an id finds the value that was stored for it (getId), and a
\* parser's structure is nobody else's (parseAddId).
THEOREM HolderFinds == Spec => []HeldIsStored
<1>1. IInv => HeldIsStored
  BY DEF IInv
<1> QED BY <1>1, Inductive, PTL
=============================================================================
