------------------------------- MODULE IdStore -------------------------------
(***************************************************************************)
(* The store in which the parser keeps what it replaces by an id in the    *)
(* text: addId, parseAddId (with parseAddIdAppend and parseAddVectorId,    *)
(* which differ in the parser they call), getId, delId, clearBuffers.      *)
(*                                                                         *)
(* parseAddId registers an empty structure and lets a parser fill it; that *)
(* parser stores and fetches values of its own before it returns.  parsing *)
(* is the stack of the calls in progress.                                  *)
(*                                                                         *)
(* A client holds an id as text "{id}": once, when the value leaves the    *)
(* store with the first getId, or until delId, when it is persistent.      *)
(* held says which values the holders expect.                              *)
(***************************************************************************)
EXTENDS Integers, SequencesExt, FiniteSetsExt

CONSTANTS Values,     \* the structures' contents; Empty is not among them
          Empty,
          MaxIds,     \* bound: values stored at a time
          MaxDepth    \* bound: nested parseAddId calls

ASSUME IdStoreAssumption ==
    /\ Empty \notin Values
    /\ MaxIds \in Nat /\ MaxDepth \in Nat

VARIABLES ids_i,         \* the highest id in use so far
          freed_ids,     \* ids to use again, the last one first
          ids_p,         \* id -> persistent
          id_structs,    \* id -> structure
          parsing,       \* ids of the parseAddId calls in progress
          held,          \* id -> what its holder expects
          defined        \* no undefined behaviour so far

vars == <<ids_i, freed_ids, ids_p, id_structs, parsing, held, defined>>
-----------------------------------------------------------------------------
Without(f, id) == [k \in DOMAIN f \ {id} |-> f[k]]
With(f, id, v) == [k \in DOMAIN f \cup {id} |-> IF k = id THEN v ELSE f[k]]

Init ==
    /\ ids_i = 0 /\ freed_ids = <<>>
    /\ ids_p = <<>> /\ id_structs = <<>>
    /\ parsing = <<>> /\ held = <<>>
    /\ defined = TRUE

\* The id a new value gets: the one freed last, or the next.
NewId == IF freed_ids # <<>> THEN Last(freed_ids) ELSE ids_i + 1

Allocate(id, v, persistent) ==
    /\ defined /\ Cardinality(DOMAIN ids_p) < MaxIds
    /\ IF freed_ids # <<>> THEN freed_ids' = Front(freed_ids) /\ UNCHANGED ids_i
       ELSE ids_i' = ids_i + 1 /\ UNCHANGED freed_ids
    /\ ids_p' = With(ids_p, id, persistent)
    /\ id_structs' = With(id_structs, id, v)

addId(v, persistent) ==
    /\ Allocate(NewId, v, persistent)
    /\ held' = With(held, NewId, v)
    /\ UNCHANGED <<parsing, defined>>

parseAddId(persistent) ==
    /\ Len(parsing) < MaxDepth
    /\ Allocate(NewId, Empty, persistent)
    /\ parsing' = Append(parsing, NewId)
    /\ UNCHANGED <<held, defined>>

\* The parser wrote to the structure it was given and the id is returned.
parseAddIdReturns(v) ==
    /\ defined /\ parsing # <<>>
    /\ id_structs' = With(id_structs, Last(parsing), v)
    /\ held' = With(held, Last(parsing), v)
    /\ parsing' = Front(parsing)
    /\ UNCHANGED <<ids_i, freed_ids, ids_p, defined>>

\* getId: a copy, or the structure itself and the id is free.  Ids that are
\* not in the store are answered with NULL.
MutAfterGet(id) ==
    /\ freed_ids' = Append(freed_ids, id)
    /\ id_structs' = Without(id_structs, id)
    /\ UNCHANGED ids_p
AfterGet(id) ==
    /\ freed_ids' = Append(freed_ids, id)
    /\ id_structs' = Without(id_structs, id)
    /\ ids_p' = Without(ids_p, id)

MutStays(id) == id \notin DOMAIN id_structs
Stays(id) == id \notin DOMAIN id_structs \/ ids_p[id]

getId(id) ==
    /\ defined /\ (id \in DOMAIN held \/ id \notin DOMAIN id_structs)
    /\ IF Stays(id) THEN UNCHANGED <<freed_ids, ids_p, id_structs>> ELSE AfterGet(id)
    /\ held' = IF \E i \in DOMAIN ids_p : i = id /\ ids_p[i] THEN held ELSE Without(held, id)
    /\ UNCHANGED <<ids_i, parsing, defined>>

\* delId by a holder, or a late one of an id that is in the store no more.
MutDeletable(id) == TRUE
Deletable(id) == id \in DOMAIN ids_p

delId(id) ==
    /\ defined /\ (id \in DOMAIN held \/ id \notin DOMAIN ids_p)
    /\ IF Deletable(id)
       THEN /\ freed_ids' = Append(freed_ids, id)
            /\ id_structs' = Without(id_structs, id)
            /\ ids_p' = Without(ids_p, id)
       ELSE UNCHANGED <<freed_ids, id_structs, ids_p>>
    /\ held' = Without(held, id)
    /\ UNCHANGED <<ids_i, parsing, defined>>

\* A holder's text is thrown away: the value stays.
Forget(id) ==
    /\ defined /\ id \in DOMAIN held
    /\ held' = Without(held, id)
    /\ UNCHANGED <<ids_i, freed_ids, ids_p, id_structs, parsing, defined>>

\* clearBuffers erases while it iterates: undefined with a value that is not
\* persistent, nothing without.
clearBuffers ==
    /\ defined
    /\ defined' = \A id \in DOMAIN ids_p : ids_p[id]
    /\ UNCHANGED <<ids_i, freed_ids, ids_p, id_structs, parsing, held>>

Ids == 1..MaxIds

Next ==
    \/ \E v \in Values, persistent \in BOOLEAN : addId(v, persistent)
    \/ \E persistent \in BOOLEAN : parseAddId(persistent)
    \/ \E v \in Values : parseAddIdReturns(v)
    \/ \E id \in Ids : getId(id) \/ delId(id) \/ Forget(id)
    \/ clearBuffers

Spec == Init /\ [][Next]_vars
-----------------------------------------------------------------------------
\* The two maps of the store have the same keys.
TypeOK ==
    /\ ids_i \in Nat /\ freed_ids \in Seq(Nat) /\ defined \in BOOLEAN
    /\ id_structs \in [DOMAIN id_structs -> Values \cup {Empty}]
    /\ ids_p \in [DOMAIN id_structs -> BOOLEAN]
    /\ held \in [DOMAIN held -> Values]
    /\ parsing \in Seq(DOMAIN id_structs)

\* Every id handed out so far is either in the store or waits, once, to be
\* used again: none is lost, none can be handed out twice.
IdsPartition ==
    /\ ToSet(freed_ids) \cap DOMAIN ids_p = {}
    /\ ToSet(freed_ids) \cup DOMAIN ids_p = 1..ids_i
    /\ IsInjective(freed_ids)

\* The id in a holder's text stands for the value that was stored for that
\* holder, whatever was stored, fetched and deleted since, and a parser that
\* is at work writes to a structure nobody else holds.
HeldIsStored ==
    /\ \A id \in DOMAIN held : id \in DOMAIN id_structs /\ id_structs[id] = held[id]
    /\ ToSet(parsing) \cap DOMAIN held = {}
    /\ IsInjective(parsing)
=============================================================================
