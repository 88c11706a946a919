------------------------------- MODULE Names -------------------------------
(***************************************************************************)
(* The items of a Calculator (variables, functions and units), their names *)
(* and the tables in which the parser looks names up.  One state is that   *)
(* between two calls; a call runs other items' handlers from within its    *)
(* own (adding an item may destroy one, which may activate a third), so    *)
(* each handler is an operator from a registry to a registry and a call is *)
(* their composition.                                                      *)
(*                                                                         *)
(* A name is a sequence: a base name, then the numbers that getName has    *)
(* appended.  Case is abstracted, composite units and data sets are left   *)
(* out, and so is what an item evaluates to.                               *)
(***************************************************************************)
EXTENDS Integers, Sequences, FiniteSets, SequencesExt

CONSTANTS
  Items,        \* addresses of items; a freed one is used again
  NoItem,       \* the null pointer
  Definitions,  \* what may be defined: [kind, names, local, used]
  Length,       \* the length of each base name
  UFV_LENGTHS,  \* names longer than this go to the one list ufvl
  MaxCalls      \* bound on the number of calls

Kinds == {"variable", "function", "unit"}
Used == {"no", "counted", "referrer"}   \* i_ref = 0; i_ref > 0; v_refs not empty
BaseNames == DOMAIN Length
AllNames == {n \in Seq(BaseNames \cup Nat) : n # <<>> /\ n[1] \in BaseNames}

ASSUME NamesAssumption ==
  /\ IsFiniteSet(Items) /\ NoItem \notin Items
  /\ UFV_LENGTHS \in Nat /\ MaxCalls \in Nat
  /\ \A b \in BaseNames : Length[b] \in Nat \ {0}
  /\ \A d \in Definitions :
       /\ d.kind \in Kinds /\ d.local \in BOOLEAN /\ d.used \in Used
       /\ d.names \in Seq(AllNames) /\ d.names # <<>>

VARIABLES
  reg,     \* the registry
  calls,   \* number of calls so far
  \* and history:
  plain,   \* TRUE while active items were added and destroyed and nothing else
  apart,   \* TRUE while functions had names of their own
  tidy     \* TRUE while no item that took a new name displaced another by it

vars == <<reg, calls, plain, apart, tidy>>

LengthOf(n) == Length[n[1]] + 2 * (Len(n) - 1)
None == [kind |-> "variable", names |-> <<>>, local |-> TRUE, used |-> "no",
         active |-> FALSE]

(***************************************************************************)
(* The registry.  item says what is at an address; list is the vector of   *)
(* the items of a kind; deleted, alive and dying tell what became of an    *)
(* item: destroyed, not freed yet, destroyed with references left.  And    *)
(* replaced is history: TRUE once an item took a name from a local one.    *)
(* Entries of ufv and ufvl are pairs of an item and the index of a name.   *)
(***************************************************************************)
Init ==
  /\ reg = [item |-> [i \in Items |-> None],
            list |-> [k \in Kinds |-> <<>>],
            deleted |-> [k \in Kinds |-> {}],
            ufv |-> [k \in Kinds |-> <<>>],
            ufvl |-> <<>>,
            alive |-> {},
            dying |-> {},
            replaced |-> FALSE]
  /\ calls = 0
  /\ plain = TRUE
  /\ apart = TRUE
  /\ tidy = TRUE

------------------------------------------------------------------------------
(* Looking up *)

hasName(r, i, n) == n \in ToSet(r.item[i].names)
ShareName(r, i, j) == ToSet(r.item[i].names) \cap ToSet(r.item[j].names) # {}

\* The first of a sequence that is in a set, or the null pointer.
First(s, S) ==
  LET P == {p \in DOMAIN s : s[p] \in S}
  IN  IF P = {} THEN NoItem ELSE s[Min(P)]

\* The active items with a name, and the lists in the order they are looked up.
Actives(r, n) == {i \in Items : r.item[i].active /\ hasName(r, i, n)}
Lists(r) == r.list["variable"] \o r.list["function"] \o r.list["unit"]

getActiveExpressionItem(r, n, except) == First(Lists(r), Actives(r, n) \ {except})

getInactiveExpressionItem(r, n) ==
  First(Lists(r), {i \in Items : ~r.item[i].active /\ hasName(r, i, n)})

\* The first active item, other than i, that shares one of i's names.
Rival(r, i) ==
  First([k \in DOMAIN r.item[i].names |->
           getActiveExpressionItem(r, r.item[i].names[k], i)], Items)

\* The active item that a name of an item of this kind would clash with.
Holder(r, kind, n) ==
  First(IF kind = "function" THEN r.list["function"]
        ELSE r.list["variable"] \o r.list["unit"], Actives(r, n))

------------------------------------------------------------------------------
(* The tables of the parser *)

\* The elements of a sequence that are in a set.
Only(s, S) ==
  LET after[k \in 0..Len(s)] ==
        IF k = 0 THEN <<>>
        ELSE IF s[k] \in S THEN Append(after[k - 1], s[k]) ELSE after[k - 1]
  IN  after[Len(s)]

delUFV(r, i) ==
  LET Others(s) == Only(s, {e \in ToSet(s) : e[1] # i})
  IN  [r EXCEPT !.ufvl = Others(@), !.ufv[r.item[i].kind] = Others(@)]

\* An item's name goes before the first entry with a shorter one, and before
\* those of equal length that its kind may precede.
Precedes(r, i, l, e) ==
  LET m == LengthOf(r.item[e[1]].names[e[2]])
      mayPrecede == CASE r.item[i].kind = "variable" -> {"variable"}
                      [] r.item[i].kind = "unit" -> {"variable", "unit"}
                      [] OTHER -> Kinds
  IN  m < l \/ (m = l /\ r.item[e[1]].kind \in mayPrecede)

MutEnterFromZero(r, i, k) ==
  IF LengthOf(r.item[i].names[k]) > UFV_LENGTHS
  THEN [r EXCEPT !.ufvl = Append(@, <<i, k - 1>>)]
  ELSE [r EXCEPT !.ufv[r.item[i].kind] = Append(@, <<i, k - 1>>)]

Enter(r, i, k) ==
  LET l == LengthOf(r.item[i].names[k])
      p == Min({q \in 1..Len(r.ufvl) + 1 :
                  q <= Len(r.ufvl) => Precedes(r, i, l, r.ufvl[q])})
  IN  IF l > UFV_LENGTHS
      THEN [r EXCEPT !.ufvl = InsertAt(@, p, <<i, k>>)]
      ELSE [r EXCEPT !.ufv[r.item[i].kind] = Append(@, <<i, k>>)]

EnterNames(r, i) ==
  LET after[k \in 0..Len(r.item[i].names)] ==
        IF k = 0 THEN r ELSE Enter(after[k - 1], i, k)
  IN  after[Len(r.item[i].names)]

nameChanged(r, i, new_item) ==
  IF ~r.item[i].active \/ r.item[i].names = <<>> THEN r
  ELSE EnterNames(IF new_item THEN r ELSE delUFV(r, i), i)

------------------------------------------------------------------------------
(* Activation, deactivation and deletion *)

MutDeactivateKeepsNames(r, i) == [r EXCEPT !.item[i].active = FALSE]

Deactivate(r, i) ==
  IF r.item[i].active THEN delUFV([r EXCEPT !.item[i].active = FALSE], i) ELSE r

Activate(r, i) ==
  LET r2 == [r EXCEPT !.item[i].active = TRUE]
      rival == Rival(r2, i)
  IN  IF r.item[i].active THEN r
      ELSE nameChanged(IF rival = NoItem THEN r2 ELSE Deactivate(r2, rival), i, FALSE)

setActive(r, i, is_active) == IF is_active THEN Activate(r, i) ELSE Deactivate(r, i)

\* Of the items of a kind that are in a set, the global ones become active if
\* nothing prevents it.
Wake(r, kind, J) ==
  LET s == r.list[kind]
      Woken(t, j) == IF /\ j \in J /\ ~t.item[j].local /\ ~t.item[j].active
                        /\ Rival(t, j) = NoItem
                     THEN Activate(t, j) ELSE t
      after[k \in 0..Len(s)] == IF k = 0 THEN r ELSE Woken(after[k - 1], s[k])
  IN  after[Len(s)]

Restore(r, kind, n) == Wake(r, kind, {j \in Items : hasName(r, j, n)})

MutRestoreForOwnKind(r, kind, n) == Restore(r, kind, n)

RestoreFor(r, kind, n) ==
  IF kind = "function" THEN Restore(r, "function", n)
  ELSE Restore(Restore(r, "variable", n), "unit", n)

expressionItemDeleted(r, i) ==
  LET kind == r.item[i].kind
      names == r.item[i].names
      gone == IF i \in ToSet(r.list[kind])
              THEN [r EXCEPT !.list[kind] = Only(@, Items \ {i}),
                             !.deleted[kind] = @ \cup {i}]
              ELSE r
      after[k \in 0..Len(names)] ==
        IF k = 0 THEN gone ELSE RestoreFor(after[k - 1], kind, names[k])
  IN  delUFV(after[Len(names)], i)

Free(r, i) == [r EXCEPT !.alive = @ \ {i}, !.dying = @ \ {i}, !.item[i] = None]

\* A destroyed item is freed, unless something refers to it.
Dropped(r, i) ==
  CASE r.item[i].used = "referrer" -> r
    [] r.item[i].used = "counted" -> [r EXCEPT !.dying = @ \cup {i}]
    [] OTHER -> Free(r, i)

destroy(r, i) == Dropped(expressionItemDeleted(r, i), i)

------------------------------------------------------------------------------
(* Names that are taken *)

\* The first of n_2, n_3, ... that no other active item has; there is one among
\* one more than there are names.
NamesGiven(r) == UNION {ToSet(r.item[i].names) : i \in Items}

Numbered(r, i, n) ==
  LET FreeFor(k) == Holder(r, r.item[i].kind, Append(n, k)) \in {NoItem, i}
  IN  Append(n, Min({k \in 2..Cardinality(NamesGiven(r)) + 2 : FreeFor(k)}))

MutEvictForLocal(r, i, holder) ==
  IF ~r.item[i].active \/ ~r.item[i].local THEN r
  ELSE IF r.item[holder].local THEN [destroy(r, holder) EXCEPT !.replaced = TRUE]
  ELSE Deactivate(r, holder)

\* What getName does to the holder of a name that it takes by force.
Evict(r, i, holder) ==
  IF ~r.item[i].active THEN r
  ELSE IF r.item[holder].local THEN [destroy(r, holder) EXCEPT !.replaced = TRUE]
  ELSE Deactivate(r, holder)

getName(r, i, n, force) ==
  LET holder == Holder(r, r.item[i].kind, n)
  IN  IF holder \in {NoItem, i} THEN [reg |-> r, name |-> n]
      ELSE IF force THEN [reg |-> Evict(r, i, holder), name |-> n]
      ELSE [reg |-> r, name |-> Numbered(r, i, n)]

\* The k-th name of an item becomes the one that getName gives.
Given(g, i, k) == [g.reg EXCEPT !.item[i].names[k] = g.name]

CheckName(r, i, k, force) == Given(getName(r, i, r.item[i].names[k], force), i, k)

CheckNames(r, i, force) ==
  LET after[k \in 0..Len(r.item[i].names)] ==
        IF k = 0 THEN r ELSE CheckName(after[k - 1], i, k, force)
  IN  after[Len(r.item[i].names)]

------------------------------------------------------------------------------
(* Adding: addVariable, addFunction and addUnit *)

\* Globals go before the locals if there are any.
Listed(r, s, i) ==
  IF ~r.item[i].local /\ s # <<>> /\ r.item[Last(s)].local THEN <<i>> \o s ELSE Append(s, i)

MutAddItemStillDeleted(r, i, force, check_names) ==
  LET checked == IF check_names THEN CheckNames(r, i, force) ELSE r
  IN  nameChanged([checked EXCEPT !.list[r.item[i].kind] = Listed(checked, @, i)], i, TRUE)

addItem(r, i, force, check_names) ==
  LET checked == IF check_names THEN CheckNames(r, i, force) ELSE r
      kind == r.item[i].kind
  IN  [nameChanged([checked EXCEPT !.list[kind] = Listed(checked, @, i)], i, TRUE)
         EXCEPT !.deleted[kind] = @ \ {i}]

Construct(r, i, d, names, active) ==
  [r EXCEPT !.alive = @ \cup {i},
            !.item[i] = [kind |-> d.kind, names |-> names, local |-> d.local,
                         used |-> d.used, active |-> active]]


------------------------------------------------------------------------------
(* Calls *)

listed == UNION {ToSet(reg.list[k]) : k \in Kinds}
Fresh == Items \ reg.alive

\* No function shares a name with a variable or a unit.
Apart(r) ==
  \A f \in ToSet(r.list["function"]), i \in ToSet(r.list["variable"] \o r.list["unit"]) :
    ~ShareName(r, f, i)

Call(r, isPlain) ==
  /\ calls < MaxCalls
  /\ reg' = r
  /\ calls' = calls + 1
  /\ plain' = (plain /\ isPlain)
  /\ apart' = (apart /\ Apart(r))
  /\ UNCHANGED tidy

\* new Variable(...), then addVariable(v, force), and so for functions and units.
Add ==
  \E i \in Fresh, d \in Definitions, active, force \in BOOLEAN :
    Call(addItem(Construct(reg, i, d, d.names, active), i, force, TRUE), active)

\* A global definition of a file, loaded without the names that are taken.
LoadGlobal ==
  \E i \in Fresh, d \in Definitions, active \in BOOLEAN :
    LET names == Only(d.names, {n \in ToSet(d.names) : Holder(reg, d.kind, n) = NoItem})
    IN  /\ ~d.local
        /\ names # <<>>
        /\ Call(addItem(Construct(reg, i, d, names, active), i, TRUE, FALSE), active)

\* <activate> and <deactivate> of a definition file.
ActivateNamed ==
  \E b \in BaseNames :
    LET i == getInactiveExpressionItem(reg, <<b>>)
    IN  i # NoItem /\ ~reg.item[i].local /\ Call(setActive(reg, i, TRUE), FALSE)

DeactivateNamed ==
  \E b \in BaseNames :
    LET i == getActiveExpressionItem(reg, <<b>>, NoItem)
    IN  i # NoItem /\ ~reg.item[i].local /\ Call(setActive(reg, i, FALSE), FALSE)

\* After a whole set of files, global items without a rival become active.
RestoreAll ==
  Call(Wake(Wake(Wake(reg, "variable", Items), "unit", Items), "function", Items), TRUE)

Destroy == \E i \in listed : Call(destroy(reg, i), TRUE)

\* The last reference to a destroyed item is given up.
Unref == \E i \in reg.dying : Call(Free(reg, i), TRUE)

\* The item has the name already when it is looked up, while the tables have the
\* indices of before.
Rename(r, i, k, force) ==
  LET checked == CheckName(r, i, k, force)
  IN  /\ calls < MaxCalls
      /\ reg' = nameChanged(checked, i, FALSE)
      /\ calls' = calls + 1
      /\ plain' = FALSE
      /\ apart' = (apart /\ Apart(reg'))
      /\ tidy' = (tidy /\ checked.list = reg.list)

\* setName, addName and removeName of a registered item.  Nothing in the
\* repository removes the last name of one.  setName asks for a string before
\* it gives up the old name, and for an ExpressionName after.
setName ==
  \E i \in listed, b \in BaseNames, force \in BOOLEAN : \E k \in DOMAIN reg.item[i].names :
    /\ reg.item[i].names[k] # <<b>>
    /\ \/ Call(nameChanged(Given(getName(reg, i, <<b>>, force), i, k), i, FALSE), FALSE)
       \/ Rename([reg EXCEPT !.item[i].names[k] = <<b>>], i, k, force)

addName ==
  \E i \in listed, b \in BaseNames, force \in BOOLEAN :
    \E k \in 1..Len(reg.item[i].names) + 1 :
      Rename([reg EXCEPT !.item[i].names = InsertAt(@, k, <<b>>)], i, k, force)

removeName ==
  \E i \in listed : \E k \in DOMAIN reg.item[i].names :
    /\ Len(reg.item[i].names) > 1
    /\ Call(nameChanged([reg EXCEPT !.item[i].names = RemoveAt(@, k)], i, FALSE), FALSE)

\* The copy that setLocal keeps of a global item: its first name for every
\* name, and inactive.
Copied(r, i, j) ==
  [r EXCEPT !.alive = @ \cup {j},
            !.item[j] = [r.item[i] EXCEPT
                           !.names = [k \in DOMAIN @ |-> r.item[i].names[1]],
                           !.used = "no", !.active = FALSE]]

\* A global item becomes local, which leaves a copy; a local one becomes global;
\* or, being what it should be, it is only made active or not.  will_be_active is
\* -1 for as it is.  Builtin items, which it refuses, are left out.
setLocal ==
  \/ \E i \in listed, j \in Fresh, will_be_active \in -1..1 :
       LET local == [Copied(reg, i, j) EXCEPT !.item[i].local = TRUE]
           set == setActive(local, i, will_be_active # 0)
           added == addItem(set, j, TRUE, TRUE)
       IN  /\ ~reg.item[i].local
           /\ Call(IF reg.item[i].active /\ will_be_active = 0
                   THEN setActive(added, j, TRUE) ELSE added, FALSE)
  \/ \E i \in listed :
       /\ reg.item[i].local
       /\ Call([reg EXCEPT !.item[i].local = FALSE], FALSE)
  \/ \E i \in listed, will_be_active \in BOOLEAN : Call(setActive(reg, i, will_be_active), FALSE)

Next ==
  \/ Add \/ LoadGlobal \/ ActivateNamed \/ DeactivateNamed \/ RestoreAll
  \/ Destroy \/ Unref \/ setName \/ addName \/ removeName \/ setLocal

Spec == Init /\ [][Next]_vars

------------------------------------------------------------------------------
(* Properties *)

\* Functions have their names to themselves.
Class(r, i) == r.item[i].kind = "function"

EntryType == Items \X (Nat \ {0})

\* The registry keeps its type: no list, table or set holds a null pointer.
TypeOK ==
  /\ DOMAIN reg.item = Items
  /\ \A i \in Items : reg.item[i].kind \in Kinds /\ reg.item[i].active \in BOOLEAN
  /\ \A k \in Kinds : /\ ToSet(reg.list[k]) \subseteq Items
                      /\ reg.deleted[k] \subseteq Items
                      /\ ToSet(reg.ufv[k]) \subseteq EntryType
  /\ ToSet(reg.ufvl) \subseteq EntryType
  /\ reg.dying \subseteq reg.alive
  /\ calls \in 0..MaxCalls /\ {plain, apart, tidy, reg.replaced} \subseteq BOOLEAN

\* The parser's tables hold each name of each active registered item once and
\* nothing else, through every mix of replacing, renaming and restoring: no
\* name that cannot be used, no pointer to an item that is no longer there.  The
\* list of long names stays in the order in which the parser tries them: the
\* longest first, and of equal ones functions, units, variables.  That order is
\* lost when an item that has a new name already (addName, setName) takes it from
\* a local one: what comes back then is put in its place by lengths that are
\* those of other names.
TablesInStep ==
  LET entries == reg.ufvl \o reg.ufv["variable"] \o reg.ufv["function"] \o reg.ufv["unit"]
      Rank(e) == CASE reg.item[e[1]].kind = "function" -> 0
                   [] reg.item[e[1]].kind = "unit" -> 1
                   [] OTHER -> 2
      L(e) == LengthOf(reg.item[e[1]].names[e[2]])
  IN  /\ ToSet(entries) = UNION {{<<i, k>> : k \in DOMAIN reg.item[i].names} :
                                   i \in {j \in listed : reg.item[j].active}}
      /\ IsInjective(entries)
      /\ tidy => \A p, q \in DOMAIN reg.ufvl :
           p < q => LET e == reg.ufvl[p]  f == reg.ufvl[q]
                    IN  L(e) > L(f) \/ (L(e) = L(f) /\ Rank(e) <= Rank(f))

\* An item that stillHasVariable, stillHasFunction or stillHasUnit denies is
\* not registered, although addresses are used again; none is registered
\* twice or after it was freed.
StillHasWhatIsListed ==
  /\ \A k \in Kinds : ToSet(reg.list[k]) \cap reg.deleted[k] = {}
  /\ listed \subseteq reg.alive
  /\ \A k \in Kinds : IsInjective(reg.list[k])

\* Nothing stays away for no reason: while items are only added and destroyed
\* and functions keep to names of their own, an inactive item is a global one,
\* and one that shares a name with it is still registered, whose removal can
\* bring it back.
InactiveIsShadowed ==
  plain /\ apart => \A i \in listed :
             ~reg.item[i].active =>
               /\ ~reg.item[i].local
               /\ \E j \in listed \ {i} : ShareName(reg, i, j)

\* "Each name must be fully unique, with the exception that functions can have
\* names used by other types of items" (ExpressionItem.h:62): two active items
\* that are both functions or both not share no name, while items are only
\* added, destroyed and restored and no local item is replaced by another.
NameIsUnique ==
  plain /\ ~reg.replaced => \A i, j \in listed :
    (i # j /\ reg.item[i].active /\ reg.item[j].active /\ Class(reg, i) = Class(reg, j))
      => ~ShareName(reg, i, j)

==============================================================================
