---------------------------- MODULE LibraryProofs ----------------------------
(***************************************************************************)
(* Proofs about LibrarySync: for every library, any number of rescans at   *)
(* once, and whatever fails, the tables stay well formed, a stored         *)
(* position never comes to belong to another film, and no path gets        *)
(* another id while it has a row.                                          *)
(*                                                                         *)
(* Everything rests on ids being unique, although the largest one is given *)
(* out again.  So first what MaxRowId and NewIds return, then what a       *)
(* DELETE with its cascades leaves of a sound table, then the steps.       *)
(*                                                                         *)
(* The last part is about rescans that neither overlap nor fail: what has  *)
(* been written of what a rescan saw (Written), hence what the catalog     *)
(* names and what a remembered ObjectID means.                             *)
(***************************************************************************)
EXTENDS LibrarySync, FiniteSetTheorems, WellFoundedInduction, TLAPS

-----------------------------------------------------------------------------
(* Numbers.                                                                *)

\* Every inhabited set of numbers has a least member.
LEMMA LeastOfSome ==
  ASSUME NEW S \in SUBSET Nat, S # {}
  PROVE  \E m \in S : \A k \in S : ~(k < m)
  <1> DEFINE Less == {p \in Nat \X Nat : p[1] < p[2]}
  <1>1. IsWellFoundedOn(Less, Nat)
    BY NatLessThanWellFounded DEF OpToRel
  <1>2. \A a, b \in Nat : a < b => <<a, b>> \in Less
    OBVIOUS
  <1> HIDE DEF Less
  <1>3. PICK m \in S : \A k \in S : ~(<<k, m>> \in Less)
    BY <1>1, WFMin
  <1>4. QED
    BY <1>2, <1>3

\* Every inhabited finite set of numbers has a largest member: the smallest
\* subset without one cannot exist.
LEMMA LargestOfFinite ==
  ASSUME NEW S \in SUBSET Nat, IsFiniteSet(S), S # {}
  PROVE  \E m \in S : \A k \in S : k <= m
  <1> DEFINE Bad(T) == T # {} /\ \A m \in T : \E k \in T : m < k
             Sizes == {n \in Nat : \E T \in SUBSET S : Bad(T) /\ Cardinality(T) = n}
  <1>1. SUFFICES ASSUME Bad(S) PROVE FALSE
    BY <1>1
  <1>2. \A T \in SUBSET S : IsFiniteSet(T) /\ Cardinality(T) \in Nat
    BY FS_Subset, FS_CardinalityType
  <1>3. Sizes # {} /\ Sizes \in SUBSET Nat
    BY <1>1, <1>2
  <1>4. PICK n \in Sizes : \A k \in Sizes : ~(k < n)
    <2> HIDE DEF Sizes
    <2> QED BY <1>3, LeastOfSome
  <1>5. PICK T \in SUBSET S : Bad(T) /\ Cardinality(T) = n
    BY <1>4
  <1>6. PICK x \in T : TRUE
    BY <1>5
  <1>7. Cardinality(T \ {x}) = n - 1 /\ T \ {x} \in SUBSET S
    BY <1>2, <1>5, <1>6, FS_RemoveElement
  <1>8. ~Bad(T \ {x})
    <2>1. n \in Nat /\ n - 1 \in Nat
      BY <1>2, <1>5, <1>7
    <2>2. n - 1 \notin Sizes
      BY <1>4, <2>1
    <2>3. QED
      BY <1>7, <2>1, <2>2
  <1>9. CASE T \ {x} = {}
    BY <1>5, <1>6, <1>9
  <1>10. CASE T \ {x} # {}
    <2>1. PICK m \in T \ {x} : \A k \in T \ {x} : ~(m < k)
      BY <1>8, <1>10
    <2>2. m \in Nat /\ x \in Nat
      BY <1>5, <1>6
    <2>3. \A k \in T : ~(m < k) \/ k = x
      BY <2>1
    <2>4. PICK k1 \in T : m < k1
      BY <1>5, <2>1
    <2>5. PICK k2 \in T : x < k2
      BY <1>5, <1>6
    <2>6. k1 = x /\ k2 \in Nat /\ m < k2
      BY <2>2, <2>3, <2>4, <2>5
    <2>7. k2 = x
      BY <2>3, <2>6
    <2>8. QED
      BY <2>2, <2>5, <2>7
  <1>11. QED
    BY <1>9, <1>10

\* MaxRowId bounds the ids in use.
LEMMA MaxRowIdBounds ==
  ASSUME NEW ids \in SUBSET Nat, IsFiniteSet(ids)
  PROVE  MaxRowId(ids) \in Nat /\ \A i \in ids : i <= MaxRowId(ids)
  <1>1. CASE ids = {}
    BY <1>1 DEF MaxRowId
  <1>2. CASE ids # {}
    <2>1. PICK m \in ids : \A k \in ids : k <= m
      BY <1>2, LargestOfFinite
    <2>2. Max(ids) \in ids /\ \A y \in ids : Max(ids) >= y
      BY <2>1 DEF Max
    <2>3. QED
      BY <1>2, <2>2 DEF MaxRowId
  <1>3. QED
    BY <1>1, <1>2

\* NewIds hands out each id once, and none that is in use.
LEMMA NewIdsFresh ==
  ASSUME RowIds(rows) \in SUBSET Nat, IsFiniteSet(RowIds(rows)),
         NEW new \in SUBSET Paths, NEW newId \in NewIds(new)
  PROVE  /\ DOMAIN newId = new
         /\ \A p \in new : newId[p] \in Nat \ {0} /\ newId[p] \notin RowIds(rows)
         /\ \A p, q \in new : newId[p] = newId[q] => p = q
  <1> DEFINE top == MaxRowId(RowIds(rows))
             UpTo(p) == {q \in new : \/ Depth(q) < Depth(p)
                                     \/ /\ Depth(q) = Depth(p)
                                        /\ ScanRank[q] <= ScanRank[p]}
             Place(p) == Cardinality(UpTo(p))
  <1>1. top \in Nat /\ \A i \in RowIds(rows) : i <= top
    BY MaxRowIdBounds
  <1>2. IsFiniteSet(new)
    BY StructureAssumption, FS_Subset
  <1>3. \A p \in new : Depth(p) \in Nat /\ ScanRank[p] \in Nat
    BY StructureAssumption DEF Depth
  <1>4. \A p \in new : IsFiniteSet(UpTo(p)) /\ Place(p) \in Nat \ {0}
    <2> SUFFICES ASSUME NEW p \in new PROVE IsFiniteSet(UpTo(p)) /\ Place(p) \in Nat \ {0}
      OBVIOUS
    <2>1. UpTo(p) \in SUBSET new /\ p \in UpTo(p)
      BY <1>3
    <2>2. QED
      BY <1>2, <2>1, FS_Subset, FS_CardinalityType, FS_EmptySet
  <1>5. \A p, q \in new : Place(p) = Place(q) => p = q
    <2> SUFFICES ASSUME NEW p \in new, NEW q \in new, p # q PROVE Place(p) # Place(q)
      OBVIOUS
    <2>1. ScanRank[p] # ScanRank[q]
      BY StructureAssumption DEF IsInjective
    <2>2. \/ UpTo(p) \in SUBSET UpTo(q) /\ q \notin UpTo(p)
          \/ UpTo(q) \in SUBSET UpTo(p) /\ p \notin UpTo(q)
      BY <1>3, <2>1
    <2>3. p \in UpTo(p) /\ q \in UpTo(q)
      BY <1>3
    <2>4. UpTo(p) # UpTo(q)
      BY <2>2, <2>3
    <2> HIDE DEF UpTo
    <2>5. QED
      BY <1>4, <2>2, <2>4, FS_Subset
  <1>6. PICK order \in Bijection(new, new) : newId = [p \in new |-> top + Place(order[p])]
    BY DEF NewIds
  <1>7. order \in [new -> new] /\ \A p, q \in new : order[p] = order[q] => p = q
    <2>1. order \in Injection(new, new)
      BY <1>6 DEF Bijection
    <2>2. QED
      BY <2>1 DEF Injection, IsInjective
  <1> HIDE DEF Place
  <1>8. \A p \in new : order[p] \in new /\ newId[p] = top + Place(order[p])
    BY <1>6, <1>7
  <1>9. \A p \in new : newId[p] \in Nat \ {0} /\ newId[p] > top
    <2> SUFFICES ASSUME NEW p \in new PROVE newId[p] \in Nat \ {0} /\ newId[p] > top
      OBVIOUS
    <2>1. Place(order[p]) \in Nat \ {0} /\ newId[p] = top + Place(order[p])
      BY <1>4, <1>8
    <2> HIDE DEF top
    <2>2. QED
      BY <1>1, <2>1
  <1>10. \A p \in new : newId[p] \notin RowIds(rows)
    BY <1>1, <1>9
  <1>11. \A p, q \in new : newId[p] = newId[q] => p = q
    <2> SUFFICES ASSUME NEW p \in new, NEW q \in new, newId[p] = newId[q] PROVE p = q
      OBVIOUS
    <2>1. Place(order[p]) = Place(order[q])
      <3>1. /\ Place(order[p]) \in Nat /\ Place(order[q]) \in Nat
            /\ newId[p] = top + Place(order[p]) /\ newId[q] = top + Place(order[q])
        BY <1>4, <1>8
      <3>2. top + Place(order[p]) = top + Place(order[q]) /\ top \in Nat
        BY <1>1, <3>1
      <3>3. \A m, i, j \in Nat : m + i = m + j => i = j
        OBVIOUS
      <3>4. QED
        BY <3>1, <3>2, <3>3, Zenon
    <2>2. QED
      BY <1>5, <1>7, <1>8, <2>1
  <1>12. DOMAIN newId = new
    BY <1>6
  <1>13. QED
    BY <1>9, <1>10, <1>11, <1>12

-----------------------------------------------------------------------------
(* Tables.                                                                 *)

\* A table of rows with unique ids, whose parents are their directories.
UniqueIds(table) == \A p, q \in DOMAIN table : table[p].id = table[q].id => p = q

Parents(table) ==
  \A p \in DOMAIN table : table[p].parent # 0 =>
    /\ p \notin Roots
    /\ DirOf[p] \in DOMAIN table /\ table[DirOf[p]].id = table[p].parent

Sound(table) ==
  /\ DOMAIN table \subseteq Paths /\ table \in [DOMAIN table -> Row]
  /\ UniqueIds(table) /\ Parents(table)

\* The positions w hang on rows of the table, each on that of its own film.
WatchFits(w, table) ==
  \A i \in DOMAIN w : w[i] \in Files /\ w[i] \in DOMAIN table /\ table[w[i]].id = i

\* The ids of a sound table are numbers, finitely many.
LEMMA RowIdsFinite ==
  ASSUME NEW table, Sound(table)
  PROVE  /\ RowIds(table) \in SUBSET (Nat \ {0}) /\ IsFiniteSet(RowIds(table))
         /\ Cardinality(RowIds(table)) = Cardinality(DOMAIN table)
  <1> DEFINE f == [p \in DOMAIN table |-> table[p].id]
  <1>1. RowIds(table) \in SUBSET (Nat \ {0})
    BY DEF Sound, RowIds, Row
  <1>2. IsFiniteSet(DOMAIN table)
    BY StructureAssumption, FS_Subset DEF Sound
  <1>3. f \in Surjection(DOMAIN table, RowIds(table))
    BY DEF Surjection, RowIds
  <1>4. f \in Injection(DOMAIN table, RowIds(table))
    BY DEF Injection, IsInjective, RowIds, Sound, UniqueIds
  <1>5. QED
    BY <1>1, <1>2, <1>3, <1>4, FS_Surjection

\* Two rounds of the cascade are enough for a tree of two levels below the
\* root: no row is left whose parent has gone.
LEMMA CascadeLeavesSound ==
  ASSUME NEW table, Sound(table), NEW gone \in SUBSET DOMAIN table
  PROVE  Sound(Without(table, Cascade(table, gone)))
  <1> DEFINE first == gone \union ChildrenOf(table, gone)
             all == first \union ChildrenOf(table, first)
             left == Without(table, Cascade(table, gone))
  <1>1. Cascade(table, gone) = all
    BY DEF Cascade
  <1>2. left = [p \in DOMAIN table \ all |-> table[p]]
    BY <1>1 DEF Without, Restrict
  <1>3. ASSUME NEW p \in DOMAIN table, table[p].parent # 0
        PROVE  /\ p \notin Roots /\ p \in Folders \union Files
               /\ DirOf[p] \in DOMAIN table /\ table[DirOf[p]].id = table[p].parent
               /\ DirOf[p] \in Roots \union Folders
    BY <1>3, StructureAssumption DEF Sound, Parents, Paths, Files
  <1>4. \A p \in DOMAIN table : table[p].id # 0 /\ p \in Paths
    BY DEF Sound, Row
  <1>5. ASSUME NEW set \in SUBSET DOMAIN table, NEW p \in ChildrenOf(table, set)
        PROVE  p \in DOMAIN table /\ table[p].parent # 0 /\ DirOf[p] \in set
    <2>1. PICK q \in set : p \in DOMAIN table /\ table[p].parent = table[q].id
      BY <1>5 DEF ChildrenOf
    <2>2. table[p].parent # 0 /\ q \in DOMAIN table
      BY <1>4, <2>1
    <2>3. DirOf[p] \in DOMAIN table /\ table[DirOf[p]].id = table[q].id
      BY <1>3, <2>1, <2>2
    <2>4. QED
      BY <2>1, <2>2, <2>3 DEF Sound, UniqueIds
  <1>6. ASSUME NEW set \in SUBSET DOMAIN table, NEW p \in DOMAIN table,
               table[p].parent # 0, DirOf[p] \in set
        PROVE  p \in ChildrenOf(table, set)
    BY <1>3, <1>6 DEF ChildrenOf
  <1>7. first \in SUBSET DOMAIN table
    BY <1>5
  <1> HIDE DEF left
  <1>8. ASSUME NEW p \in DOMAIN table \ all, table[p].parent # 0
        PROVE  DirOf[p] \notin all
    <2>1. DirOf[p] \notin first
      BY <1>6, <1>7, <1>8
    <2>2. ASSUME DirOf[p] \in ChildrenOf(table, first) PROVE FALSE
      <3> DEFINE d == DirOf[p]
      <3>1. d \in DOMAIN table /\ table[d].parent # 0 /\ DirOf[d] \in first
        BY <1>5, <1>7, <2>2
      <3>2. d \in Folders
        BY <1>3, <1>8, <3>1
      <3>3. DirOf[d] \in Roots
        BY <3>2, StructureAssumption
      <3>4. DirOf[d] \notin gone
        BY <1>6, <2>1, <3>1
      <3>5. DirOf[d] \in ChildrenOf(table, gone)
        BY <3>1, <3>4
      <3>6. DirOf[d] \in DOMAIN table /\ table[DirOf[d]].parent # 0
        BY <1>5, <3>5
      <3>7. QED
        BY <1>3, <3>3, <3>6
    <2>3. QED
      BY <2>1, <2>2
  <1> HIDE DEF all
  <1>9. Parents(left)
    BY <1>2, <1>3, <1>8 DEF Parents
  <1>10. /\ DOMAIN left \subseteq Paths /\ left \in [DOMAIN left -> Row]
         /\ UniqueIds(left)
    BY <1>2, <1>4 DEF Sound, UniqueIds
  <1>11. QED
    BY <1>9, <1>10 DEF Sound, left

\* The positions that a DELETE leaves hang on the rows it leaves.
LEMMA WatchOfFits ==
  ASSUME NEW table, Sound(table), WatchFits(watch, table), NEW D \in SUBSET DOMAIN table
  PROVE  WatchFits(WatchOf(Restrict(table, D)), Restrict(table, D))
  <1> DEFINE left == Restrict(table, D)
             w == WatchOf(left)
  <1>1. left = [p \in D |-> table[p]]
    BY DEF Restrict
  <1>2. DOMAIN w = DOMAIN watch \intersect RowIds(left) /\ \A i \in DOMAIN w : w[i] = watch[i]
    BY DEF WatchOf, Restrict
  <1> HIDE DEF left, w
  <1>3. ASSUME NEW i \in DOMAIN w
        PROVE  w[i] \in Files /\ w[i] \in DOMAIN left /\ left[w[i]].id = i
    <2>1. PICK q \in D : table[q].id = i
      BY <1>1, <1>2 DEF RowIds
    <2>2. watch[i] \in Files /\ watch[i] \in DOMAIN table /\ table[watch[i]].id = i
      BY <1>2 DEF WatchFits
    <2>3. q = watch[i]
      BY <2>1, <2>2 DEF Sound, UniqueIds
    <2>4. QED
      BY <1>1, <1>2, <2>1, <2>2, <2>3
  <1>4. QED
    BY <1>3 DEF WatchFits, w, left

\* The upserts of a transaction keep every id and leave a sound table.
LEMMA UpsertedSound ==
  ASSUME Sound(rows), NEW batch \in SUBSET Paths, NEW rid \in Nat \ {0},
         NEW newId \in NewIds(batch \ DOMAIN rows)
  PROVE  LET table == Upserted(batch, rid, newId)
         IN  /\ Sound(table)
             /\ DOMAIN table = DOMAIN rows \union batch
             /\ \A p \in DOMAIN rows : table[p].id = rows[p].id
             /\ \A p \in DOMAIN table : table[p].root = rid
                                        \/ (p \in DOMAIN rows /\ table[p].root = rows[p].root)
  <1> DEFINE new == batch \ DOMAIN rows
             known == DOMAIN rows \union batch
             IdOf(p) == IF p \in DOMAIN rows THEN rows[p].id ELSE newId[p]
             Parent(p) == IF p \notin Roots /\ DirOf[p] \in known THEN IdOf(DirOf[p]) ELSE 0
             table == Upserted(batch, rid, newId)
  <1>1. RowIds(rows) \in SUBSET Nat /\ IsFiniteSet(RowIds(rows))
    BY RowIdsFinite
  <1>2. /\ \A p \in new : newId[p] \in Nat \ {0} /\ newId[p] \notin RowIds(rows)
        /\ \A p, q \in new : newId[p] = newId[q] => p = q
    BY <1>1, NewIdsFresh
  <1>3. \A p \in known : IdOf(p) \in Nat \ {0}
    BY <1>2 DEF Sound, Row
  <1>4. \A p, q \in known : IdOf(p) = IdOf(q) => p = q
    <2>1. \A p \in DOMAIN rows : rows[p].id \in RowIds(rows)
      BY DEF RowIds
    <2>2. QED
      BY <1>2, <2>1 DEF Sound, UniqueIds
  <1>5. table = [p \in known |-> IF p \notin batch THEN rows[p]
                                 ELSE [id |-> IdOf(p), root |-> rid, parent |-> Parent(p)]]
    BY DEF Upserted
  <1> HIDE DEF IdOf, table
  <1>6. \A p \in DOMAIN rows : IdOf(p) = rows[p].id
    BY DEF IdOf
  <1>7. \A p \in known : Parent(p) \in Nat
    BY <1>3
  <1>8. \A p \in known :
          table[p] \in Row /\ table[p].id = IdOf(p)
    <2> SUFFICES ASSUME NEW p \in known PROVE table[p] \in Row /\ table[p].id = IdOf(p)
      OBVIOUS
    <2>1. CASE p \in batch
      <3>1. table[p] = [id |-> IdOf(p), root |-> rid, parent |-> Parent(p)]
        BY <1>5, <2>1
      <3> HIDE DEF Parent
      <3>2. QED
        BY <1>3, <1>7, <3>1 DEF Row
    <2>2. CASE p \notin batch
      BY <1>5, <1>6, <2>2 DEF Sound
    <2>3. QED
      BY <2>1, <2>2
  <1>9. DOMAIN table = known
    BY <1>5
  <1>10. Parents(table)
    <2> SUFFICES ASSUME NEW p \in known, table[p].parent # 0
                 PROVE  p \notin Roots /\ DirOf[p] \in known /\ table[DirOf[p]].id = table[p].parent
      BY <1>9 DEF Parents
    <2>1. CASE p \in batch
      <3>1. table[p].parent = Parent(p)
        BY <1>5, <2>1
      <3>2. QED
        BY <1>8, <3>1
    <2>2. CASE p \notin batch
      <3>1. p \in DOMAIN rows /\ table[p] = rows[p]
        BY <1>5, <2>2
      <3>2. /\ p \notin Roots /\ DirOf[p] \in DOMAIN rows
            /\ rows[DirOf[p]].id = table[p].parent
        BY <3>1 DEF Sound, Parents
      <3>3. QED
        BY <1>6, <1>8, <3>2
    <2>3. QED
      BY <2>1, <2>2
  <1>11. UniqueIds(table)
    BY <1>4, <1>8, <1>9 DEF UniqueIds
  <1>12. known \subseteq Paths /\ table \in [known -> Row]
    BY <1>5, <1>8 DEF Sound
  <1>13. \A p \in known : table[p].root = rid \/ (p \in DOMAIN rows /\ table[p].root = rows[p].root)
    BY <1>5
  <1>14. QED
    BY <1>6, <1>8, <1>9, <1>10, <1>11, <1>12, <1>13 DEF Sound, table

-----------------------------------------------------------------------------
(* The invariant.                                                          *)

IdMaps == UNION {[S -> Nat] : S \in SUBSET Paths}

Pcs == {"idle", "root", "sync", "pruned", "remapped"}

TaskRec == [pc : Pcs, seen : SUBSET Paths,
            todo : SUBSET Roots, root : Roots \union {None}, rid : Nat, keep : SUBSET Nat,
            ids : IdMaps]

WellFormed(k) == k \in TaskRec /\ DOMAIN k.ids = k.seen

Tasks ==
  /\ task \in [Rescans -> TaskRec]
  /\ \A t \in Rescans : WellFormed(task[t])

\* What a step outside the database leaves alone or changes as it likes.
Around ==
  /\ disk \subseteq Folders \union Files
  /\ mounted \subseteq Roots /\ options \subseteq Roots
  /\ Range(catalog) \subseteq Paths
  /\ setup \in Setup
  /\ happened \subseteq {"failure", "overlap", "dropped"}

Tables ==
  /\ DOMAIN rootIds \subseteq Roots /\ rootIds \in [DOMAIN rootIds -> Nat \ {0}]
  /\ IsInjective(rootIds)
  /\ Sound(rows)
  /\ \A p \in DOMAIN rows : rows[p].root \in Range(rootIds)
  /\ WatchFits(watch, rows)

IInv == Tasks /\ Around /\ Tables

IdsStay == \A p \in DOMAIN rows \intersect DOMAIN rows' : rows'[p].id = rows[p].id

LEMMA Implied == IInv => Inv
  <1> SUFFICES ASSUME IInv PROVE Inv
    OBVIOUS
  <1>1. /\ DOMAIN rows \subseteq Paths /\ Range(rows) \subseteq Row
        /\ Cardinality(RowIds(rows)) = Cardinality(DOMAIN rows)
    BY RowIdsFinite DEF IInv, Tables, Sound, Range
  <1>2. Range(watch) \subseteq Files
    BY DEF IInv, Tables, WatchFits, Range
  <1>3. \A t \in Rescans :
          /\ task[t].pc \in {"idle", "root", "sync", "pruned", "remapped"}
          /\ task[t].seen \subseteq Paths
          /\ task[t].todo \subseteq Roots
          /\ DOMAIN task[t].ids = task[t].seen
    BY DEF IInv, Tasks, WellFormed, TaskRec, Pcs
  <1>4. TypeOK
    BY <1>1, <1>2, <1>3 DEF IInv, Around, Tables, TypeOK
  <1>5. ParentIsTheDirectory
    BY DEF IInv, Tables, Sound, Parents, ParentIsTheDirectory
  <1>6. WatchStaysWithFilm
    BY DEF IInv, Tables, WatchFits, WatchStaysWithFilm
  <1>7. QED
    BY <1>4, <1>5, <1>6 DEF Inv

\* A task that takes on a well-formed state leaves all of them well formed.
LEMMA TaskBecomes ==
  ASSUME Tasks, NEW t \in Rescans, NEW k, WellFormed(k), task' = [task EXCEPT ![t] = k]
  PROVE  Tasks'
  BY DEF Tasks, WellFormed

\* The ways in which a step changes the state of its task.
LEMMA MoveMember ==
  ASSUME NEW k, WellFormed(k), NEW pc \in Pcs
  PROVE  WellFormed([k EXCEPT !.pc = pc])
  <1> DEFINE new == [k EXCEPT !.pc = pc]
  <1>1. k \in TaskRec /\ DOMAIN k.ids = k.seen
    BY DEF WellFormed
  <1>2. new \in TaskRec /\ new.seen = k.seen /\ new.ids = k.ids
    BY <1>1 DEF TaskRec, Pcs
  <1> HIDE DEF new
  <1>3. WellFormed(new)
    BY <1>1, <1>2 DEF WellFormed
  <1>4. QED
    BY <1>3 DEF new

LEMMA TodoMember ==
  ASSUME NEW k, WellFormed(k), NEW todo \in SUBSET Roots
  PROVE  WellFormed([k EXCEPT !.todo = todo])
  <1> DEFINE new == [k EXCEPT !.todo = todo]
  <1>1. k \in TaskRec /\ DOMAIN k.ids = k.seen
    BY DEF WellFormed
  <1>2. new \in TaskRec /\ new.seen = k.seen /\ new.ids = k.ids
    BY <1>1 DEF TaskRec, Pcs
  <1> HIDE DEF new
  <1>3. WellFormed(new)
    BY <1>1, <1>2 DEF WellFormed
  <1>4. QED
    BY <1>3 DEF new

LEMMA KeepMember ==
  ASSUME NEW k, WellFormed(k), NEW pc \in Pcs, NEW keep \in SUBSET Nat
  PROVE  WellFormed([k EXCEPT !.pc = pc, !.keep = keep])
  <1> DEFINE new == [k EXCEPT !.pc = pc, !.keep = keep]
  <1>1. k \in TaskRec /\ DOMAIN k.ids = k.seen
    BY DEF WellFormed
  <1>2. new \in TaskRec /\ new.seen = k.seen /\ new.ids = k.ids
    BY <1>1 DEF TaskRec, Pcs
  <1> HIDE DEF new
  <1>3. WellFormed(new)
    BY <1>1, <1>2 DEF WellFormed
  <1>4. QED
    BY <1>3 DEF new

LEMMA RootMember ==
  ASSUME NEW k, WellFormed(k), NEW pc \in Pcs, NEW root \in Roots, NEW rid \in Nat,
         NEW todo \in SUBSET Roots
  PROVE  WellFormed([k EXCEPT !.pc = pc, !.root = root, !.rid = rid, !.todo = todo])
  <1> DEFINE new == [k EXCEPT !.pc = pc, !.root = root, !.rid = rid, !.todo = todo]
  <1>1. k \in TaskRec /\ DOMAIN k.ids = k.seen
    BY DEF WellFormed
  <1>2. new \in TaskRec /\ new.seen = k.seen /\ new.ids = k.ids
    BY <1>1 DEF TaskRec, Pcs
  <1> HIDE DEF new
  <1>3. WellFormed(new)
    BY <1>1, <1>2 DEF WellFormed
  <1>4. QED
    BY <1>3 DEF new

LEMMA IdsMember ==
  ASSUME NEW k, WellFormed(k), NEW pc \in Pcs, NEW ids \in IdMaps, DOMAIN ids = k.seen
  PROVE  WellFormed([k EXCEPT !.pc = pc, !.ids = ids])
  <1> DEFINE new == [k EXCEPT !.pc = pc, !.ids = ids]
  <1>1. k \in TaskRec /\ DOMAIN k.ids = k.seen
    BY DEF WellFormed
  <1>2. new \in TaskRec /\ new.seen = k.seen /\ new.ids = ids
    BY <1>1 DEF TaskRec, Pcs
  <1> HIDE DEF new
  <1>3. WellFormed(new)
    BY <1>1, <1>2 DEF WellFormed
  <1>4. QED
    BY <1>3 DEF new

LEMMA ScanMember ==
  ASSUME NEW k, WellFormed(k), NEW pc \in Pcs, NEW seen \in SUBSET Paths,
         NEW todo \in SUBSET Roots, NEW ids \in IdMaps, DOMAIN ids = seen
  PROVE  WellFormed([k EXCEPT !.pc = pc, !.seen = seen, !.todo = todo, !.ids = ids])
  <1> DEFINE new == [k EXCEPT !.pc = pc, !.seen = seen, !.todo = todo, !.ids = ids]
  <1>1. k \in TaskRec /\ DOMAIN k.ids = k.seen
    BY DEF WellFormed
  <1>2. new \in TaskRec /\ new.seen = seen /\ new.ids = ids
    BY <1>1 DEF TaskRec, Pcs
  <1> HIDE DEF new
  <1>3. WellFormed(new)
    BY <1>1, <1>2 DEF WellFormed
  <1>4. QED
    BY <1>3 DEF new

LEMMA IdleWellFormed == WellFormed(Idle)
  <1>1. Idle.ids \in [{} -> Nat] /\ Idle.seen = {}
    BY DEF Idle
  <1>2. Idle.ids \in IdMaps
    BY <1>1 DEF IdMaps
  <1>3. QED
    BY <1>1, <1>2 DEF Idle, TaskRec, Pcs, WellFormed

LEMMA Start == Init => IInv
  <1> SUFFICES ASSUME Init PROVE IInv
    OBVIOUS
  <1>1. Tasks
    BY IdleWellFormed DEF Init, Tasks, WellFormed
  <1>2. Around
    BY StructureAssumption, SetupAssumption DEF Init, Around, Range
  <1>3. Tables
    BY DEF Init, Tables, Sound, UniqueIds, Parents, WatchFits, IsInjective
  <1>4. QED
    BY <1>1, <1>2, <1>3 DEF IInv

\* A bound that is spent leaves a setup.
LEMMA SpendKeeps ==
  ASSUME setup \in Setup, NEW what \in {"changes", "failures", "restarts", "overlaps"}, Spend(what)
  PROVE  setup' \in Setup
  <1>1. /\ setup \in [videoRoots : SUBSET Roots, changes : Nat, failures : Nat,
                      restarts : Nat, overlaps : Nat]
        /\ setup[what] > 0 /\ setup' = [setup EXCEPT ![what] = setup[what] - 1]
    BY DEF Setup, Spend
  <1>2. CASE what = "changes"
    BY <1>1, <1>2 DEF Setup
  <1>3. CASE what = "failures"
    BY <1>1, <1>3 DEF Setup
  <1>4. CASE what = "restarts"
    BY <1>1, <1>4 DEF Setup
  <1>5. CASE what = "overlaps"
    BY <1>1, <1>5 DEF Setup
  <1>6. QED
    BY <1>2, <1>3, <1>4, <1>5

\* A step that leaves the tables alone keeps them.
LEMMA TablesStay ==
  ASSUME Tables, UNCHANGED <<rootIds, rows, watch>>
  PROVE  Tables' /\ IdsStay
  BY DEF Tables, Sound, UniqueIds, Parents, WatchFits, IdsStay

-----------------------------------------------------------------------------
(* The disk, clients, restarts.                                            *)

LEMMA ChangeDiskKeeps == IInv /\ ChangeDisk => IInv' /\ IdsStay
  <1> SUFFICES ASSUME IInv, ChangeDisk PROVE IInv' /\ IdsStay
    OBVIOUS
  <1>1. UNCHANGED <<options, rootIds, rows, watch, catalog, task, happened>>
    BY DEF ChangeDisk
  <1>2. setup' \in Setup
    BY SpendKeeps DEF ChangeDisk, IInv, Around
  <1>3. disk' \subseteq Folders \union Files /\ mounted' \subseteq Roots
    BY DEF ChangeDisk, IInv, Around
  <1>4. Tasks' /\ Around'
    BY <1>1, <1>2, <1>3 DEF IInv, Tasks, Around
  <1>5. QED
    BY <1>1, <1>4, TablesStay DEF IInv

\* A position is stored under the id of a row, for its film.
LEMMA RecordPositionKeeps == IInv /\ RecordPosition => IInv' /\ IdsStay
  <1> SUFFICES ASSUME IInv, RecordPosition PROVE IInv' /\ IdsStay
    OBVIOUS
  <1>1. /\ UNCHANGED <<disk, mounted, options, rootIds, rows, catalog, task, bookmark, setup, happened>>
        /\ \E p \in DOMAIN rows :
             /\ p \in Files
             /\ watch' = [i \in DOMAIN watch \union {rows[p].id} |->
                            IF i = rows[p].id THEN p ELSE watch[i]]
    BY StructureAssumption DEF RecordPosition
  <1>2. WatchFits(watch', rows)
    BY <1>1 DEF IInv, Tables, WatchFits
  <1>3. QED
    BY <1>1, <1>2 DEF IInv, Tasks, Around, Tables, IdsStay, Sound, UniqueIds, Parents, WatchFits

LEMMA RememberKeeps == IInv /\ Remember => IInv' /\ IdsStay
  <1> SUFFICES ASSUME IInv, Remember PROVE IInv' /\ IdsStay
    OBVIOUS
  <1>1. UNCHANGED <<disk, mounted, options, rootIds, rows, watch, catalog, task, setup, happened>>
    BY DEF Remember
  <1>2. Tasks' /\ Around'
    BY <1>1 DEF IInv, Tasks, Around
  <1>3. QED
    BY <1>1, <1>2, TablesStay DEF IInv

LEMMA RestartKeeps == IInv /\ Restart => IInv' /\ IdsStay
  <1> SUFFICES ASSUME IInv, Restart PROVE IInv' /\ IdsStay
    OBVIOUS
  <1>1. /\ task' = [t \in Rescans |-> Idle] /\ catalog' = << >> /\ options' = mounted
        /\ UNCHANGED <<disk, mounted, rootIds, rows, watch, happened>>
    BY DEF Restart
  <1>2. setup' \in Setup
    BY SpendKeeps DEF Restart, IInv, Around
  <1>3. Tasks'
    BY <1>1, IdleWellFormed DEF Tasks, WellFormed
  <1>4. Around'
    BY <1>1, <1>2 DEF IInv, Around, Range
  <1>5. QED
    BY <1>1, <1>3, <1>4, TablesStay DEF IInv

-----------------------------------------------------------------------------
(* One rescan.                                                             *)

LEMMA VisitedArePaths == Around => Visited \subseteq Paths /\ Scanned \subseteq Visited
  BY DEF Around, Visited, Scanned, Paths

LEMMA ScanKeeps == ASSUME NEW t \in Rescans, IInv, Scan(t) PROVE IInv' /\ IdsStay
  <1> DEFINE ids == [p \in Scanned |-> ScanId(p, Visited)]
             todo == mounted \intersect options
             k == [Idle EXCEPT !.pc = "root", !.seen = Scanned, !.todo = todo, !.ids = ids]
  <1>1. Visited \subseteq Paths /\ Scanned \subseteq Paths
    BY VisitedArePaths DEF IInv
  <1>2. \A p \in Scanned : ScanId(p, Visited) \in Nat
    <2> SUFFICES ASSUME NEW p \in Scanned PROVE ScanId(p, Visited) \in Nat
      OBVIOUS
    <2>1. {q \in Visited : ScanRank[q] <= ScanRank[p]} \in SUBSET Paths
      BY <1>1
    <2>2. QED
      BY <2>1, StructureAssumption, FS_Subset, FS_CardinalityType DEF ScanId
  <1>3. ids \in IdMaps /\ DOMAIN ids = Scanned
    BY <1>1, <1>2 DEF IdMaps
  <1>4. task' = [task EXCEPT ![t] = k]
    BY DEF Scan
  <1>5. WellFormed(k)
    <2>1. todo \in SUBSET Roots
      BY DEF IInv, Around
    <2> HIDE DEF ids, todo
    <2>2. QED
      BY <1>1, <1>3, <2>1, IdleWellFormed, ScanMember DEF Pcs
  <1> HIDE DEF k
  <1>6. Tasks'
    BY <1>4, <1>5, TaskBecomes DEF IInv
  <1>7. setup' \in Setup
    BY SpendKeeps DEF Scan, IInv, Around
  <1>8. /\ happened' \subseteq {"failure", "overlap", "dropped"}
        /\ UNCHANGED <<disk, mounted, options, rootIds, rows, watch, catalog, bookmark>>
    BY DEF Scan, IInv, Around
  <1>9. Around'
    BY <1>7, <1>8 DEF IInv, Around
  <1>10. QED
    BY <1>6, <1>8, <1>9, TablesStay DEF IInv

\* A root gets the next number, or keeps the one it has.
LEMMA UpsertRootKeeps == ASSUME NEW t \in Rescans, IInv, UpsertRoot(t) PROVE IInv' /\ IdsStay
  <1>1. PICK r \in task[t].todo :
          /\ rootIds' = IF r \in DOMAIN rootIds THEN rootIds
                        ELSE [q \in DOMAIN rootIds \union {r} |->
                                IF q = r THEN MaxRowId(Range(rootIds)) + 1 ELSE rootIds[q]]
          /\ task' = [task EXCEPT ![t] =
               [task[t] EXCEPT !.pc = "sync", !.root = r, !.rid = rootIds'[r],
                               !.todo = task[t].todo \ {r}]]
    BY DEF UpsertRoot
  <1>2. UNCHANGED <<disk, mounted, options, rows, watch, catalog, bookmark, setup, happened>>
    BY DEF UpsertRoot
  <1>3. WellFormed(task[t]) /\ task[t] \in TaskRec
    BY DEF IInv, Tasks, WellFormed
  <1>4. r \in Roots
    BY <1>3 DEF TaskRec
  <1>5. MaxRowId(Range(rootIds)) \in Nat /\ \A i \in Range(rootIds) : i <= MaxRowId(Range(rootIds))
    <2>1. IsFiniteSet(DOMAIN rootIds)
      BY StructureAssumption, FS_Subset DEF IInv, Tables, Paths
    <2>2. rootIds \in Surjection(DOMAIN rootIds, Range(rootIds))
      BY DEF Surjection, Range, IInv, Tables
    <2>3. IsFiniteSet(Range(rootIds)) /\ Range(rootIds) \in SUBSET Nat
      BY <2>1, <2>2, FS_Surjection DEF IInv, Tables, Range
    <2>4. QED
      BY <2>3, MaxRowIdBounds
  <1>6. /\ DOMAIN rootIds' \subseteq Roots /\ rootIds' \in [DOMAIN rootIds' -> Nat \ {0}]
        /\ IsInjective(rootIds') /\ Range(rootIds) \subseteq Range(rootIds')
        /\ r \in DOMAIN rootIds'
    <2>1. CASE r \in DOMAIN rootIds
      BY <1>1, <2>1 DEF IInv, Tables
    <2>2. CASE r \notin DOMAIN rootIds
      <3> DEFINE top == MaxRowId(Range(rootIds))
      <3>1. /\ DOMAIN rootIds' = DOMAIN rootIds \union {r} /\ rootIds'[r] = top + 1
            /\ \A q \in DOMAIN rootIds : rootIds'[q] = rootIds[q]
            /\ rootIds' \in [DOMAIN rootIds' -> {rootIds'[q] : q \in DOMAIN rootIds'}]
        BY <1>1, <2>2
      <3>2. \A q \in DOMAIN rootIds : rootIds[q] \in Nat \ {0} /\ rootIds[q] <= top
        BY <1>5 DEF IInv, Tables, Range
      <3> HIDE DEF top
      <3>3. top \in Nat
        BY <1>5 DEF top
      <3>4. \A q \in DOMAIN rootIds : rootIds'[q] # rootIds'[r]
        BY <3>1, <3>2, <3>3
      <3>5. IsInjective(rootIds')
        BY <3>1, <3>4 DEF IInv, Tables, IsInjective
      <3>6. rootIds' \in [DOMAIN rootIds' -> Nat \ {0}]
        BY <3>1, <3>2, <3>3
      <3>7. Range(rootIds) \subseteq Range(rootIds')
        BY <3>1 DEF Range
      <3>8. QED
        BY <1>4, <3>1, <3>5, <3>6, <3>7 DEF IInv, Tables
    <2>3. QED
      BY <2>1, <2>2
  <1>7. Tasks'
    <2> DEFINE rid == rootIds'[r]
               todo == task[t].todo \ {r}
               k == [task[t] EXCEPT !.pc = "sync", !.root = r, !.rid = rid, !.todo = todo]
    <2>1. rid \in Nat /\ todo \in SUBSET Roots
      BY <1>3, <1>6 DEF TaskRec
    <2>2. task' = [task EXCEPT ![t] = k]
      BY <1>1
    <2> HIDE DEF rid, todo
    <2>3. WellFormed(k)
      BY <1>3, <1>4, <2>1, RootMember DEF Pcs
    <2> HIDE DEF k
    <2>4. QED
      BY <2>2, <2>3, TaskBecomes DEF IInv
  <1>8. Tables'
    BY <1>2, <1>6 DEF IInv, Tables, Sound, UniqueIds, Parents, WatchFits
  <1>9. QED
    BY <1>2, <1>7, <1>8 DEF IInv, Around, IdsStay

\* A transaction: a sound table in between that keeps the ids, and a DELETE
\* with its cascades.
LEMMA DeleteKeeps ==
  ASSUME Tables, NEW table, Sound(table), NEW gone \in SUBSET DOMAIN table,
         DOMAIN rows \subseteq DOMAIN table,
         \A p \in DOMAIN rows : table[p].id = rows[p].id,
         DOMAIN rootIds' \subseteq Roots, rootIds' \in [DOMAIN rootIds' -> Nat \ {0}],
         IsInjective(rootIds'),
         \A p \in DOMAIN table \ gone : table[p].root \in Range(rootIds'),
         rows' = Without(table, Cascade(table, gone)), watch' = WatchOf(rows')
  PROVE  Tables' /\ IdsStay
  <1> DEFINE D == DOMAIN table \ Cascade(table, gone)
  <1>1. rows' = Restrict(table, D)
    BY DEF Without
  <1>2. D \in SUBSET DOMAIN table /\ D \intersect gone = {}
    BY DEF Cascade
  <1>3. Sound(rows')
    BY CascadeLeavesSound
  <1>4. WatchFits(watch, table)
    BY DEF Tables, WatchFits
  <1> HIDE DEF D
  <1>5. WatchFits(watch', rows')
    BY <1>1, <1>2, <1>4, WatchOfFits
  <1>6. DOMAIN rows' = D /\ \A p \in D : rows'[p] = table[p]
    BY <1>1 DEF Restrict
  <1>7. \A p \in DOMAIN rows' : rows'[p].root \in Range(rootIds')
    BY <1>2, <1>6
  <1>8. IdsStay
    BY <1>2, <1>6 DEF IdsStay
  <1>9. QED
    BY <1>3, <1>5, <1>7, <1>8 DEF Tables, Sound, UniqueIds, Parents, WatchFits

LEMMA SyncRootKeeps == ASSUME NEW t \in Rescans, IInv, SyncRoot(t) PROVE IInv' /\ IdsStay
  <1> DEFINE rid == task[t].rid
  <1>1. PICK newId \in NewIds(Batch(t) \ DOMAIN rows) :
          LET table == Upserted(Batch(t), rid, newId)
              gone == {p \in DOMAIN table : table[p].root = rid /\ p \notin Batch(t)}
          IN  rows' = Without(table, Cascade(table, gone)) /\ watch' = WatchOf(rows')
    BY DEF SyncRoot
  <1> DEFINE table == Upserted(Batch(t), rid, newId)
             gone == {p \in DOMAIN table : table[p].root = rid /\ p \notin Batch(t)}
  <1>2. /\ rid \in Range(rootIds)
        /\ task' = [task EXCEPT ![t] =
             [task[t] EXCEPT !.pc = "root", !.keep = task[t].keep \union {task[t].rid}]]
        /\ UNCHANGED <<disk, mounted, options, rootIds, catalog, bookmark, setup, happened>>
    BY DEF SyncRoot
  <1>3. WellFormed(task[t]) /\ task[t] \in TaskRec /\ rid \in Nat \ {0}
    BY <1>2 DEF IInv, Tasks, WellFormed, Tables, Range
  <1>4. Batch(t) \in SUBSET Paths
    BY <1>3 DEF Batch, TaskRec
  <1>5. /\ Sound(table) /\ DOMAIN table = DOMAIN rows \union Batch(t)
        /\ \A p \in DOMAIN rows : table[p].id = rows[p].id
        /\ \A p \in DOMAIN table : table[p].root = rid
                                   \/ (p \in DOMAIN rows /\ table[p].root = rows[p].root)
    BY <1>3, <1>4, UpsertedSound DEF IInv, Tables
  <1>6. rows' = Without(table, Cascade(table, gone)) /\ watch' = WatchOf(rows')
    BY <1>1
  <1>7. gone \in SUBSET DOMAIN table
    OBVIOUS
  <1> HIDE DEF table, gone
  <1>8. \A p \in DOMAIN table \ gone : table[p].root \in Range(rootIds')
    BY <1>2, <1>5 DEF IInv, Tables
  <1>9. /\ DOMAIN rootIds' \subseteq Roots /\ rootIds' \in [DOMAIN rootIds' -> Nat \ {0}]
        /\ IsInjective(rootIds')
    BY <1>2 DEF IInv, Tables
  <1>10. Tables' /\ IdsStay
    BY <1>5, <1>6, <1>7, <1>8, <1>9, DeleteKeeps DEF IInv
  <1>11. Tasks'
    <2> DEFINE keep == task[t].keep \union {task[t].rid}
               k == [task[t] EXCEPT !.pc = "root", !.keep = keep]
    <2>1. keep \in SUBSET Nat
      BY <1>3 DEF TaskRec
    <2>2. task' = [task EXCEPT ![t] = k]
      BY <1>2
    <2> HIDE DEF keep
    <2>3. WellFormed(k)
      BY <1>3, <2>1, KeepMember DEF Pcs
    <2> HIDE DEF k
    <2>4. QED
      BY <2>2, <2>3, TaskBecomes DEF IInv
  <1>12. QED
    BY <1>2, <1>10, <1>11 DEF IInv, Around

\* A transaction that fails moves its task on and changes nothing else.
LEMMA TaskMoves ==
  ASSUME IInv, NEW t \in Rescans, NEW pc \in {"root", "pruned", "remapped"},
         task' = [task EXCEPT ![t].pc = pc]
  PROVE  Tasks'
  <1> DEFINE k == [task[t] EXCEPT !.pc = pc]
  <1>1. WellFormed(task[t])
    BY DEF IInv, Tasks
  <1>2. WellFormed(k)
    BY <1>1, MoveMember DEF Pcs
  <1>3. task' = [task EXCEPT ![t] = k]
    OBVIOUS
  <1> HIDE DEF k
  <1>4. QED
    BY <1>2, <1>3, TaskBecomes DEF IInv

LEMMA SyncRefusedKeeps == ASSUME NEW t \in Rescans, IInv, SyncRefused(t) PROVE IInv' /\ IdsStay
  <1>1. UNCHANGED <<disk, mounted, options, rootIds, rows, watch, catalog, bookmark, setup, happened>>
    BY DEF SyncRefused
  <1>2. Tasks'
    BY TaskMoves DEF SyncRefused
  <1>3. QED
    BY <1>1, <1>2, TablesStay DEF IInv, Around

LEMMA StoreFailsKeeps == ASSUME NEW t \in Rescans, IInv, StoreFails(t) PROVE IInv' /\ IdsStay
  <1>1. UNCHANGED <<disk, mounted, options, rootIds, rows, watch, catalog, bookmark>>
    BY DEF StoreFails
  <1>2. setup' \in Setup
    BY SpendKeeps DEF StoreFails, IInv, Around
  <1>3. happened' \subseteq {"failure", "overlap", "dropped"}
    BY DEF StoreFails, IInv, Around
  <1>4. Around'
    BY <1>1, <1>2, <1>3 DEF IInv, Around
  <1>5. CASE \E r \in task[t].todo : task' = [task EXCEPT ![t].todo = @ \ {r}]
    <2>1. PICK r : task' = [task EXCEPT ![t].todo = @ \ {r}]
      BY <1>5
    <2> DEFINE todo == task[t].todo \ {r}
               k == [task[t] EXCEPT !.todo = todo]
    <2>2. WellFormed(task[t]) /\ todo \in SUBSET Roots
      BY DEF IInv, Tasks, WellFormed, TaskRec
    <2>3. task' = [task EXCEPT ![t] = k]
      BY <2>1
    <2> HIDE DEF todo
    <2>4. WellFormed(k)
      BY <2>2, TodoMember
    <2> HIDE DEF k
    <2>5. Tasks'
      BY <2>3, <2>4, TaskBecomes DEF IInv
    <2>6. QED
      BY <1>1, <1>4, <2>5, TablesStay DEF IInv
  <1>6. CASE \E pc \in {"root", "pruned", "remapped"} : task' = [task EXCEPT ![t].pc = pc]
    <2>1. Tasks'
      BY <1>6, TaskMoves
    <2>2. QED
      BY <1>1, <1>4, <2>1, TablesStay DEF IInv
  <1>7. QED
    BY <1>5, <1>6 DEF StoreFails

LEMMA PruneRootsKeeps == ASSUME NEW t \in Rescans, IInv, PruneRoots(t) PROVE IInv' /\ IdsStay
  <1>1. /\ task' = [task EXCEPT ![t].pc = "pruned"]
        /\ UNCHANGED <<disk, mounted, options, catalog, bookmark, setup, happened>>
    BY DEF PruneRoots
  <1>2. Tasks' /\ Around'
    BY <1>1, TaskMoves DEF IInv, Around
  <1>3. CASE task[t].keep = {}
    BY <1>2, <1>3, TablesStay DEF IInv, PruneRoots
  <1>4. CASE task[t].keep # {}
    <2> DEFINE gone == {p \in DOMAIN rows : rows[p].root \notin task[t].keep}
               kept == {r \in DOMAIN rootIds : rootIds[r] \in task[t].keep}
    <2>1. /\ rows' = Without(rows, Cascade(rows, gone)) /\ watch' = WatchOf(rows')
          /\ rootIds' = [r \in kept |-> rootIds[r]]
      BY <1>4 DEF PruneRoots, Restrict
    <2>2. /\ DOMAIN rootIds' \subseteq Roots /\ rootIds' \in [DOMAIN rootIds' -> Nat \ {0}]
          /\ IsInjective(rootIds')
      BY <2>1 DEF IInv, Tables, IsInjective
    <2>3. \A p \in DOMAIN rows \ gone : rows[p].root \in Range(rootIds')
      <3> SUFFICES ASSUME NEW p \in DOMAIN rows \ gone PROVE rows[p].root \in Range(rootIds')
        OBVIOUS
      <3>1. rows[p].root \in task[t].keep /\ rows[p].root \in Range(rootIds)
        BY DEF IInv, Tables
      <3>2. PICK r \in DOMAIN rootIds : rootIds[r] = rows[p].root
        BY <3>1 DEF Range
      <3>3. QED
        BY <2>1, <3>1, <3>2 DEF Range
    <2>4. gone \in SUBSET DOMAIN rows
      OBVIOUS
    <2> HIDE DEF gone, kept
    <2>5. Tables' /\ IdsStay
      BY <2>1, <2>2, <2>3, <2>4, DeleteKeeps DEF IInv, Tables
    <2>6. QED
      BY <1>2, <2>5 DEF IInv
  <1>5. QED
    BY <1>3, <1>4

LEMMA RemapIdsKeeps == ASSUME NEW t \in Rescans, IInv, RemapIds(t) PROVE IInv' /\ IdsStay
  <1> DEFINE ids == [p \in task[t].seen |->
                       IF p \in DOMAIN rows THEN rows[p].id ELSE task[t].ids[p]]
             k == [task[t] EXCEPT !.pc = "remapped", !.ids = ids]
  <1>1. /\ task' = [task EXCEPT ![t] = k]
        /\ UNCHANGED <<disk, mounted, options, rootIds, rows, watch, catalog, bookmark, setup, happened>>
    BY DEF RemapIds
  <1>2. WellFormed(task[t])
    BY DEF IInv, Tasks
  <1>3. ids \in IdMaps /\ DOMAIN ids = task[t].seen
    <2>1. task[t].ids \in [task[t].seen -> Nat] /\ task[t].seen \in SUBSET Paths
      BY <1>2 DEF WellFormed, TaskRec, IdMaps
    <2>2. \A p \in DOMAIN rows : rows[p].id \in Nat
      BY DEF IInv, Tables, Sound, Row
    <2>3. ids \in [task[t].seen -> Nat]
      BY <2>1, <2>2
    <2> HIDE DEF ids
    <2>4. QED
      BY <2>1, <2>3 DEF IdMaps
  <1> HIDE DEF ids
  <1>4. WellFormed(k)
    BY <1>2, <1>3, IdsMember DEF Pcs
  <1> HIDE DEF k
  <1>5. Tasks'
    BY <1>1, <1>4, TaskBecomes DEF IInv
  <1>6. QED
    BY <1>1, <1>5, TablesStay DEF IInv, Around

LEMMA PublishKeeps == ASSUME NEW t \in Rescans, IInv, Publish(t) PROVE IInv' /\ IdsStay
  <1>1. /\ task' = [task EXCEPT ![t] = Idle]
        /\ UNCHANGED <<disk, mounted, options, rootIds, rows, watch, bookmark, setup, happened>>
    BY DEF Publish
  <1>2. Tasks'
    BY <1>1, IdleWellFormed, TaskBecomes DEF IInv
  <1>3. Range(catalog') \subseteq Paths
    <2>1. PICK winners \in SUBSET task[t].seen :
            catalog' = AntiFunction(Restrict(task[t].ids, winners))
      BY DEF Publish
    <2>2. catalog' = [i \in {task[t].ids[p] : p \in winners} |->
                        CHOOSE p \in winners : task[t].ids[p] = i]
      BY <2>1 DEF AntiFunction, Inverse, Restrict, Range
    <2>3. Range(catalog') \subseteq winners
      BY <2>2 DEF Range
    <2>4. task[t].seen \subseteq Paths
      BY DEF IInv, Tasks, TaskRec
    <2>5. QED
      BY <2>3, <2>4
  <1>4. QED
    BY <1>1, <1>2, <1>3, TablesStay DEF IInv, Around

-----------------------------------------------------------------------------
LEMMA StepKeeps == IInv /\ [Next]_vars => IInv' /\ (IdsStay \/ UNCHANGED rows)
  <1>1. ASSUME NEW t \in Rescans, IInv, RescanStep(t) PROVE IInv' /\ IdsStay
    BY <1>1, ScanKeeps, UpsertRootKeeps, SyncRootKeeps, SyncRefusedKeeps, StoreFailsKeeps,
       PruneRootsKeeps, RemapIdsKeeps, PublishKeeps
    DEF RescanStep
  <1>2. ASSUME IInv, UNCHANGED vars PROVE IInv' /\ UNCHANGED rows
    <2>1. UNCHANGED <<rootIds, rows, watch>>
      BY <1>2 DEF vars
    <2>2. QED
      BY <1>2, <2>1, TablesStay DEF vars, IInv, Tasks, Around
  <1>3. QED
    BY <1>1, <1>2, ChangeDiskKeeps, RecordPositionKeeps, RememberKeeps, RestartKeeps DEF Next

-----------------------------------------------------------------------------
(* Undisturbed rescans: one at a time, without failures and dropped        *)
(* folders.                                                                *)

\* Everything lies in a directory that exists.
DiskHangsTogether == \A p \in disk : DirOf[p] \in Roots \union disk

BookmarkKnown ==
  \/ bookmark = None
  \/ /\ bookmark = [id |-> bookmark.id, path |-> bookmark.path, kept |-> bookmark.kept]
     /\ bookmark.kept \in BOOLEAN

Alone == \A t, u \in Rescans : ~At(t, "idle") /\ ~At(u, "idle") => t = u

\* A row belongs to the root its path lies under.
AtHome(table) ==
  \A p \in DOMAIN table :
    RootOf(p) \in DOMAIN rootIds /\ table[p].root = rootIds[RootOf(p)]

\* What a rescan has written so far: the rows of the roots it is through with
\* are what it saw there, and the rest of what it saw is still to come.
Written(k, table, known) ==
  /\ \A p \in k.seen : p \notin Roots => DirOf[p] \in k.seen
  /\ k.pc = "sync" => k.root \in DOMAIN known /\ known[k.root] = k.rid
  /\ k.pc \in {"root", "sync"} =>
       /\ \A p \in k.seen : \/ RootOf(p) \in k.todo
                            \/ k.pc = "sync" /\ RootOf(p) = k.root
                            \/ p \in DOMAIN table /\ table[p].root \in k.keep
       /\ \A p \in DOMAIN table : table[p].root \in k.keep => p \in k.seen
  /\ k.pc \in {"pruned", "remapped"} =>
       /\ k.seen \subseteq DOMAIN table
       /\ k.keep # {} => DOMAIN table = k.seen
  /\ k.pc = "remapped" => \A p \in k.seen : k.ids[p] = table[p].id

\* While no rescan runs, the catalog names rows.
NamesRows ==
  (\A t \in Rescans : At(t, "idle")) =>
    \A i \in DOMAIN catalog : catalog[i] \in DOMAIN rows /\ rows[catalog[i]].id = i

\* A remembered film that has stayed has the row it had, and the rescan under
\* way has seen it.
StillNamed ==
  bookmark # None /\ bookmark.kept =>
    /\ bookmark.path \in Visited
    /\ bookmark.path \in DOMAIN rows /\ rows[bookmark.path].id = bookmark.id
    /\ \A t \in Rescans : ~At(t, "idle") => bookmark.path \in task[t].seen
    /\ catalog # << >> =>
         bookmark.id \in DOMAIN catalog /\ catalog[bookmark.id] = bookmark.path

Calm ==
  /\ Alone /\ AtHome(rows) /\ NamesRows /\ StillNamed
  /\ \A t \in Rescans : ~At(t, "idle") => Written(task[t], rows, rootIds)

CalmInv == DiskHangsTogether /\ BookmarkKnown /\ (Undisturbed => Calm)

LEMMA DirsOfPaths ==
  ASSUME NEW p \in Paths, p \notin Roots
  PROVE  /\ DirOf[p] \in Roots \union Folders /\ DirOf[p] \in Paths
         /\ RootOf(DirOf[p]) = RootOf(p)
  <1>1. p \in Folders \union Files /\ DirOf[p] \in Roots \union Folders
    BY StructureAssumption DEF Paths
  <1>2. CASE DirOf[p] \in Roots
    BY <1>1, <1>2 DEF RootOf, Paths
  <1>3. CASE DirOf[p] \notin Roots
    <2>1. DirOf[p] \in Folders /\ DirOf[DirOf[p]] \in Roots
      BY <1>1, <1>3, StructureAssumption
    <2>2. QED
      BY <1>1, <1>3, <2>1 DEF RootOf, Paths
  <1>4. QED
    BY <1>2, <1>3

\* What the scanner meets hangs together like the disk.
LEMMA VisitedHangsTogether ==
  ASSUME Around, DiskHangsTogether, NEW p \in Visited, p \notin Roots
  PROVE  DirOf[p] \in Visited
  <1>1. p \in disk /\ p \in Paths /\ RootOf(p) \in mounted \intersect options
    BY DEF Visited, Around, Paths
  <1>2. DirOf[p] \in Roots \union disk /\ RootOf(DirOf[p]) = RootOf(p)
    BY <1>1, DirsOfPaths DEF DiskHangsTogether
  <1>3. CASE DirOf[p] \in Roots
    BY <1>1, <1>2, <1>3 DEF Visited, RootOf
  <1>4. CASE DirOf[p] \notin Roots
    BY <1>1, <1>2, <1>4 DEF Visited
  <1>5. QED
    BY <1>3, <1>4

LEMMA DiskStaysTogether == IInv /\ DiskHangsTogether /\ [Next]_vars => DiskHangsTogether'
  <1> SUFFICES ASSUME IInv, DiskHangsTogether, [Next]_vars PROVE DiskHangsTogether'
    OBVIOUS
  <1>1. CASE UNCHANGED disk
    BY <1>1 DEF DiskHangsTogether
  <1>2. CASE \E p \in (Folders \union Files) \ disk :
               DirOf[p] \in Roots \union disk /\ disk' = disk \union {p}
    BY <1>2 DEF DiskHangsTogether
  <1>3. CASE \E p \in disk : disk' = disk \ {q \in disk : q = p \/ DirOf[q] = p}
    <2>1. PICK p \in disk : disk' = disk \ {q \in disk : q = p \/ DirOf[q] = p}
      BY <1>3
    <2> SUFFICES ASSUME NEW q \in disk' PROVE DirOf[q] \in Roots \union disk'
      BY DEF DiskHangsTogether
    <2>2. /\ q \in disk /\ DirOf[q] # p /\ q \in Paths /\ q \notin Roots
          /\ p \in Folders \union Files
      BY <2>1, StructureAssumption DEF IInv, Around, Paths
    <2>3. CASE DirOf[q] \in Roots
      BY <2>3
    <2>4. CASE DirOf[q] \notin Roots
      <3>1. DirOf[q] \in disk
        BY <2>2, <2>4 DEF DiskHangsTogether
      <3>2. DirOf[q] \in Folders
        BY <2>2, <2>4, DirsOfPaths
      <3>3. DirOf[DirOf[q]] \in Roots
        BY <3>2, StructureAssumption
      <3>4. DirOf[DirOf[q]] # p
        BY <2>2, <3>3, StructureAssumption
      <3>5. QED
        BY <2>1, <2>2, <3>1, <3>4
    <2>5. QED
      BY <2>3, <2>4
  <1>4. CASE ChangeDisk
    BY <1>1, <1>2, <1>3, <1>4 DEF ChangeDisk
  <1>5. CASE ~ChangeDisk
    <2>1. UNCHANGED disk
      BY <1>5 DEF Next, vars, RecordPosition, Remember, Restart, RescanStep, Scan, UpsertRoot,
         SyncRoot, SyncRefused, StoreFails, PruneRoots, RemapIds, Publish
    <2>2. QED
      BY <1>1, <2>1
  <1>6. QED
    BY <1>4, <1>5

LEMMA BookmarkStaysKnown == BookmarkKnown /\ [Next]_vars => BookmarkKnown'
  <1> SUFFICES ASSUME BookmarkKnown, [Next]_vars PROVE BookmarkKnown'
    OBVIOUS
  <1>1. CASE UNCHANGED bookmark
    BY <1>1 DEF BookmarkKnown
  <1>2. CASE ChangeDisk
    <2>1. bookmark' = StillThere
      BY <1>2 DEF ChangeDisk
    <2>2. CASE bookmark = None
      BY <2>1, <2>2 DEF StillThere, BookmarkKnown
    <2>3. CASE bookmark # None
      BY <2>1, <2>3 DEF StillThere, BookmarkKnown
    <2>4. QED
      BY <2>2, <2>3
  <1>3. CASE Remember
    BY <1>3 DEF Remember, BookmarkKnown
  <1>4. CASE ~ChangeDisk /\ ~Remember
    <2>1. UNCHANGED bookmark
      BY <1>4 DEF Next, vars, RecordPosition, Restart, RescanStep, Scan, UpsertRoot,
         SyncRoot, SyncRefused, StoreFails, PruneRoots, RemapIds, Publish
    <2>2. QED
      BY <1>1, <2>1
  <1>5. QED
    BY <1>2, <1>3, <1>4

\* Once disturbed, disturbed for good.
LEMMA DisturbanceStays == [Next]_vars /\ Undisturbed' => Undisturbed
  BY DEF Undisturbed, Next, vars, ChangeDisk, RecordPosition, Remember, Restart, RescanStep, Scan,
     UpsertRoot, SyncRoot, SyncRefused, StoreFails, PruneRoots, RemapIds, Publish

\* While one rescan works, the others are idle, and stay so.
LEMMA OneWorks ==
  ASSUME Tasks, Alone, NEW t \in Rescans, ~At(t, "idle"),
         NEW k, task' = [task EXCEPT ![t] = k]
  PROVE  /\ task'[t] = k /\ Alone'
         /\ \A u \in Rescans : u # t => At(u, "idle") /\ At(u, "idle")'
  <1>1. task'[t] = k /\ \A u \in Rescans : u # t => task'[u] = task[u]
    BY DEF Tasks
  <1>2. \A u \in Rescans : u # t => At(u, "idle")
    BY DEF Alone
  <1>3. \A u \in Rescans : u # t => At(u, "idle")'
    BY <1>1, <1>2 DEF At
  <1>4. Alone'
    BY <1>3 DEF Alone
  <1>5. QED
    BY <1>1, <1>2, <1>3, <1>4

\* Rows whose directories stay take nothing with them.
LEMMA NothingHangsOn ==
  ASSUME NEW table, Sound(table), NEW gone \in SUBSET DOMAIN table,
         \A p \in DOMAIN table \ gone : table[p].parent # 0 => DirOf[p] \notin gone
  PROVE  /\ Cascade(table, gone) = gone
         /\ DOMAIN Without(table, Cascade(table, gone)) = DOMAIN table \ gone
         /\ \A p \in DOMAIN table \ gone : Without(table, Cascade(table, gone))[p] = table[p]
  <1>1. ASSUME NEW p \in ChildrenOf(table, gone) PROVE p \in gone
    <2>1. PICK q \in gone : p \in DOMAIN table /\ table[p].parent = table[q].id
      BY DEF ChildrenOf
    <2>2. table[q].id \in Nat \ {0}
      BY DEF Sound, Row
    <2>3. DirOf[p] \in DOMAIN table /\ table[DirOf[p]].id = table[q].id
      BY <2>1, <2>2 DEF Sound, Parents
    <2>4. DirOf[p] = q
      BY <2>1, <2>3 DEF Sound, UniqueIds
    <2>5. QED
      BY <2>1, <2>2, <2>4
  <1>2. gone \union ChildrenOf(table, gone) = gone
    BY <1>1
  <1>3. Cascade(table, gone) = gone
    BY <1>2 DEF Cascade
  <1>4. Without(table, gone) = [p \in DOMAIN table \ gone |-> table[p]]
    BY DEF Without, Restrict
  <1>5. QED
    BY <1>3, <1>4

-----------------------------------------------------------------------------
(* The steps of an undisturbed rescan.                                     *)

LEMMA ScanIsCalm ==
  ASSUME IInv, DiskHangsTogether, Calm, NEW t \in Rescans, Scan(t), Undisturbed'
  PROVE  Calm'
  <1>1. /\ ~Overlapping /\ Scanned = Visited
        /\ UNCHANGED <<disk, mounted, options, rootIds, rows, watch, catalog, bookmark>>
    BY DEF Scan, Undisturbed
  <1> DEFINE todo == mounted \intersect options
             ids == [p \in Scanned |-> ScanId(p, Visited)]
             k == [Idle EXCEPT !.pc = "root", !.seen = Scanned, !.todo = todo, !.ids = ids]
  <1>2. task' = [task EXCEPT ![t] = k] /\ task \in [Rescans -> TaskRec]
    BY DEF Scan, IInv, Tasks
  <1>3. k.pc = "root" /\ k.seen = Visited /\ k.todo = todo /\ k.keep = {}
    BY <1>1 DEF Idle
  <1> HIDE DEF k
  <1>4. task'[t] = k /\ \A u \in Rescans : u # t => task'[u].pc = "idle"
    BY <1>1, <1>2 DEF Overlapping, At
  <1>5. Alone' /\ ~At(t, "idle")'
    BY <1>3, <1>4 DEF Alone, At
  <1>6. \A p \in Visited : p \notin Roots => DirOf[p] \in Visited
    BY VisitedHangsTogether DEF IInv
  <1>7. \A p \in Visited : RootOf(p) \in todo
    BY DEF Visited
  <1>8. Written(k, rows', rootIds')
    BY <1>1, <1>3, <1>6, <1>7 DEF Written
  <1>9. \A u \in Rescans : ~At(u, "idle")' => u = t
    BY <1>4 DEF At
  <1>10. \A u \in Rescans : ~At(u, "idle")' => Written(task'[u], rows', rootIds')
    BY <1>4, <1>8, <1>9
  <1>11. AtHome(rows)'
    BY <1>1 DEF Calm, AtHome
  <1>12. NamesRows'
    BY <1>5 DEF NamesRows
  <1>13. Visited' = Visited
    BY <1>1 DEF Visited
  <1>14. StillNamed'
    BY <1>1, <1>3, <1>4, <1>9, <1>13 DEF Calm, StillNamed
  <1>15. QED
    BY <1>5, <1>10, <1>11, <1>12, <1>14 DEF Calm

\* A step of the rescan at work that leaves the catalog alone: what is to be
\* shown of it.
LEMMA WorkIsCalm ==
  ASSUME IInv, IdsStay, Calm, NEW t \in Rescans, ~At(t, "idle"),
         NEW k, task' = [task EXCEPT ![t] = k], k.pc # "idle", k.seen = task[t].seen,
         UNCHANGED <<disk, mounted, options, catalog, bookmark>>,
         AtHome(rows)', Written(k, rows', rootIds'),
         bookmark.path \in DOMAIN rows /\ bookmark.path \in task[t].seen
           => bookmark.path \in DOMAIN rows'
  PROVE  Calm'
  <1>1. /\ task'[t] = k /\ Alone'
        /\ \A u \in Rescans : u # t => At(u, "idle") /\ At(u, "idle")'
    BY OneWorks DEF IInv, Calm
  <1>2. ~At(t, "idle")'
    BY <1>1 DEF At
  <1>3. \A u \in Rescans : ~At(u, "idle")' => Written(task'[u], rows', rootIds')
    BY <1>1
  <1>4. NamesRows'
    BY <1>2 DEF NamesRows
  <1>5. Visited' = Visited
    BY DEF Visited
  <1>6. StillNamed'
    <2> SUFFICES ASSUME bookmark # None, bookmark.kept
                 PROVE  /\ bookmark.path \in Visited
                        /\ bookmark.path \in DOMAIN rows' /\ rows'[bookmark.path].id = bookmark.id
                        /\ \A u \in Rescans : ~At(u, "idle")' => bookmark.path \in task'[u].seen
                        /\ catalog # << >> =>
                             bookmark.id \in DOMAIN catalog /\ catalog[bookmark.id] = bookmark.path
      BY <1>5 DEF StillNamed
    <2>1. /\ bookmark.path \in Visited
          /\ bookmark.path \in DOMAIN rows /\ rows[bookmark.path].id = bookmark.id
          /\ bookmark.path \in task[t].seen
          /\ catalog # << >> =>
               bookmark.id \in DOMAIN catalog /\ catalog[bookmark.id] = bookmark.path
      BY DEF Calm, StillNamed
    <2>2. bookmark.path \in DOMAIN rows' /\ rows'[bookmark.path].id = bookmark.id
      BY <2>1 DEF IdsStay
    <2>3. \A u \in Rescans : ~At(u, "idle")' => bookmark.path \in task'[u].seen
      BY <1>1, <2>1
    <2>4. QED
      BY <2>1, <2>2, <2>3
  <1>7. QED
    BY <1>1, <1>3, <1>4, <1>6 DEF Calm

LEMMA UpsertRootIsCalm ==
  ASSUME IInv, IInv', IdsStay, Calm, NEW t \in Rescans, UpsertRoot(t)
  PROVE  Calm'
  <1>1. PICK r \in task[t].todo :
          /\ rootIds' = IF r \in DOMAIN rootIds THEN rootIds
                        ELSE [q \in DOMAIN rootIds \union {r} |->
                                IF q = r THEN MaxRowId(Range(rootIds)) + 1 ELSE rootIds[q]]
          /\ task' = [task EXCEPT ![t] =
               [task[t] EXCEPT !.pc = "sync", !.root = r, !.rid = rootIds'[r],
                               !.todo = task[t].todo \ {r}]]
    BY DEF UpsertRoot
  <1>2. /\ At(t, "root")
        /\ UNCHANGED <<disk, mounted, options, rows, watch, catalog, bookmark, setup, happened>>
    BY DEF UpsertRoot
  <1> DEFINE rid == rootIds'[r]
             todo == task[t].todo \ {r}
             k == [task[t] EXCEPT !.pc = "sync", !.root = r, !.rid = rid, !.todo = todo]
  <1>3. task[t] \in TaskRec /\ task' = [task EXCEPT ![t] = k] /\ ~At(t, "idle")
    BY <1>1, <1>2 DEF IInv, Tasks, At
  <1>4. /\ k.pc = "sync" /\ k.seen = task[t].seen /\ k.root = r /\ k.rid = rid
        /\ k.todo = todo /\ k.keep = task[t].keep
    BY <1>3 DEF TaskRec
  <1>5. /\ r \in DOMAIN rootIds' /\ DOMAIN rootIds \subseteq DOMAIN rootIds'
        /\ \A q \in DOMAIN rootIds : rootIds'[q] = rootIds[q]
    <2>1. CASE r \in DOMAIN rootIds
      BY <1>1, <2>1
    <2>2. CASE r \notin DOMAIN rootIds
      BY <1>1, <2>2
    <2>3. QED
      BY <2>1, <2>2
  <1>6. Written(task[t], rows, rootIds) /\ task[t].pc = "root"
    BY <1>2, <1>3 DEF Calm, At
  <1> HIDE DEF k, rid
  <1>7. Written(k, rows', rootIds')
    <2>1. \A p \in k.seen : p \notin Roots => DirOf[p] \in k.seen
      BY <1>4, <1>6 DEF Written
    <2>2. \A p \in k.seen : \/ RootOf(p) \in k.todo
                            \/ RootOf(p) = k.root
                            \/ p \in DOMAIN rows /\ rows[p].root \in k.keep
      BY <1>4, <1>6 DEF Written
    <2>3. \A p \in DOMAIN rows : rows[p].root \in k.keep => p \in k.seen
      BY <1>4, <1>6 DEF Written
    <2>4. k.root \in DOMAIN rootIds' /\ rootIds'[k.root] = k.rid
      BY <1>4, <1>5 DEF rid
    <2>5. QED
      BY <1>2, <1>4, <2>1, <2>2, <2>3, <2>4 DEF Written
  <1>8. AtHome(rows)'
    BY <1>2, <1>5 DEF Calm, AtHome
  <1>9. QED
    BY <1>2, <1>3, <1>4, <1>7, <1>8, WorkIsCalm

LEMMA SyncRootIsCalm ==
  ASSUME IInv, IdsStay, Calm, NEW t \in Rescans, SyncRoot(t)
  PROVE  Calm'
  <1> DEFINE rid == task[t].rid
             batch == Batch(t)
  <1>1. PICK newId \in NewIds(batch \ DOMAIN rows) :
          LET table == Upserted(batch, rid, newId)
              gone == {p \in DOMAIN table : table[p].root = rid /\ p \notin batch}
          IN  rows' = Without(table, Cascade(table, gone))
    BY DEF SyncRoot
  <1> DEFINE table == Upserted(batch, rid, newId)
             gone == {p \in DOMAIN table : table[p].root = rid /\ p \notin batch}
             keep == task[t].keep \union {rid}
             k == [task[t] EXCEPT !.pc = "root", !.keep = keep]
  <1>2. /\ At(t, "sync") /\ rid \in Range(rootIds)
        /\ task' = [task EXCEPT ![t] = k]
        /\ UNCHANGED <<disk, mounted, options, rootIds, catalog, bookmark, setup, happened>>
    BY DEF SyncRoot
  <1>3. task[t] \in TaskRec /\ ~At(t, "idle") /\ task[t].pc = "sync" /\ rid \in Nat \ {0}
    BY <1>2 DEF IInv, Tasks, Tables, At, Range
  <1>4. /\ k.pc = "root" /\ k.seen = task[t].seen /\ k.todo = task[t].todo
        /\ k.keep = keep
    BY <1>3 DEF TaskRec
  <1>5. Written(task[t], rows, rootIds) /\ AtHome(rows)
    BY <1>3 DEF Calm
  <1>6. /\ task[t].root \in DOMAIN rootIds /\ rootIds[task[t].root] = rid
        /\ \A r \in DOMAIN rootIds : rootIds[r] = rid => r = task[t].root
    BY <1>3, <1>5 DEF Written, IInv, Tables, IsInjective
  <1>7. batch \in SUBSET Paths /\ batch = {p \in task[t].seen : RootOf(p) = task[t].root}
    BY <1>3 DEF Batch, TaskRec
  <1>8. Sound(table) /\ DOMAIN table = DOMAIN rows \union batch
    BY <1>3, <1>7, UpsertedSound DEF IInv, Tables
  <1>9. /\ \A p \in batch : table[p].root = rid
        /\ \A p \in DOMAIN rows : p \notin batch => table[p] = rows[p]
    BY DEF Upserted
  <1> HIDE DEF batch, table, k, keep
  <1>10. AtHome(table)
    BY <1>5, <1>6, <1>7, <1>8, <1>9 DEF AtHome
  <1>11. ASSUME NEW p \in DOMAIN table \ gone, table[p].parent # 0, DirOf[p] \in gone
         PROVE  FALSE
    <2>1. p \notin Roots /\ p \in Paths /\ DirOf[p] \in DOMAIN table
      BY <1>8, <1>11 DEF Sound, Parents
    <2>2. RootOf(DirOf[p]) = RootOf(p)
      BY <2>1, DirsOfPaths
    <2>3. table[p].root = table[DirOf[p]].root
      BY <1>10, <2>1, <2>2 DEF AtHome
    <2>4. p \in batch
      BY <1>11, <2>3
    <2>5. DirOf[p] \in batch
      BY <1>5, <1>7, <2>1, <2>2, <2>4 DEF Written
    <2>6. QED
      BY <1>11, <2>5
  <1>12. /\ DOMAIN rows' = DOMAIN table \ gone
         /\ \A p \in DOMAIN rows' : rows'[p] = table[p]
    <2>1. rows' = Without(table, Cascade(table, gone)) /\ gone \in SUBSET DOMAIN table
      BY <1>1 DEF table, batch
    <2> HIDE DEF gone
    <2>2. \A p \in DOMAIN table \ gone : table[p].parent # 0 => DirOf[p] \notin gone
      BY <1>11
    <2>3. QED
      BY <1>8, <2>1, <2>2, NothingHangsOn
  <1>13. AtHome(rows)'
    BY <1>2, <1>10, <1>12 DEF AtHome
  <1>14. batch \subseteq DOMAIN rows'
    BY <1>8, <1>12
  <1>15. ASSUME NEW p \in DOMAIN rows, p \in task[t].seen
         PROVE  p \in DOMAIN rows'
    <2>1. CASE p \in batch
      BY <1>14, <2>1
    <2>2. CASE p \notin batch
      <3>1. RootOf(p) # task[t].root /\ table[p] = rows[p] /\ p \in DOMAIN table
        BY <1>7, <1>8, <1>9, <1>15, <2>2
      <3>2. table[p].root # rid
        BY <1>5, <1>6, <3>1 DEF AtHome
      <3>3. QED
        BY <1>12, <3>1, <3>2
    <2>3. QED
      BY <2>1, <2>2
  <1>16. Written(k, rows', rootIds')
    <2>1. \A p \in k.seen : p \notin Roots => DirOf[p] \in k.seen
      BY <1>4, <1>5 DEF Written
    <2>2. ASSUME NEW p \in k.seen, RootOf(p) \notin k.todo
          PROVE  p \in DOMAIN rows' /\ rows'[p].root \in k.keep
      <3>1. CASE p \in batch
        BY <1>4, <1>9, <1>12, <1>14, <3>1 DEF keep
      <3>2. CASE p \notin batch
        <4>1. p \in DOMAIN rows /\ rows[p].root \in task[t].keep
          BY <1>3, <1>4, <1>5, <1>7, <2>2, <3>2 DEF Written
        <4>2. p \in DOMAIN rows' /\ rows'[p] = rows[p]
          BY <1>4, <1>9, <1>12, <1>15, <2>2, <3>2, <4>1
        <4>3. QED
          BY <1>4, <4>1, <4>2 DEF keep
      <3>3. QED
        BY <3>1, <3>2
    <2>3. ASSUME NEW p \in DOMAIN rows', rows'[p].root \in k.keep
          PROVE  p \in k.seen
      <3>1. CASE p \in batch
        BY <1>4, <1>7, <3>1
      <3>2. CASE p \notin batch
        <4>1. p \in DOMAIN rows /\ rows'[p] = rows[p] /\ rows[p].root # rid
          BY <1>8, <1>9, <1>12, <3>2
        <4>2. rows[p].root \in task[t].keep
          BY <1>4, <2>3, <4>1 DEF keep
        <4>3. QED
          BY <1>3, <1>4, <1>5, <4>1, <4>2 DEF Written
      <3>3. QED
        BY <3>1, <3>2
    <2>4. QED
      BY <1>4, <2>1, <2>2, <2>3 DEF Written
  <1>17. QED
    BY <1>2, <1>3, <1>4, <1>13, <1>15, <1>16, WorkIsCalm

\* Alone, a rescan finds the root it has written.
LEMMA NeverRefused ==
  ASSUME Calm, NEW t \in Rescans
  PROVE  ~SyncRefused(t)
  <1> SUFFICES ASSUME SyncRefused(t) PROVE FALSE
    OBVIOUS
  <1>1. task[t].pc = "sync" /\ task[t].rid \notin Range(rootIds)
    BY DEF SyncRefused, At
  <1>2. Written(task[t], rows, rootIds)
    BY <1>1 DEF Calm, At
  <1>3. QED
    BY <1>1, <1>2 DEF Written, Range

LEMMA PruneRootsIsCalm ==
  ASSUME IInv, IdsStay, Calm, NEW t \in Rescans, PruneRoots(t)
  PROVE  Calm'
  <1> DEFINE k == [task[t] EXCEPT !.pc = "pruned"]
  <1>1. /\ At(t, "root") /\ task[t].todo = {}
        /\ task' = [task EXCEPT ![t] = k]
        /\ UNCHANGED <<disk, mounted, options, catalog, bookmark, setup, happened>>
    BY DEF PruneRoots
  <1>2. task[t] \in TaskRec /\ ~At(t, "idle") /\ task[t].pc = "root"
    BY <1>1 DEF IInv, Tasks, At
  <1>3. k.pc = "pruned" /\ k.seen = task[t].seen /\ k.keep = task[t].keep
    BY <1>2 DEF TaskRec
  <1>4. Written(task[t], rows, rootIds) /\ AtHome(rows)
    BY <1>2 DEF Calm
  <1>5. /\ \A p \in k.seen : p \in DOMAIN rows /\ rows[p].root \in k.keep
        /\ \A p \in DOMAIN rows : rows[p].root \in k.keep => p \in k.seen
        /\ \A p \in k.seen : p \notin Roots => DirOf[p] \in k.seen
    BY <1>1, <1>2, <1>3, <1>4 DEF Written
  <1> HIDE DEF k
  <1>6. CASE k.keep = {}
    <2>1. UNCHANGED <<rootIds, rows>>
      BY <1>3, <1>6 DEF PruneRoots
    <2>2. AtHome(rows)'
      BY <1>4, <2>1 DEF AtHome
    <2>3. Written(k, rows', rootIds')
      BY <1>3, <1>5, <1>6, <2>1 DEF Written
    <2>4. QED
      BY <1>1, <1>2, <1>3, <2>1, <2>2, <2>3, WorkIsCalm
  <1>7. CASE k.keep # {}
    <2> DEFINE gone == {p \in DOMAIN rows : rows[p].root \notin k.keep}
               kept == {r \in DOMAIN rootIds : rootIds[r] \in k.keep}
    <2>1. /\ rows' = Without(rows, Cascade(rows, gone))
          /\ rootIds' = [r \in kept |-> rootIds[r]]
      BY <1>3, <1>7 DEF PruneRoots, Restrict
    <2>2. ASSUME NEW p \in DOMAIN rows \ gone, rows[p].parent # 0 PROVE DirOf[p] \notin gone
      <3>1. p \notin Roots /\ p \in Paths /\ DirOf[p] \in DOMAIN rows
        BY <2>2 DEF IInv, Tables, Sound, Parents
      <3>2. rows[p].root = rows[DirOf[p]].root
        BY <1>4, <3>1, DirsOfPaths DEF AtHome
      <3>3. QED
        BY <3>2
    <2>3. gone \in SUBSET DOMAIN rows /\ Sound(rows)
      BY DEF IInv, Tables
    <2>4. DOMAIN rows \ gone = k.seen
      BY <1>5
    <2> HIDE DEF gone
    <2>5. DOMAIN rows' = k.seen /\ \A p \in k.seen : rows'[p] = rows[p]
      BY <2>1, <2>2, <2>3, <2>4, NothingHangsOn
    <2>6. AtHome(rows)'
      BY <1>4, <1>5, <2>1, <2>5 DEF AtHome
    <2>7. Written(k, rows', rootIds')
      BY <1>3, <1>5, <2>5 DEF Written
    <2>8. QED
      BY <1>1, <1>2, <1>3, <2>5, <2>6, <2>7, WorkIsCalm
  <1>8. QED
    BY <1>6, <1>7

LEMMA RemapIdsIsCalm ==
  ASSUME IInv, IdsStay, Calm, NEW t \in Rescans, RemapIds(t)
  PROVE  Calm'
  <1> DEFINE ids == [p \in task[t].seen |->
                       IF p \in DOMAIN rows THEN rows[p].id ELSE task[t].ids[p]]
             k == [task[t] EXCEPT !.pc = "remapped", !.ids = ids]
  <1>1. /\ At(t, "pruned") /\ task' = [task EXCEPT ![t] = k]
        /\ UNCHANGED <<disk, mounted, options, rootIds, rows, watch, catalog, bookmark, setup, happened>>
    BY DEF RemapIds
  <1>2. task[t] \in TaskRec /\ ~At(t, "idle") /\ task[t].pc = "pruned"
    BY <1>1 DEF IInv, Tasks, At
  <1>3. k.pc = "remapped" /\ k.seen = task[t].seen /\ k.keep = task[t].keep /\ k.ids = ids
    BY <1>2 DEF TaskRec
  <1>4. Written(task[t], rows, rootIds) /\ AtHome(rows)
    BY <1>2 DEF Calm
  <1>5. k.seen \subseteq DOMAIN rows /\ \A p \in k.seen : ids[p] = rows[p].id
    BY <1>2, <1>3, <1>4 DEF Written
  <1> HIDE DEF k, ids
  <1>6. Written(k, rows', rootIds')
    BY <1>1, <1>2, <1>3, <1>4, <1>5 DEF Written
  <1>7. AtHome(rows)'
    BY <1>1, <1>4 DEF AtHome
  <1>8. QED
    BY <1>1, <1>2, <1>3, <1>6, <1>7, WorkIsCalm

\* The ids of a catalog that is about to be published are those of its rows.
LEMMA RemappedIds ==
  ASSUME IInv, Calm, NEW t \in Rescans, At(t, "remapped")
  PROVE  /\ IsInjective(task[t].ids) /\ DOMAIN task[t].ids = task[t].seen
         /\ \A p \in task[t].seen : p \in DOMAIN rows /\ task[t].ids[p] = rows[p].id
  <1>1. task[t].pc = "remapped" /\ Written(task[t], rows, rootIds)
    BY DEF Calm, At
  <1>2. DOMAIN task[t].ids = task[t].seen
    BY DEF IInv, Tasks, WellFormed
  <1>3. \A p \in task[t].seen : p \in DOMAIN rows /\ task[t].ids[p] = rows[p].id
    BY <1>1 DEF Written
  <1>4. IsInjective(task[t].ids)
    BY <1>2, <1>3 DEF IsInjective, IInv, Tables, Sound, UniqueIds
  <1>5. QED
    BY <1>2, <1>3, <1>4

LEMMA PublishIsCalm ==
  ASSUME IInv, Calm, NEW t \in Rescans, Publish(t)
  PROVE  Calm'
  <1>1. /\ At(t, "remapped") /\ task' = [task EXCEPT ![t] = Idle] /\ ~At(t, "idle")
        /\ UNCHANGED <<disk, mounted, options, rootIds, rows, watch, bookmark, setup, happened>>
    BY DEF Publish, At
  <1>2. PICK winners \in SUBSET task[t].seen :
          /\ Range(Restrict(task[t].ids, winners)) = Range(task[t].ids)
          /\ catalog' = AntiFunction(Restrict(task[t].ids, winners))
    BY DEF Publish
  <1> DEFINE ids == task[t].ids
             seen == task[t].seen
  <1>3. /\ DOMAIN ids = seen /\ (\A p, q \in seen : ids[p] = ids[q] => p = q)
        /\ \A p \in seen : p \in DOMAIN rows /\ ids[p] = rows[p].id
    BY <1>1, RemappedIds DEF IsInjective
  <1>4. winners = seen
    <2>1. ASSUME NEW p \in seen PROVE p \in winners
      <3>1. ids[p] \in Range(Restrict(ids, winners))
        BY <1>2, <1>3 DEF Range
      <3>2. PICK q \in winners : ids[q] = ids[p]
        BY <3>1 DEF Range, Restrict
      <3>3. QED
        BY <1>3, <3>2
    <2>2. QED
      BY <2>1
  <1>5. catalog' = [i \in {ids[p] : p \in seen} |-> CHOOSE p \in seen : ids[p] = i]
    <2>1. catalog' = [i \in {task[t].ids[p] : p \in winners} |->
                        CHOOSE p \in winners : task[t].ids[p] = i]
      BY <1>2 DEF AntiFunction, Inverse, Restrict, Range
    <2>2. QED
      BY <1>4, <2>1
  <1>6. /\ DOMAIN catalog' = {ids[p] : p \in seen}
        /\ \A p \in seen : catalog'[ids[p]] = p
    <2>1. ASSUME NEW p \in seen PROVE catalog'[ids[p]] = p
      <3>1. catalog'[ids[p]] = CHOOSE q \in seen : ids[q] = ids[p]
        BY <1>5
      <3>2. QED
        BY <1>3, <3>1
    <2>2. QED
      BY <1>5, <2>1
  <1>7. /\ task'[t] = Idle /\ Alone' /\ \A u \in Rescans : At(u, "idle")'
    <2>1. /\ task'[t] = Idle /\ Alone'
          /\ \A u \in Rescans : u # t => At(u, "idle")'
      BY <1>1, OneWorks DEF IInv, Calm
    <2>2. At(t, "idle")'
      BY <2>1 DEF At, Idle
    <2>3. QED
      BY <2>1, <2>2
  <1> HIDE DEF ids, seen
  <1>8. NamesRows'
    BY <1>1, <1>3, <1>6 DEF NamesRows
  <1>9. StillNamed'
    <2>1. Visited' = Visited
      BY <1>1 DEF Visited
    <2>2. ASSUME bookmark # None, bookmark.kept
          PROVE  /\ bookmark.path \in Visited
                 /\ bookmark.path \in DOMAIN rows /\ rows[bookmark.path].id = bookmark.id
                 /\ bookmark.path \in seen
      BY <1>1, <2>2 DEF Calm, StillNamed, seen
    <2>3. ASSUME bookmark # None, bookmark.kept
          PROVE  bookmark.id \in DOMAIN catalog' /\ catalog'[bookmark.id] = bookmark.path
      BY <1>3, <1>6, <2>2, <2>3
    <2>4. QED
      BY <1>1, <1>7, <2>1, <2>2, <2>3 DEF StillNamed
  <1>10. AtHome(rows)'
    BY <1>1 DEF Calm, AtHome
  <1>11. QED
    BY <1>7, <1>8, <1>9, <1>10 DEF Calm

-----------------------------------------------------------------------------
(* Undisturbed: the disk, clients, restarts.                               *)

LEMMA ChangeDiskIsCalm == Calm /\ ChangeDisk /\ BookmarkKnown => Calm'
  <1> SUFFICES ASSUME Calm, ChangeDisk, BookmarkKnown PROVE Calm'
    OBVIOUS
  <1>1. UNCHANGED <<options, rootIds, rows, watch, catalog, task, happened>> /\ bookmark' = StillThere
    BY DEF ChangeDisk
  <1>2. Alone' /\ AtHome(rows)' /\ NamesRows' /\ \A t \in Rescans : ~At(t, "idle")' => Written(task'[t], rows', rootIds')
    BY <1>1 DEF Calm, Alone, AtHome, NamesRows, Written, At
  <1>3. StillNamed'
    <2>1. CASE bookmark = None
      BY <1>1, <2>1 DEF StillThere, StillNamed
    <2>2. CASE bookmark # None
      <3>1. /\ bookmark' = [bookmark EXCEPT !.kept = bookmark.kept /\ bookmark.path \in Visited']
            /\ bookmark = [id |-> bookmark.id, path |-> bookmark.path, kept |-> bookmark.kept]
        BY <1>1, <2>2 DEF StillThere, BookmarkKnown
      <3>2. /\ bookmark'.path = bookmark.path /\ bookmark'.id = bookmark.id
            /\ bookmark'.kept => bookmark.kept /\ bookmark.path \in Visited'
        BY <3>1
      <3>3. QED
        BY <1>1, <2>2, <3>2 DEF Calm, StillNamed, At
    <2>3. QED
      BY <2>1, <2>2
  <1>4. QED
    BY <1>2, <1>3 DEF Calm

LEMMA RecordPositionIsCalm == Calm /\ RecordPosition => Calm'
  <1> SUFFICES ASSUME Calm, RecordPosition PROVE Calm'
    OBVIOUS
  <1>1. UNCHANGED <<disk, mounted, options, rootIds, rows, catalog, task, bookmark>>
    BY DEF RecordPosition
  <1>2. Visited' = Visited
    BY <1>1 DEF Visited
  <1>3. QED
    BY <1>1, <1>2 DEF Calm, Alone, AtHome, NamesRows, StillNamed, Written, At

LEMMA RememberIsCalm == Calm /\ Remember => Calm'
  <1> SUFFICES ASSUME Calm, Remember PROVE Calm'
    OBVIOUS
  <1>1. UNCHANGED <<disk, mounted, options, rootIds, rows, watch, catalog, task>>
    BY DEF Remember
  <1>2. Alone' /\ AtHome(rows)' /\ NamesRows' /\ \A t \in Rescans : ~At(t, "idle")' => Written(task'[t], rows', rootIds')
    BY <1>1 DEF Calm, Alone, AtHome, NamesRows, Written, At
  <1>3. PICK i \in DOMAIN catalog :
          bookmark' = [id |-> i, path |-> catalog[i],
                       kept |-> /\ catalog[i] \in Visited
                                /\ \A t \in Rescans : At(t, "idle")]
    BY DEF Remember
  <1>4. bookmark'.id = i /\ bookmark'.path = catalog[i]
        /\ (bookmark'.kept => catalog[i] \in Visited /\ \A t \in Rescans : At(t, "idle"))
    BY <1>3
  <1>5. Visited' = Visited
    BY <1>1 DEF Visited
  <1>6. StillNamed'
    BY <1>1, <1>4, <1>5 DEF Calm, NamesRows, StillNamed, At
  <1>7. QED
    BY <1>2, <1>6 DEF Calm

LEMMA RestartIsCalm == Calm /\ Restart => Calm'
  <1> SUFFICES ASSUME Calm, Restart PROVE Calm'
    OBVIOUS
  <1>1. /\ task' = [t \in Rescans |-> Idle] /\ catalog' = << >> /\ options' = mounted
        /\ UNCHANGED <<disk, mounted, rootIds, rows, watch, bookmark, happened>>
    BY DEF Restart
  <1>2. \A t \in Rescans : At(t, "idle")'
    BY <1>1 DEF At, Idle
  <1>3. Visited \subseteq Visited'
    BY <1>1 DEF Visited
  <1>4. StillNamed'
    BY <1>1, <1>2, <1>3 DEF Calm, StillNamed
  <1>5. NamesRows' /\ AtHome(rows)'
    BY <1>1 DEF NamesRows, AtHome, Calm
  <1>6. QED
    BY <1>2, <1>4, <1>5 DEF Calm, Alone

LEMMA CalmStarts == Init => CalmInv
  <1> SUFFICES ASSUME Init PROVE CalmInv
    OBVIOUS
  <1>1. DiskHangsTogether
    BY StructureAssumption DEF Init, DiskHangsTogether
  <1>2. \A t \in Rescans : At(t, "idle")
    BY DEF Init, At, Idle
  <1>3. Calm
    BY <1>2 DEF Init, Calm, Alone, AtHome, NamesRows, StillNamed
  <1>4. QED
    BY <1>1, <1>3 DEF CalmInv, BookmarkKnown, Init

LEMMA CalmStays == IInv /\ CalmInv /\ [Next]_vars => CalmInv'
  <1> SUFFICES ASSUME IInv, CalmInv, [Next]_vars PROVE CalmInv'
    OBVIOUS
  <1>1. DiskHangsTogether' /\ BookmarkKnown'
    BY DiskStaysTogether, BookmarkStaysKnown DEF CalmInv
  <1>2. ASSUME Undisturbed' PROVE Calm'
    <2>1. Calm /\ DiskHangsTogether /\ BookmarkKnown
      BY <1>2, DisturbanceStays DEF CalmInv
    <2>2. CASE UNCHANGED vars
      <3>1. Visited' = Visited
        BY <2>2 DEF vars, Visited
      <3>2. QED
        BY <2>1, <2>2, <3>1 DEF vars, Calm, Alone, AtHome, NamesRows, StillNamed, Written, At
    <2>3. ASSUME NEW t \in Rescans, RescanStep(t) PROVE Calm'
      <3>1. IInv' /\ IdsStay
        BY <2>3, ScanKeeps, UpsertRootKeeps, SyncRootKeeps, SyncRefusedKeeps, StoreFailsKeeps,
           PruneRootsKeeps, RemapIdsKeeps, PublishKeeps DEF RescanStep
      <3>2. ~StoreFails(t)
        BY <1>2 DEF StoreFails, Undisturbed
      <3>3. ~SyncRefused(t)
        BY <2>1, NeverRefused
      <3>4. QED
        BY <1>2, <2>1, <2>3, <3>1, <3>2, <3>3, ScanIsCalm, UpsertRootIsCalm, SyncRootIsCalm,
           PruneRootsIsCalm, RemapIdsIsCalm, PublishIsCalm DEF RescanStep
    <2>4. QED
      BY <2>1, <2>2, <2>3, ChangeDiskIsCalm, RecordPositionIsCalm, RememberIsCalm, RestartIsCalm
         DEF Next
  <1>3. QED
    BY <1>1, <1>2 DEF CalmInv

LEMMA AlwaysCalm == Spec => [](IInv /\ CalmInv)
  <1>1. Init => IInv /\ CalmInv
    BY Start, CalmStarts
  <1>2. IInv /\ CalmInv /\ [Next]_vars => IInv' /\ CalmInv'
    BY StepKeeps, CalmStays
  <1>3. QED
    BY <1>1, <1>2, PTL DEF Spec

LEMMA CalmAgrees == IInv /\ CalmInv => CatalogAndRowsAgree /\ BookmarkOutlivesRescans
  <1> SUFFICES ASSUME IInv, CalmInv PROVE CatalogAndRowsAgree /\ BookmarkOutlivesRescans
    OBVIOUS
  <1>1. CatalogNamesRows
    BY RemappedIds DEF CatalogNamesRows, CalmInv, Calm, NamesRows
  <1>2. IndexFollowsScan
    <2> SUFFICES ASSUME NEW t \in Rescans, Undisturbed, At(t, "pruned"), task[t].keep # {}
                 PROVE  DOMAIN rows = task[t].seen
      BY DEF IndexFollowsScan
    <2>1. Written(task[t], rows, rootIds) /\ task[t].pc = "pruned"
      BY DEF CalmInv, Calm, At
    <2>2. QED
      BY <2>1 DEF Written
  <1>3. BookmarkOutlivesRescans
    BY DEF BookmarkOutlivesRescans, CalmInv, Calm, StillNamed
  <1>4. QED
    BY <1>1, <1>2, <1>3 DEF CatalogAndRowsAgree

-----------------------------------------------------------------------------
\* items.rs, adopt.rs, schema.rs: any number of rescans at once over a disk
\* that changes, with failing transactions and restarts, leave tables whose
\* rows hang on their own directories and roots, and a stored position is
\* always that of the film it was stored for, although ids are given out again.
THEOREM PositionsStayWithTheirFilms == Spec => []Inv
  <1>1. Spec => []IInv
    BY Start, StepKeeps, PTL DEF Spec
  <1>2. QED
    BY <1>1, Implied, PTL

\* items.rs, sync: no step of any rescan gives a path that keeps its row
\* another id, which is what the ObjectIDs of the TVs rest on.
THEOREM IdsNeverChange == Spec => IdStable
  <1>1. Spec => []IInv
    BY Start, StepKeeps, PTL DEF Spec
  <1>2. IInv /\ [Next]_vars =>
          [\A p \in DOMAIN rows \intersect DOMAIN rows' : rows'[p].id = rows[p].id]_rows
    BY StepKeeps DEF IdsStay
  <1>3. QED
    BY <1>1, <1>2, PTL DEF Spec, IdStable

\* state.rs rescan, adopt.rs: as long as rescans neither overlap nor fail and
\* no folder is dropped, the database holds what a rescan saw, no node is lost
\* by renaming, and every object id of the published catalog is the id of that
\* path in the database, for every library and through every restart.
THEOREM BrowseAndSearchAgree == Spec => []CatalogAndRowsAgree
  BY AlwaysCalm, CalmAgrees, PTL

\* AppState::rescan, items.rs sync: under the same conditions the ObjectID that
\* a television remembers means the same film after every rescan and restart,
\* as long as the film has stayed on the disk.
THEOREM BookmarksLast == Spec => []BookmarkOutlivesRescans
  BY AlwaysCalm, CalmAgrees, PTL

=============================================================================
