-------------------------- MODULE CatalogueProofs --------------------------
(***************************************************************************)
(* Proofs about the catalogue and the televisions that read it.            *)
(*                                                                         *)
(* Lists, sorting and what can be reached come first, then what names say, *)
(* what a scan reads and how it is arranged, root after root, then the     *)
(* theorems.                                                               *)
(***************************************************************************)
EXTENDS ContentDirectory, FiniteSetTheorems, SequenceTheorems, WellFoundedInduction, TLAPS

-----------------------------------------------------------------------------
(* Sequences of the catalogue.                                             *)

IsList(s) == s \in Seq(ToSet(s))

\* A function on 1..n is a sequence.
LEMMA ListIntro ==
  ASSUME NEW n \in Nat, NEW f, f = [k \in 1 .. n |-> f[k]]
  PROVE  IsList(f) /\ Len(f) = n /\ DOMAIN f = 1 .. n
  BY DEF IsList, ToSet

LEMMA ListFacts ==
  ASSUME NEW s, IsList(s)
  PROVE  /\ Len(s) \in Nat /\ DOMAIN s = 1 .. Len(s) /\ IsFiniteSet(DOMAIN s)
         /\ s = [k \in 1 .. Len(s) |-> s[k]]
  <1>1. Len(s) \in Nat /\ DOMAIN s = 1 .. Len(s) /\ s = [k \in 1 .. Len(s) |-> s[k]]
    BY DEF IsList
  <1>2. IsFiniteSet(1 .. Len(s))
    BY <1>1, FS_Interval
  <1> QED
    BY <1>1, <1>2

LEMMA AtIsList ==
  ASSUME NEW s, NEW places, IsFiniteSet(places)
  PROVE  IsList(At(s, places)) /\ Len(At(s, places)) = Cardinality(places)
  <1>1. Cardinality(places) \in Nat
    BY FS_CardinalityType
  <1>2. At(s, places) = [k \in 1 .. Cardinality(places) |-> At(s, places)[k]]
    BY DEF At
  <1> QED
    BY <1>1, <1>2, ListIntro

LEMMA AmongIsList ==
  ASSUME NEW s, NEW S, IsList(s)
  PROVE  IsList(Among(s, S))
  <1> DEFINE places == {i \in DOMAIN s : s[i] \in S}
  <1>1. IsFiniteSet(places)
    BY ListFacts, FS_Subset
  <1> QED
    BY <1>1, AtIsList DEF Among

LEMMA JoinIsList ==
  ASSUME NEW s, NEW t, IsList(s), IsList(t)
  PROVE  IsList(s \o t) /\ Len(s \o t) = Len(s) + Len(t)
  <1>1. s \in Seq(ToSet(s) \cup ToSet(t)) /\ t \in Seq(ToSet(s) \cup ToSet(t))
    BY DEF IsList
  <1> DEFINE q == s \o t
  <1>2. Len(q) = Len(s) + Len(t) /\ q \in Seq(ToSet(s) \cup ToSet(t))
    BY <1>1
  <1> HIDE DEF q
  <1>3. Len(q) \in Nat /\ q = [k \in 1 .. Len(q) |-> q[k]]
    BY <1>2
  <1>4. IsList(q)
    BY <1>3, ListIntro
  <1> QED
    BY <1>2, <1>4 DEF q

LEMMA ReverseIsList ==
  ASSUME NEW s, IsList(s)
  PROVE  IsList(Reverse(s)) /\ Len(Reverse(s)) = Len(s)
  <1>1. Reverse(s) = [k \in 1 .. Len(s) |-> Reverse(s)[k]]
    BY DEF Reverse
  <1> QED
    BY <1>1, ListFacts, ListIntro

LEMMA PartIsList ==
  ASSUME NEW s, NEW n \in Nat
  PROVE  IsList(SubSeq(s, 1, n)) /\ Len(SubSeq(s, 1, n)) = n
  <1> DEFINE q == SubSeq(s, 1, n)
  <1>1. q = [k \in 1 .. n |-> s[k]]
    OBVIOUS
  <1>2. q = [k \in 1 .. n |-> q[k]]
    BY <1>1
  <1> QED
    BY <1>2, ListIntro

-----------------------------------------------------------------------------
(* Pages.                                                                  *)

\* A catalog: a finite function from ids to nodes.
Kinds == {"folder", "video", "audio"}
IsNode(n) ==
  /\ DOMAIN n = {"parent", "title", "kind", "children", "file", "day"}
  /\ n.kind \in Kinds /\ IsList(n.children)
WellFormed(cat) ==
  IsFiniteSet(DOMAIN cat) /\ \A id \in DOMAIN cat : IsNode(cat[id])

LEMMA ChildrenAreListed ==
  ASSUME NEW cat, WellFormed(cat), NEW id
  PROVE  IsList(Children(cat, id))
  <1>1. CASE id \in DOMAIN cat
    BY <1>1, AmongIsList DEF Children, WellFormed, IsNode
  <1>2. CASE id \notin DOMAIN cat
    BY <1>2 DEF Children, IsList
  <1> QED
    BY <1>1, <1>2

\* A list that is sorted stays as long as it was.
LEMMA SortedIsList ==
  ASSUME NEW cat, NEW ids, IsList(ids), NEW sort
  PROVE  IsList(SortNodes(cat, ids, sort)) /\ Len(SortNodes(cat, ids, sort)) = Len(ids)
  <1>1. Len(ids) \in Nat /\ DOMAIN ids = 1 .. Len(ids)
    BY ListFacts
  <1>2. CASE sort = ""
    <2> DEFINE FoldersFirst(a, b) == \/ Folder(cat, a) /\ ~Folder(cat, b)
                                     \/ Folder(cat, a) = Folder(cat, b) /\ Earlier(cat, a, b)
               q == StableSort(ids, FoldersFirst)
    <2>1. SortNodes(cat, ids, sort) = q
      BY <1>2 DEF SortNodes
    <2> HIDE DEF FoldersFirst
    <2>2. q = [k \in 1 .. Len(ids) |-> q[k]]
      BY <1>1 DEF StableSort
    <2> QED
      BY <1>1, <2>1, <2>2, ListIntro
  <1> DEFINE byDate == ByDate(cat, ids)
             byTitle == ByTitle(cat, ids)
  <1>3. IsList(byDate) /\ Len(byDate) = Len(ids)
    <2>1. byDate = [k \in 1 .. Len(ids) |-> byDate[k]]
      BY <1>1 DEF ByDate, StableSort
    <2> QED
      BY <1>1, <2>1, ListIntro
  <1>4. IsList(byTitle) /\ Len(byTitle) = Len(ids)
    <2>1. byTitle = [k \in 1 .. Len(ids) |-> byTitle[k]]
      BY <1>1 DEF ByTitle, StableSort
    <2> QED
      BY <1>1, <2>1, ListIntro
  <1>5. /\ IsList(Reverse(byDate)) /\ Len(Reverse(byDate)) = Len(ids)
        /\ IsList(Reverse(byTitle)) /\ Len(Reverse(byTitle)) = Len(ids)
    BY <1>3, <1>4, ReverseIsList
  <1>6. sort # "" => SortNodes(cat, ids, sort) \in {byDate, Reverse(byDate), byTitle, Reverse(byTitle)}
    BY DEF SortNodes
  <1> QED
    BY <1>2, <1>3, <1>4, <1>5, <1>6

LEMMA ViewsAreListed ==
  IsList(ShownViews)
  <1>1. IsList(ViewList)
    BY ContentAssumption DEF IsList
  <1> DEFINE places == {i \in DOMAIN ViewList : ViewList[i] \in ToSet(Available)
                                    /\ \A j \in 1 .. (i - 1) : ViewList[j] # ViewList[i]}
             chosen == At(ViewList, places)
  <1>2. IsList(chosen)
    <2>1. IsFiniteSet(places)
      BY <1>1, ListFacts, FS_Subset
    <2> QED
      BY <2>1, AtIsList
  <1>3. IsList(<<"movies", "series">>)
    BY DEF IsList, ToSet
  <1>4. ShownViews = IF chosen = <<>> THEN <<"movies", "series">> ELSE chosen
    BY DEF ShownViews
  <1> QED
    BY <1>2, <1>3, <1>4

LEMMA ViewItemsAreListed ==
  ASSUME NEW cat, NEW ord, IsList(ord), NEW v
  PROVE  IsList(ViewItems(cat, ord, v))
  <1>1. \A S : IsList(Among(ord, S))
    BY AmongIsList
  <1>2. IsList(Recent(cat, ord))
    <2> DEFINE found == Among(ord, OfKinds(cat, KindsOf("recent")))
               newest == StableSort(found, LAMBDA a, b : cat[a].day > cat[b].day)
               limit == IF RecentLimit = 0 THEN 1 ELSE RecentLimit
               n == IF Len(newest) < limit THEN Len(newest) ELSE limit
    <2>1. IsList(found)
      BY <1>1
    <2>2. Len(found) \in Nat /\ DOMAIN found = 1 .. Len(found)
      BY <2>1, ListFacts
    <2>3. newest = [k \in 1 .. Len(found) |-> newest[k]]
      BY <2>2 DEF StableSort
    <2>4. Len(newest) \in Nat
      BY <2>2, <2>3, ListIntro
    <2>5. n \in Nat
      BY <2>4, ContentAssumption
    <2>6. Recent(cat, ord) = SubSeq(newest, 1, n)
      BY DEF Recent
    <2> QED
      BY <2>5, <2>6, PartIsList
  <1> QED
    BY <1>1, <1>2 DEF ViewItems

LEMMA RootIsListed ==
  ASSUME NEW cat, WellFormed(cat), NEW sort
  PROVE  IsList(RootChildren(cat, sort))
  <1> DEFINE folders == Children(cat, Top)
             inOrder == Among(Available, ToSet(ShownViews))
             ids == [k \in DOMAIN inOrder |-> ViewId(inOrder[k])]
             all == [k \in DOMAIN ShownViews |-> ViewId(ShownViews[k])]
             byTitle == ByTitle(cat, folders)
  <1>1. IsList(folders)
    BY ChildrenAreListed
  <1>2. IsList(inOrder)
    <2>1. IsList(Available)
      BY DEF IsList, ToSet, Available
    <2> QED
      BY <2>1, AmongIsList
  <1>3. IsList(ids)
    <2>1. ids = [k \in 1 .. Len(inOrder) |-> ids[k]] /\ Len(inOrder) \in Nat
      BY <1>2, ListFacts
    <2> QED
      BY <2>1, ListIntro
  <1>4. IsList(all)
    <2>1. all = [k \in 1 .. Len(ShownViews) |-> all[k]] /\ Len(ShownViews) \in Nat
      BY ViewsAreListed, ListFacts
    <2> QED
      BY <2>1, ListIntro
  <1>5. IsList(byTitle)
    <2>1. Len(folders) \in Nat /\ DOMAIN folders = 1 .. Len(folders)
      BY <1>1, ListFacts
    <2>2. byTitle = [k \in 1 .. Len(folders) |-> byTitle[k]]
      BY <2>1 DEF ByTitle, StableSort
    <2> QED
      BY <2>1, <2>2, ListIntro
  <1>6. IsList(ids \o byTitle) /\ IsList(SortNodes(cat, folders \o all, sort))
    BY <1>1, <1>3, <1>4, <1>5, JoinIsList, SortedIsList
  <1>7. RootChildren(cat, sort) = IF sort # "" THEN SortNodes(cat, folders \o all, sort) ELSE ids \o byTitle
    BY DEF RootChildren
  <1> QED
    BY <1>6, <1>7

\* Whatever is asked for is a list.
LEMMA ListingIsList ==
  ASSUME NEW cat, WellFormed(cat), NEW ord, IsList(ord), NEW id, NEW sort
  PROVE  IsList(Listing(cat, ord, id, sort))
  <1>1. IsList(Children(cat, id)) /\ IsList(ViewItems(cat, ord, id[2])) /\ IsList(RootChildren(cat, sort))
    BY ChildrenAreListed, ViewItemsAreListed, RootIsListed
  <1>2. IsList(SortNodes(cat, Children(cat, id), sort)) /\ IsList(SortNodes(cat, ViewItems(cat, ord, id[2]), sort))
    BY <1>1, SortedIsList
  <1> QED
    BY <1>1, <1>2 DEF Listing

LEMMA PartsJoin ==
  ASSUME NEW ids, IsList(ids), NEW m \in 0 .. Len(ids), NEW n \in m .. Len(ids)
  PROVE  /\ Len(SubSeq(ids, m + 1, n)) = n - m /\ Len(SubSeq(ids, 1, n)) = n
         /\ SubSeq(ids, 1, m) \o SubSeq(ids, m + 1, n) = SubSeq(ids, 1, n)
  <1>1. Len(ids) \in Nat /\ ids \in Seq(ToSet(ids)) /\ \A i \in 1 .. Len(ids) : ids[i] \in ToSet(ids)
    BY ListFacts DEF IsList, ToSet
  <1>2. m \in Nat /\ n \in Nat /\ m <= n /\ n <= Len(ids)
    BY <1>1
  <1>3. Len(SubSeq(ids, m + 1, n)) = IF m + 1 <= n THEN n - (m + 1) + 1 ELSE 0
    BY <1>1, <1>2, SubSeqProperties
  <1>4. Len(SubSeq(ids, 1, n)) = IF 1 <= n THEN n - 1 + 1 ELSE 0
    BY <1>1, <1>2, SubSeqProperties
  <1>5. SubSeq(ids, 1, m) \o SubSeq(ids, m + 1, n) = SubSeq(ids, 1, n)
    <2>1. 1 \in 1 .. Len(ids) + 1 /\ m \in 1 - 1 .. Len(ids) /\ n \in m .. Len(ids)
      BY <1>1, <1>2
    <2> QED
      BY <1>1, <2>1, ConcatAdjacentSubSeq
  <1> QED
    BY <1>2, <1>3, <1>4, <1>5

\* A page is at least one object, unless the list ends there.
LEMMA PageFacts ==
  ASSUME NEW ids, IsList(ids), NEW start \in 0 .. Len(ids), NEW count \in Nat
  PROVE  \E last \in start .. Len(ids) :
            /\ Page(ids, start, count) = SubSeq(ids, start + 1, last)
            /\ last = start => start = Len(ids)
  <1> DEFINE wanted == IF count = 0 \/ count > MaxResults THEN MaxResults ELSE count
             last == IF start + wanted < Len(ids) THEN start + wanted ELSE Len(ids)
  <1>1. Len(ids) \in Nat
    BY ListFacts
  <1>2. wanted \in Nat \ {0}
    BY ContentAssumption
  <1>3. last \in start .. Len(ids) /\ (last = start => start = Len(ids))
    <2> HIDE DEF wanted
    <2> QED
      BY <1>1, <1>2
  <1>4. Page(ids, start, count) = SubSeq(ids, start + 1, last)
    BY DEF Page
  <1> QED
    BY <1>3, <1>4

\* Every catalog is what a scan made of some folders.
Scans ==
  /\ disk \in Disks /\ updateId \in Nat \ {0}
  /\ \E d \in Disks : catalog = Scan(d) /\ order \in Orders(DOMAIN catalog)
  /\ \A new \in fresh : \E d \in Disks : new = Scan(d)

\* What a television has seen under one UpdateID is how the list begins.
Television(t) ==
  /\ DOMAIN t = {"id", "sort", "count", "seen", "told", "done"}
  /\ t.count \in Nat /\ t.told \subseteq 1 .. updateId
  /\ t.told = {} => t.seen = <<>> /\ t.done = FALSE
  /\ t.told = {updateId} =>
        /\ Len(t.seen) \in 0 .. Len(Listing(catalog, order, t.id, t.sort))
        /\ t.seen = SubSeq(Listing(catalog, order, t.id, t.sort), 1, Len(t.seen))
        /\ t.done => Len(t.seen) = Len(Listing(catalog, order, t.id, t.sort))
Pages == \A t \in tv : Television(t)

LEMMA ScansInit == CdsInit => Scans
  BY DEF CdsInit, Scans, Scanned

LEMMA ScansStep == Scans /\ [CdsNext]_cdsVars => Scans'
  <1> SUFFICES ASSUME Scans, [CdsNext]_cdsVars PROVE Scans'
    OBVIOUS
  <1>1. CASE FoldersChange
    BY <1>1 DEF FoldersChange, Scans
  <1>2. CASE ScanRuns
    BY <1>2 DEF ScanRuns, Scans, Scanned
  <1>3. CASE Swap
    BY <1>3 DEF Swap, Scans, NextUpdateId
  <1>4. CASE ServerRestarts
    BY <1>4 DEF ServerRestarts, Scans, Scanned
  <1>5. CASE NextPage \/ Leaves \/ UNCHANGED cdsVars
    BY <1>5 DEF NextPage, Leaves, cdsVars, Scans
  <1>6. CASE \E id, sort, count : Opens(id, sort, count)
    BY <1>6 DEF Opens, Scans
  <1> QED
    BY <1>1, <1>2, <1>3, <1>4, <1>5, <1>6 DEF CdsNext

LEMMA CatalogIsListed ==
  ASSUME Scans, \A d \in Disks : WellFormed(Scan(d)), NEW id, NEW sort
  PROVE  IsList(order) /\ IsList(Listing(catalog, order, id, sort))
  <1>1. WellFormed(catalog)
    BY DEF Scans
  <1>2. IsList(order)
    BY OrdersAssumption DEF Scans, IsList
  <1> QED
    BY <1>1, <1>2, ListingIsList

LEMMA NextPageKeeps ==
  ASSUME Scans, Pages, \A d \in Disks : WellFormed(Scan(d)), NextPage
  PROVE  Pages'
  <1>1. PICK t \in tv :
           /\ ~t.done
           /\ LET ids == Listing(catalog, order, t.id, t.sort)
                  page == Page(ids, Len(t.seen), t.count)
              IN  tv' = {[t EXCEPT !.seen = @ \o page, !.told = @ \cup {updateId},
                                   !.done = page = <<>> \/ Len(t.seen) + Len(page) >= Len(ids)]}
    BY DEF NextPage
  <1>2. UNCHANGED <<catalog, order, updateId>>
    BY DEF NextPage
  <1>3. PICK ids : ids = Listing(catalog, order, t.id, t.sort)
    OBVIOUS
  <1>4. PICK page : page = Page(ids, Len(t.seen), t.count)
    OBVIOUS
  <1>5. PICK u : u = [t EXCEPT !.seen = @ \o page, !.told = @ \cup {updateId},
                               !.done = page = <<>> \/ Len(t.seen) + Len(page) >= Len(ids)]
    OBVIOUS
  <1>6. tv' = {u}
    BY <1>1, <1>3, <1>4, <1>5
  <1>7. Television(t) /\ IsList(ids)
    BY <1>3, CatalogIsListed DEF Pages
  <1>8. /\ DOMAIN u = {"id", "sort", "count", "seen", "told", "done"}
        /\ u.id = t.id /\ u.sort = t.sort /\ u.count = t.count
        /\ u.seen = t.seen \o page /\ u.told = t.told \cup {updateId}
        /\ u.done = (page = <<>> \/ Len(t.seen) + Len(page) >= Len(ids))
    BY <1>5, <1>7 DEF Television
  <1>9. u.told \subseteq 1 .. updateId /\ u.told # {}
    BY <1>7, <1>8 DEF Television, Scans
  <1>10. ASSUME u.told = {updateId}
         PROVE  /\ Len(u.seen) \in 0 .. Len(ids)
                /\ u.seen = SubSeq(ids, 1, Len(u.seen))
                /\ u.done => Len(u.seen) = Len(ids)
    <2>1. t.told = {} \/ t.told = {updateId}
      BY <1>8, <1>10
    <2>2. Len(ids) \in Nat /\ ids \in Seq(ToSet(ids))
      BY <1>7, ListFacts DEF IsList
    <2>3. Len(t.seen) \in 0 .. Len(ids) /\ t.seen = SubSeq(ids, 1, Len(t.seen))
      <3>1. CASE t.told = {}
        <4>1. t.seen = <<>> /\ Len(<<>>) = 0
          BY <1>7, <3>1 DEF Television
        <4>2. SubSeq(ids, 1, 0) = <<>>
          BY SubSeqEmpty
        <4> QED
          BY <2>2, <4>1, <4>2
      <3>2. CASE t.told = {updateId}
        BY <1>3, <1>7, <3>2 DEF Television
      <3> QED
        BY <2>1, <3>1, <3>2
    <2>4. PICK n : n = Len(t.seen)
      OBVIOUS
    <2>5. n \in 0 .. Len(ids) /\ t.count \in Nat
      BY <1>7, <2>3, <2>4 DEF Television
    <2>6. PICK last \in n .. Len(ids) :
             page = SubSeq(ids, n + 1, last) /\ (last = n => n = Len(ids))
      BY ZenonT(30), <1>4, <1>7, <2>4, <2>5, PageFacts
    <2>7. Len(page) = last - n /\ t.seen \o page = SubSeq(ids, 1, last) /\ Len(SubSeq(ids, 1, last)) = last
      BY <1>7, <2>3, <2>4, <2>5, <2>6, PartsJoin
    <2>8. u.done => last = Len(ids)
      <3>1. page = <<>> => Len(page) = 0
        OBVIOUS
      <3>2. u.done => Len(page) = 0 \/ n + Len(page) >= Len(ids)
        BY <1>8, <2>4, <3>1
      <3> QED
        BY <2>2, <2>5, <2>6, <2>7, <3>2
    <2>9. u.seen = SubSeq(ids, 1, last) /\ Len(u.seen) = last
      BY <1>8, <2>7
    <2>10. last \in 0 .. Len(ids)
      BY <2>2, <2>5, <2>6
    <2> QED
      BY <2>8, <2>9, <2>10
  <1>11. Listing(catalog', order', u.id, u.sort) = ids
    BY <1>2, <1>3, <1>8
  <1>12. Television(u)'
    BY <1>2, <1>7, <1>8, <1>9, <1>10, <1>11 DEF Television
  <1> QED
    BY <1>6, <1>12 DEF Pages

LEMMA PagesStep ==
  ASSUME Scans, Pages, \A d \in Disks : WellFormed(Scan(d)), [CdsNext]_cdsVars
  PROVE  Pages'
  <1>1. CASE FoldersChange \/ ScanRuns \/ UNCHANGED cdsVars
    BY <1>1 DEF FoldersChange, ScanRuns, cdsVars, Pages, Television
  <1>2. CASE Swap
    <2>1. tv' = tv /\ updateId' = updateId + 1 /\ updateId \in Nat
      BY <1>2 DEF Swap, NextUpdateId, Scans
    <2>2. ASSUME NEW t \in tv PROVE Television(t)'
      <3>1. t.told \subseteq 1 .. updateId
        BY <2>2 DEF Pages, Television
      <3>2. \A n \in 1 .. updateId : n \in 1 .. updateId' /\ n # updateId'
        BY <2>1
      <3>3. t.told \subseteq 1 .. updateId' /\ t.told # {updateId'}
        BY <3>1, <3>2
      <3> QED
        BY <2>2, <3>3 DEF Pages, Television
    <2> QED
      BY <2>1, <2>2 DEF Pages
  <1>3. CASE ServerRestarts \/ Leaves
    BY <1>3 DEF ServerRestarts, Leaves, Pages
  <1>4. CASE NextPage
    BY <1>4, NextPageKeeps
  <1>5. ASSUME NEW id, NEW sort, NEW count \in Counts, Opens(id, sort, count) PROVE Pages'
    <2>1. PICK t : t = [id |-> id, sort |-> sort, count |-> count, seen |-> <<>>, told |-> {}, done |-> FALSE]
      OBVIOUS
    <2>2. tv' = {t}
      BY <1>5, <2>1 DEF Opens
    <2>3. /\ DOMAIN t = {"id", "sort", "count", "seen", "told", "done"}
          /\ t.count \in Nat /\ t.told = {} /\ t.seen = <<>> /\ t.done = FALSE
      BY <2>1, ContentAssumption
    <2>4. Television(t)'
      BY <2>3 DEF Television
    <2> QED
      BY <2>2, <2>4 DEF Pages
  <1> QED
    BY <1>1, <1>2, <1>3, <1>4, <1>5 DEF CdsNext

LEMMA PagesGiveLists ==
  ASSUME Scans, Pages, \A d \in Disks : WellFormed(Scan(d))
  PROVE  PagesOfOneUpdate
  <1> SUFFICES ASSUME NEW t \in tv, t.done, t.told = {updateId}
               PROVE  t.seen = Listing(catalog, order, t.id, t.sort)
    BY DEF PagesOfOneUpdate
  <1> DEFINE ids == Listing(catalog, order, t.id, t.sort)
  <1>1. IsList(ids) /\ t.seen = SubSeq(ids, 1, Len(ids))
    BY CatalogIsListed DEF Pages, Television
  <1> QED
    BY <1>1, SubSeqFull DEF IsList

-----------------------------------------------------------------------------
(* What a scan leaves is a catalog.                                        *)

\* A finite set has finitely many values.
LEMMA ValuesAreFinite ==
  ASSUME NEW S, IsFiniteSet(S), NEW f
  PROVE  IsFiniteSet({f[x] : x \in S})
  <1> DEFINE T == {f[x] : x \in S}
             g == [x \in S |-> f[x]]
  <1>1. g \in Surjection(S, T)
    BY DEF Surjection
  <1> QED
    BY <1>1, FS_Surjection

LEMMA NewNode ==
  ASSUME NEW parent, NEW title, NEW kind \in Kinds, NEW children, IsList(children)
  PROVE  IsNode(Node(parent, title, kind, children))
  BY DEF IsNode, Node

LEMMA OverIsWell ==
  ASSUME NEW new, WellFormed(new), NEW old, WellFormed(old)
  PROVE  WellFormed(Over(new, old)) /\ DOMAIN Over(new, old) = DOMAIN new \cup DOMAIN old
  <1>1. IsFiniteSet(DOMAIN new \cup DOMAIN old)
    BY FS_Union DEF WellFormed
  <1> QED
    BY <1>1 DEF WellFormed, Over

LEMMA NodesInOrder ==
  ASSUME NEW cat, NEW ids, IsList(ids)
  PROVE  IsList(InOrder(cat, ids)) /\ Len(InOrder(cat, ids)) = Len(ids)
  <1> DEFINE First(a, b) == \/ cat[a].kind = "folder" /\ ~(cat[b].kind = "folder")
                            \/ (cat[a].kind = "folder") = (cat[b].kind = "folder")
                               /\ Before(cat[a].title, cat[b].title)
             q == StableSort(ids, First)
  <1>1. InOrder(cat, ids) = q
    BY DEF InOrder
  <1> HIDE DEF First
  <1>2. Len(ids) \in Nat /\ DOMAIN ids = 1 .. Len(ids)
    BY ListFacts
  <1>3. q = [k \in 1 .. Len(ids) |-> q[k]]
    BY <1>2 DEF StableSort
  <1> QED
    BY <1>1, <1>2, <1>3, ListIntro

LEMMA ScanDirIsWell ==
  ASSUME NEW d \in Disks, NEW root
  PROVE  WellFormed(ScanDir(d, root))
  <1> DEFINE read == TakenFrom(d, root)
             entry(id) == d.entries[CHOOSE i \in read : <<d.entries[i].id>> = id]
             ids == {<<d.entries[i].id>> : i \in read}
             here(e, id, dirs) == <<e.parent>> = id /\ <<e.id>> \in ids /\ (e.ext = "dir") = dirs
             found(id, dirs) == Among(d.entries, {e \in ToSet(d.entries) : here(e, id, dirs)})
             inFolder(id, dirs) == [k \in DOMAIN found(id, dirs) |-> <<found(id, dirs)[k].id>>]
             listed(id) == inFolder(id, TRUE) \o inFolder(id, FALSE)
             node(id) ==
               IF id = <<root.id>> THEN Node(Top, root.name.words, "folder", listed(id))
               ELSE [Node(<<entry(id).parent>>, entry(id).name.words, Classify(entry(id).ext), listed(id))
                        EXCEPT !.file = {entry(id).name}, !.day = entry(id).day]
             all == ids \cup {<<root.id>>}
  <1>1. IsList(d.entries)
    BY DisksAssumption DEF IsList
  <1>2. IsFiniteSet(all)
    <2>1. IsFiniteSet(read)
      BY <1>1, ListFacts, FS_Subset DEF TakenFrom
    <2>2. IsFiniteSet(ids)
      <3> DEFINE f == [i \in read |-> <<d.entries[i].id>>]
      <3>1. ids = {f[i] : i \in read}
        OBVIOUS
      <3> HIDE DEF f, read
      <3>2. IsFiniteSet({f[i] : i \in read})
        BY <2>1, ValuesAreFinite
      <3> QED
        BY <3>1, <3>2
    <2> QED
      BY <2>2, FS_AddElement
  <1>3. ScanDir(d, root) = [id \in all |-> node(id)]
    BY DEF ScanDir
  <1>4. ASSUME NEW id PROVE IsList(listed(id))
    <2> HIDE DEF here
    <2>1. ASSUME NEW dirs PROVE IsList(inFolder(id, dirs))
      <3>1. IsList(found(id, dirs))
        BY <1>1, AmongIsList
      <3> HIDE DEF found
      <3>2. Len(found(id, dirs)) \in Nat /\ DOMAIN found(id, dirs) = 1 .. Len(found(id, dirs))
        BY <3>1, ListFacts
      <3>3. inFolder(id, dirs) = [k \in 1 .. Len(found(id, dirs)) |-> inFolder(id, dirs)[k]]
        BY <3>2
      <3> QED
        BY <3>2, <3>3, ListIntro
    <2> HIDE DEF inFolder
    <2> QED
      BY <2>1, JoinIsList
  <1>5. ASSUME NEW id \in all PROVE IsNode(node(id))
    <2> HIDE DEF listed
    <2>1. CASE id = <<root.id>>
      BY <1>4, <2>1, NewNode DEF Kinds
    <2>2. CASE id # <<root.id>>
      <3>1. PICK i \in read : <<d.entries[i].id>> = id
        BY <2>2
      <3>2. PICK e : e = entry(id)
        OBVIOUS
      <3>3. Accepted(e.ext)
        BY <3>1, <3>2 DEF TakenFrom
      <3>4. Classify(e.ext) \in Kinds
        BY <3>3 DEF Accepted, Classify, Kinds
      <3>5. PICK n : n = Node(<<e.parent>>, e.name.words, Classify(e.ext), listed(id))
        OBVIOUS
      <3>6. IsNode(n)
        BY <1>4, <3>4, <3>5, NewNode
      <3>7. node(id) = [n EXCEPT !.file = {e.name}, !.day = e.day]
        BY <2>2, <3>2, <3>5
      <3> QED
        BY <3>6, <3>7 DEF IsNode
    <2> QED
      BY <2>1, <2>2
  <1> HIDE DEF all, node
  <1> QED
    BY <1>2, <1>3, <1>5 DEF WellFormed

LEMMA InSequenceIsList ==
  ASSUME NEW S, IsFiniteSet(S)
  PROVE  IsList(InSequence(S, Before))
  <1> DEFINE q == InSequence(S, Before)
  <1>1. Cardinality(S) \in Nat
    BY FS_CardinalityType
  <1>2. q = [k \in 1 .. Cardinality(S) |-> q[k]]
    BY DEF InSequence
  <1> QED
    BY <1>1, <1>2, ListIntro

\* Removing children from a node, or giving it others, leaves a node.
LEMMA ChangedNode ==
  ASSUME NEW n, IsNode(n), NEW parent, NEW title, NEW children, IsList(children)
  PROVE  /\ IsNode([n EXCEPT !.parent = parent, !.title = title])
         /\ IsNode([n EXCEPT !.title = title])
         /\ IsNode([n EXCEPT !.children = children])
  BY DEF IsNode

LEMMA MoveUpIsWell ==
  ASSUME NEW cat, WellFormed(cat), NEW root, NEW place, DOMAIN place \subseteq DOMAIN cat
  PROVE  WellFormed(MoveUp(cat, root, place).nodes) /\ IsFiniteSet(MoveUp(cat, root, place).series)
  <1> DEFINE videos == DOMAIN place
             episodes == {id \in videos : place[id] # {}}
             at(id) == PlaceOf(place, id)
             slugs == {at(id).slug : id \in episodes}
             of(slug) == {id \in episodes : at(id).slug = slug}
             seasonsOf(slug) == {at(id).season : id \in of(slug)}
             shelf(id) == SeasonId(at(id).slug, at(id).season)
             nums(slug) == InSequence(seasonsOf(slug), <)
             seasons(slug) == [k \in DOMAIN nums(slug) |-> SeasonId(slug, nums(slug)[k])]
             series(slug) == Node(root, GroupTitle(slug, {at(id) : id \in of(slug)}), "folder", seasons(slug))
             those(slug, n) == {id \in of(slug) : at(id).season = n}
             inOrder(slug, n) == InSequence(those(slug, n), Before)
             sorted(slug, n) == ByNumber(place, inOrder(slug, n))
             season(slug, n) == Node(SeriesId(slug), SeasonTitle(n), "folder", sorted(slug, n))
             keptNode(id) ==
               IF id \in episodes
                   THEN [cat[id] EXCEPT !.parent = shelf(id), !.title = EpisodeTitle(at(id))]
               ELSE IF id \in videos
                   THEN [cat[id] EXCEPT
                           !.title = MovieTitle(NameOf(cat[id]).words, ParseFile(NameOf(cat[id])))]
               ELSE IF IsSynthetic(id) THEN cat[id]
               ELSE [cat[id] EXCEPT !.children = Among(@, ToSet(@) \ episodes)]
             kept == [id \in DOMAIN cat |-> keptNode(id)]
             slugOf(i) == CHOOSE g \in slugs : SeriesId(g) = i
             seriesIds == {SeriesId(g) : g \in slugs}
             newSeries == [i \in seriesIds |-> series(slugOf(i))]
             oneOf(i) == CHOOSE id \in episodes : shelf(id) = i
             seasonIds == {shelf(id) : id \in episodes}
             newSeasons == [i \in seasonIds |-> season(at(oneOf(i)).slug, at(oneOf(i)).season)]
  <1>1. /\ MoveUp(cat, root, place).nodes = Over(newSeries, Over(newSeasons, kept))
        /\ MoveUp(cat, root, place).series = DOMAIN newSeries
    BY DEF MoveUp
  <1>2. IsFiniteSet(videos) /\ IsFiniteSet(episodes)
    BY FS_Subset DEF WellFormed
  <1>3. IsFiniteSet(slugs) /\ IsFiniteSet(seasonIds) /\ IsFiniteSet(seriesIds)
    <2> DEFINE f == [id \in episodes |-> at(id).slug]
               g == [id \in episodes |-> shelf(id)]
               h == [s \in slugs |-> SeriesId(s)]
    <2>1. slugs = {f[id] : id \in episodes} /\ seasonIds = {g[id] : id \in episodes}
      OBVIOUS
    <2>2. seriesIds = {h[s] : s \in slugs}
      OBVIOUS
    <2> HIDE DEF f, g, h, episodes, slugs
    <2>3. IsFiniteSet({f[id] : id \in episodes}) /\ IsFiniteSet({g[id] : id \in episodes})
      BY <1>2, ValuesAreFinite
    <2>4. IsFiniteSet({h[s] : s \in slugs})
      BY <2>1, <2>3, ValuesAreFinite
    <2> QED
      BY <2>1, <2>2, <2>3, <2>4
  <1>4. ASSUME NEW slug PROVE IsFiniteSet(of(slug)) /\ IsFiniteSet(seasonsOf(slug))
    <2>1. IsFiniteSet(of(slug))
      BY <1>2, FS_Subset
    <2> DEFINE f == [id \in of(slug) |-> at(id).season]
    <2>2. seasonsOf(slug) = {f[id] : id \in of(slug)}
      OBVIOUS
    <2> HIDE DEF f, of
    <2>3. IsFiniteSet({f[id] : id \in of(slug)})
      BY <2>1, ValuesAreFinite
    <2> QED
      BY <2>1, <2>2, <2>3
  <1> HIDE DEF episodes, slugs, of, seasonsOf, shelf, at
  <1>5. ASSUME NEW slug PROVE IsNode(series(slug))
    <2>1. Cardinality(seasonsOf(slug)) \in Nat
      BY <1>4, FS_CardinalityType
    <2>2. DOMAIN nums(slug) = 1 .. Cardinality(seasonsOf(slug))
      BY DEF InSequence
    <2> HIDE DEF nums
    <2>3. seasons(slug) = [k \in 1 .. Cardinality(seasonsOf(slug)) |-> seasons(slug)[k]]
      BY <2>2
    <2>4. IsList(seasons(slug))
      BY <2>1, <2>3, ListIntro
    <2> HIDE DEF seasons
    <2> QED
      BY <2>4, NewNode DEF Kinds
  <1>6. ASSUME NEW slug, NEW n PROVE IsNode(season(slug, n))
    <2>1. IsFiniteSet(those(slug, n))
      BY <1>4, FS_Subset
    <2> HIDE DEF those
    <2>3. IsList(inOrder(slug, n))
      BY <2>1, InSequenceIsList
    <2> HIDE DEF inOrder
    <2>4. Len(inOrder(slug, n)) \in Nat /\ DOMAIN inOrder(slug, n) = 1 .. Len(inOrder(slug, n))
      BY <2>3, ListFacts
    <2>5. sorted(slug, n) = [k \in 1 .. Len(inOrder(slug, n)) |-> sorted(slug, n)[k]]
      BY <2>4 DEF StableSort, ByNumber
    <2>6. IsList(sorted(slug, n))
      BY <2>4, <2>5, ListIntro
    <2> HIDE DEF sorted
    <2> QED
      BY <2>6, NewNode DEF Kinds
  <1> HIDE DEF series, season
  <1>7. WellFormed(newSeries)
    BY <1>3, <1>5 DEF WellFormed
  <1>8. WellFormed(newSeasons)
    BY <1>3, <1>6 DEF WellFormed
  <1>9. WellFormed(kept)
    <2>1. ASSUME NEW id \in DOMAIN cat PROVE IsNode(keptNode(id))
      <3>1. PICK n : n = cat[id]
        OBVIOUS
      <3>2. IsNode(n) /\ IsList(n.children)
        BY <2>1, <3>1 DEF WellFormed, IsNode
      <3>3. IsList(Among(n.children, ToSet(n.children) \ episodes))
        BY <3>2, AmongIsList
      <3> QED
        BY <3>1, <3>2, <3>3, ChangedNode
    <2> HIDE DEF keptNode
    <2> QED
      BY <2>1 DEF WellFormed
  <1> HIDE DEF newSeries, newSeasons, kept
  <1>10. WellFormed(Over(newSeries, Over(newSeasons, kept)))
    BY <1>7, <1>8, <1>9, OverIsWell
  <1>11. IsFiniteSet(DOMAIN newSeries)
    BY <1>7 DEF WellFormed
  <1> QED
    BY <1>1, <1>10, <1>11

LEMMA PruneIsWell ==
  ASSUME NEW cat, WellFormed(cat), NEW root
  PROVE  WellFormed(PruneEmpty(cat, root))
  <1> DEFINE gone == {id \in Descendants(cat, root) :
                        cat[id].kind = "folder" /\ ~IsSynthetic(id) /\ ~HasVideo(cat, id)}
             left(id) == [cat[id] EXCEPT !.children = Among(@, ToSet(@) \ gone)]
  <1>1. PruneEmpty(cat, root) = [id \in DOMAIN cat \ gone |-> left(id)]
    BY DEF PruneEmpty
  <1> HIDE DEF gone
  <1>2. IsFiniteSet(DOMAIN cat \ gone)
    BY FS_Subset DEF WellFormed
  <1>3. ASSUME NEW id \in DOMAIN cat PROVE IsNode(left(id))
    <2>1. PICK n : n = cat[id]
      OBVIOUS
    <2>2. IsNode(n) /\ IsList(n.children)
      BY <1>3, <2>1 DEF WellFormed, IsNode
    <2>3. IsList(Among(n.children, ToSet(n.children) \ gone))
      BY <2>2, AmongIsList
    <2> QED
      BY <2>1, <2>2, <2>3, ChangedNode
  <1> HIDE DEF left
  <1> QED
    BY <1>1, <1>2, <1>3 DEF WellFormed

LEMMA FoldersAreWell ==
  ASSUME NEW cat, WellFormed(cat), NEW root
  PROVE  WellFormed(FoldersInOrder(cat, root)) /\ WellFormed(SortOnly(cat, root))
  <1> DEFINE sorted(id) == [cat[id] EXCEPT !.children = InOrder(cat, Children(cat, id))]
  <1>1. ASSUME NEW id \in DOMAIN cat PROVE IsNode(sorted(id))
    <2>1. IsList(InOrder(cat, Children(cat, id)))
      BY ChildrenAreListed, NodesInOrder
    <2> QED
      BY <1>1, <2>1, ChangedNode DEF WellFormed
  <1> DEFINE folders == {id \in Descendants(cat, root) : cat[id].kind = "folder" /\ ~IsSynthetic(id)}
             near == {root} \cup {id \in ToSet(Children(cat, root)) :
                                     cat[id].kind = "folder" /\ ~IsSynthetic(id)}
  <1>2. /\ FoldersInOrder(cat, root) = [id \in DOMAIN cat |-> IF id \in folders THEN sorted(id) ELSE cat[id]]
        /\ SortOnly(cat, root) = [id \in DOMAIN cat |-> IF id \in near THEN sorted(id) ELSE cat[id]]
    BY DEF FoldersInOrder, SortOnly
  <1> HIDE DEF sorted, folders, near
  <1> QED
    BY <1>1, <1>2 DEF WellFormed

LEMMA TopIsWell ==
  ASSUME NEW cat, WellFormed(cat), NEW root, NEW moved, IsFiniteSet(moved.series)
  PROVE  WellFormed(TopInOrder(cat, root, moved))
  <1> DEFINE byTitle(ids) == Alphabetical(cat, ids)
             old == Children(cat, root)
             series == InSequence(moved.series, Before)
             films == Reverse(Among(old, moved.films))
             rest == InOrder(cat, Among(old, ToSet(old) \ (moved.films \cup moved.series)))
             top == byTitle(series) \o byTitle(films) \o rest
  <1>1. IsList(old) /\ IsList(series) /\ IsList(films) /\ IsList(rest)
    BY ChildrenAreListed, InSequenceIsList, AmongIsList, ReverseIsList, NodesInOrder
  <1>2. ASSUME NEW ids, IsList(ids) PROVE IsList(byTitle(ids))
    <2>1. Len(ids) \in Nat /\ DOMAIN ids = 1 .. Len(ids)
      BY <1>2, ListFacts
    <2>2. byTitle(ids) = [k \in 1 .. Len(ids) |-> byTitle(ids)[k]]
      BY <2>1 DEF StableSort, Alphabetical
    <2> QED
      BY <2>1, <2>2, ListIntro
  <1>3. TopInOrder(cat, root, moved) = FoldersInOrder([cat EXCEPT ![root].children = top], root)
    BY DEF TopInOrder
  <1> HIDE DEF byTitle, films, rest, series
  <1>4. IsList(top)
    BY <1>1, <1>2, JoinIsList
  <1> HIDE DEF top
  <1>5. WellFormed([cat EXCEPT ![root].children = top])
    BY <1>4, ChangedNode DEF WellFormed
  <1> QED
    BY <1>3, <1>5, FoldersAreWell

LEMMA ArrangeIsWell ==
  ASSUME NEW cat, WellFormed(cat), NEW root, NEW kind, NEW names
  PROVE  WellFormed(Arrange(cat, root, kind, names))
  <1> DEFINE place == [id \in {x \in DOMAIN cat \cap Descendants(cat, root) : cat[x].kind = "video"} |->
                         Place(cat, id, names)]
             moved == MoveUp(cat, root, place)
  <1>1. DOMAIN place \subseteq DOMAIN cat
    OBVIOUS
  <1>2. MovedUp(cat, root, names) = moved
    BY DEF MovedUp
  <1> HIDE DEF place
  <1>3. WellFormed(moved.nodes) /\ IsFiniteSet(moved.series)
    BY <1>1, MoveUpIsWell
  <1> HIDE DEF moved
  <1>4. WellFormed(Shelve(moved, root, kind = "video"))
    <2>1. PICK nodes : nodes = IF kind = "video" THEN PruneEmpty(moved.nodes, root) ELSE moved.nodes
      OBVIOUS
    <2>2. WellFormed(nodes)
      BY <1>3, <2>1, PruneIsWell
    <2>3. Shelve(moved, root, kind = "video") = TopInOrder(nodes, root, moved)
      BY <2>1 DEF Shelve
    <2> QED
      BY <1>3, <2>2, <2>3, TopIsWell
  <1> QED
    BY <1>2, <1>4, FoldersAreWell DEF Arrange, ArrangeVideo

\* Every inhabited set of numbers has a least member.
LEMMA LeastNumber ==
  ASSUME NEW S \in SUBSET Nat, S # {}
  PROVE  \E m \in S : \A k \in S : ~(k < m)
  <1> DEFINE Less == {p \in Nat \X Nat : p[1] < p[2]}
  <1>1. IsWellFoundedOn(Less, Nat)
    BY NatLessThanWellFounded DEF OpToRel
  <1>2. \A a, b \in Nat : a < b => <<a, b>> \in Less
    OBVIOUS
  <1> HIDE DEF Less
  <1>3. PICK m \in S : \A k \in S : ~(<<k, m>> \in Less)
    BY <1>1, WFMin
  <1>4. QED
    BY <1>2, <1>3

\* The catalogs after the roots: the function exists, root by root.
LEMMA AfterRoots ==
  ASSUME NEW d \in Disks
  PROVE  /\ IsList(There(d)) /\ Len(There(d)) \in Nat /\ DOMAIN There(d) = 1 .. Len(There(d))
         /\ After(d)[0] = <<>>
         /\ \A k \in 1 .. Len(There(d)) :
               After(d)[k] = Arrange(Read(d, k, After(d)[k - 1]), <<There(d)[k].id>>, There(d)[k].kind, NamesOf(d))
  <1>1. IsList(There(d))
    BY DisksAssumption, AmongIsList DEF IsList, There
  <1>2. PICK last : last = Len(There(d))
    OBVIOUS
  <1>3. last \in Nat /\ DOMAIN There(d) = 1 .. last
    BY <1>1, <1>2, ListFacts
  <1> DEFINE next(old, k) == Arrange(Read(d, k, old), <<There(d)[k].id>>, There(d)[k].kind, NamesOf(d))
             IsAfter(f, n) == f = [k \in 0 .. n |-> IF k = 0 THEN <<>> ELSE next(f[k - 1], k)]
  <1>4. After(d) = CHOOSE f : IsAfter(f, last)
    BY <1>2 DEF After
  <1> HIDE DEF next
  <1>5. \A n \in 0 .. last : \E f : IsAfter(f, n)
    <2> DEFINE S == {n \in 0 .. last : ~\E f : IsAfter(f, n)}
    <2> SUFFICES ASSUME S # {} PROVE FALSE
      OBVIOUS
    <2>1. PICK n \in S : \A k \in S : ~(k < n)
      <3>1. S \in SUBSET Nat
        BY <1>3
      <3> HIDE DEF S
      <3> QED
        BY <3>1, LeastNumber
    <2>2. CASE n = 0
      <3>1. IsAfter([k \in 0 .. 0 |-> <<>>], 0)
        OBVIOUS
      <3> QED
        BY <2>1, <2>2, <3>1
    <2>3. CASE n # 0
      <3>1. n - 1 \in 0 .. last /\ n - 1 < n /\ n \in 1 .. last
        BY <1>3, <2>1, <2>3
      <3>2. n - 1 \notin S
        BY <2>1, <3>1
      <3>3. PICK f : IsAfter(f, n - 1)
        BY <3>1, <3>2
      <3>4. PICK g : g = [k \in 0 .. n |-> IF k = n THEN next(f[n - 1], n) ELSE f[k]]
        OBVIOUS
      <3>5. IsAfter(g, n)
        <4>1. ASSUME NEW k \in 0 .. n
              PROVE  g[k] = IF k = 0 THEN <<>> ELSE next(g[k - 1], k)
          <5>1. CASE k = n
            BY <1>3, <3>1, <3>4, <5>1
          <5>2. CASE k # n
            <6>1. k \in 0 .. n - 1 /\ g[k] = f[k] /\ (k # 0 => g[k - 1] = f[k - 1])
              BY <1>3, <3>1, <3>4, <5>2
            <6> QED
              BY <3>3, <6>1
          <5> QED
            BY <5>1, <5>2
        <4> QED
          BY <3>4, <4>1
      <3> QED
        BY <2>1, <3>5
    <2> QED
      BY <2>2, <2>3
  <1>6. PICK f : f = After(d)
    OBVIOUS
  <1>7. IsAfter(f, last)
    <2>1. last \in 0 .. last
      BY <1>3
    <2> QED
      BY <1>4, <1>5, <1>6, <2>1
  <1>8. f[0] = <<>> /\ \A k \in 1 .. last : f[k] = next(f[k - 1], k)
    BY <1>3, <1>7
  <1> QED
    BY <1>1, <1>2, <1>3, <1>6, <1>8 DEF next

LEMMA ReadIsWell ==
  ASSUME NEW d \in Disks, NEW k, NEW cat, WellFormed(cat)
  PROVE  WellFormed(Read(d, k, cat))
  BY ScanDirIsWell, OverIsWell DEF Read

LEMMA AfterIsWell ==
  ASSUME NEW d \in Disks
  PROVE  \A n \in 0 .. Len(There(d)) : WellFormed(After(d)[n])
  <1>1. PICK last : last = Len(There(d))
    OBVIOUS
  <1>2. last \in Nat
    BY <1>1, AfterRoots
  <1> DEFINE S == {n \in 0 .. last : ~WellFormed(After(d)[n])}
  <1> SUFFICES ASSUME S # {} PROVE FALSE
    BY <1>1
  <1>3. PICK n \in S : \A k \in S : ~(k < n)
    <2>1. S \in SUBSET Nat
      BY <1>2
    <2> HIDE DEF S
    <2> QED
      BY <2>1, LeastNumber
  <1>4. CASE n = 0
    <2>1. After(d)[n] = <<>>
      BY <1>4, AfterRoots
    <2>2. IsFiniteSet({})
      BY FS_EmptySet
    <2> QED
      BY <1>3, <2>1, <2>2 DEF WellFormed
  <1>5. CASE n # 0
    <2>1. n - 1 \in 0 .. last /\ n - 1 < n /\ n \in 1 .. last
      BY <1>2, <1>3, <1>5
    <2>2. WellFormed(After(d)[n - 1])
      BY <1>3, <2>1
    <2>3. After(d)[n] = Arrange(Read(d, n, After(d)[n - 1]), <<There(d)[n].id>>, There(d)[n].kind, NamesOf(d))
      BY <1>1, <2>1, AfterRoots
    <2>4. WellFormed(After(d)[n])
      BY <2>2, <2>3, ReadIsWell, ArrangeIsWell
    <2> QED
      BY <1>3, <2>4
  <1> QED
    BY <1>4, <1>5

LEMMA ScanIsWell ==
  ASSUME NEW d \in Disks
  PROVE  WellFormed(Scan(d))
  <1> DEFINE last == Len(There(d))
             ids == [k \in DOMAIN There(d) |-> <<There(d)[k].id>>]
             top == [id \in {Top} |-> Node(<<"-1">>, <<"rustiio">>, "folder", ids)]
  <1>1. last \in Nat /\ DOMAIN There(d) = 1 .. last
    BY AfterRoots
  <1>2. WellFormed(After(d)[last])
    BY <1>1, AfterIsWell
  <1>3. Scan(d) = Over(After(d)[last], top)
    BY DEF Scan
  <1>4. WellFormed(top)
    <2>1. ids = [k \in 1 .. last |-> ids[k]]
      BY <1>1
    <2>2. IsList(ids)
      BY <1>1, <2>1, ListIntro
    <2> HIDE DEF ids
    <2>3. IsNode(Node(<<"-1">>, <<"rustiio">>, "folder", ids))
      BY <2>2, NewNode DEF Kinds
    <2>4. IsFiniteSet({Top})
      BY FS_Singleton
    <2> QED
      BY <2>3, <2>4 DEF WellFormed
  <1> HIDE DEF top
  <1> QED
    BY <1>2, <1>3, <1>4, OverIsWell

(***************************************************************************)
(* A television that has read all pages of a list under one UpdateID has   *)
(* that list, each object once and in its place, whatever was scanned in   *)
(* between (browse.rs paginate, state.rs rescan).                          *)
(***************************************************************************)
THEOREM PagesAreOfOneList == CdsSpec => []PagesOfOneUpdate
  <1>1. \A d \in Disks : WellFormed(Scan(d))
    BY ScanIsWell
  <1>2. CdsInit => Scans /\ Pages
    BY ScansInit DEF CdsInit, Pages
  <1>3. Scans /\ Pages /\ [CdsNext]_cdsVars => Scans' /\ Pages'
    BY <1>1, ScansStep, PagesStep
  <1>4. Scans /\ Pages => PagesOfOneUpdate
    BY <1>1, PagesGiveLists
  <1> QED
    BY <1>2, <1>3, <1>4, PTL DEF CdsSpec

-----------------------------------------------------------------------------
(* Sorting.                                                                *)

\* A strict linear order on a set, as a set of pairs.
Linear(S, lt) ==
  /\ \A a \in S : <<a, a>> \notin lt
  /\ \A a, b, c \in S : <<a, b>> \in lt /\ <<b, c>> \in lt => <<a, c>> \in lt
  /\ \A a, b \in S : a = b \/ <<a, b>> \in lt \/ <<b, a>> \in lt
Below(S, lt, a) == {b \in S : <<b, a>> \in lt}
Place1(S, lt, a) == Cardinality(Below(S, lt, a)) + 1

LEMMA PlacesInOrder ==
  ASSUME NEW S, IsFiniteSet(S), NEW lt, Linear(S, lt)
  PROVE  /\ \A a \in S : Place1(S, lt, a) \in 1 .. Cardinality(S)
         /\ \A a, b \in S : Place1(S, lt, a) = Place1(S, lt, b) => a = b
         /\ \A k \in 1 .. Cardinality(S) : \E a \in S : Place1(S, lt, a) = k
  <1>1. Cardinality(S) \in Nat
    BY FS_CardinalityType
  <1>2. ASSUME NEW a \in S PROVE Cardinality(Below(S, lt, a)) \in Nat /\ IsFiniteSet(Below(S, lt, a))
                                   /\ Place1(S, lt, a) \in 1 .. Cardinality(S)
    <2>1. Below(S, lt, a) \in SUBSET (S \ {a})
      BY DEF Below, Linear
    <2>2. IsFiniteSet(S \ {a}) /\ Cardinality(S \ {a}) = Cardinality(S) - 1
      BY FS_RemoveElement
    <2>3. IsFiniteSet(Below(S, lt, a)) /\ Cardinality(Below(S, lt, a)) <= Cardinality(S) - 1
      BY <2>1, <2>2, FS_Subset
    <2>4. Cardinality(Below(S, lt, a)) \in Nat
      BY <2>3, FS_CardinalityType
    <2> QED
      BY <1>1, <2>3, <2>4 DEF Place1
  <1>3. ASSUME NEW a \in S, NEW b \in S, <<a, b>> \in lt
        PROVE  Place1(S, lt, a) < Place1(S, lt, b)
    <2>1. Below(S, lt, a) \in SUBSET Below(S, lt, b)
      BY <1>3 DEF Below, Linear
    <2>2. a \in Below(S, lt, b) /\ a \notin Below(S, lt, a)
      BY <1>3 DEF Below, Linear
    <2>3. /\ Cardinality(Below(S, lt, a)) <= Cardinality(Below(S, lt, b))
          /\ Cardinality(Below(S, lt, b)) = Cardinality(Below(S, lt, a)) => Below(S, lt, b) = Below(S, lt, a)
      BY <1>2, <2>1, FS_Subset
    <2>4. Cardinality(Below(S, lt, a)) < Cardinality(Below(S, lt, b))
      BY <1>2, <2>2, <2>3
    <2> QED
      BY <1>2, <2>4 DEF Place1
  <1>4. \A a, b \in S : Place1(S, lt, a) = Place1(S, lt, b) => a = b
    <2> TAKE a \in S, b \in S
    <2>1. a = b \/ <<a, b>> \in lt \/ <<b, a>> \in lt
      BY DEF Linear
    <2>2. Place1(S, lt, a) \in Nat /\ Place1(S, lt, b) \in Nat
      BY <1>1, <1>2
    <2> QED
      BY <1>3, <2>1, <2>2
  <1>5. \A k \in 1 .. Cardinality(S) : \E a \in S : Place1(S, lt, a) = k
    <2> DEFINE f == [a \in S |-> Place1(S, lt, a)]
    <2>1. f \in [S -> 1 .. Cardinality(S)]
      BY <1>2
    <2>2. f \in Injection(S, 1 .. Cardinality(S))
      BY <1>4, <2>1 DEF Injection, IsInjective
    <2>3. IsFiniteSet(1 .. Cardinality(S)) /\ Cardinality(1 .. Cardinality(S)) = Cardinality(S)
      BY <1>1, FS_Interval
    <2>4. f \in Surjection(S, 1 .. Cardinality(S))
      <3> HIDE DEF f
      <3> QED
        BY <2>2, <2>3, FS_Injection
    <2>5. \A k \in 1 .. Cardinality(S) : \E a \in S : f[a] = k
      BY <2>4 DEF Surjection
    <2> QED
      BY <2>5
  <1> QED
    BY <1>2, <1>4, <1>5

\* What is at places stands there in their order: nothing is lost and nothing twice.
LEMMA AtFacts ==
  ASSUME NEW s, NEW n \in Nat, NEW places \in SUBSET (1 .. n)
  PROVE  /\ ToSet(At(s, places)) = {s[i] : i \in places}
         /\ (\A i, j \in places : s[i] = s[j] => i = j) => IsInjective(At(s, places))
  <1> DEFINE lt == {p \in (1 .. n) \X (1 .. n) : p[1] < p[2]}
             nth(k) == CHOOSE i \in places : Cardinality({j \in places : j <= i}) = k
             size == Cardinality(places)
  <1>1. IsFiniteSet(places) /\ size \in Nat
    <2>1. IsFiniteSet(1 .. n)
      BY FS_Interval
    <2>2. IsFiniteSet(places)
      BY <2>1, FS_Subset
    <2> QED
      BY <2>2, FS_CardinalityType
  <1>2. Linear(places, lt)
    BY DEF Linear
  <1>3. \A i \in places : Cardinality({j \in places : j <= i}) = Place1(places, lt, i)
    <2> TAKE i \in places
    <2>1. {j \in places : j <= i} = Below(places, lt, i) \cup {i} /\ i \notin Below(places, lt, i)
      <3>1. i \in Nat /\ \A j \in places : j \in Nat /\ (<<j, i>> \in lt <=> j < i)
        OBVIOUS
      <3> HIDE DEF lt
      <3>2. \A j \in places : j <= i <=> <<j, i>> \in lt \/ j = i
        BY <3>1
      <3>3. <<i, i>> \notin lt
        BY <3>1
      <3> QED
        BY <3>2, <3>3 DEF Below
    <2>2. Below(places, lt, i) \in SUBSET places
      BY DEF Below
    <2>3. IsFiniteSet(Below(places, lt, i))
      BY <1>1, <2>2, FS_Subset
    <2> QED
      BY <2>1, <2>3, FS_AddElement DEF Place1
  <1> HIDE DEF lt
  <1>4. /\ \A i \in places : Place1(places, lt, i) \in 1 .. Cardinality(places)
        /\ \A i, j \in places : Place1(places, lt, i) = Place1(places, lt, j) => i = j
        /\ \A k \in 1 .. Cardinality(places) : \E i \in places : Place1(places, lt, i) = k
    <2>1. IsFiniteSet(places)
      BY <1>1
    <2>2. PICK S : S = places
      OBVIOUS
    <2>3. IsFiniteSet(S) /\ Linear(S, lt)
      BY <1>2, <2>1, <2>2
    <2>4. /\ \A i \in S : Place1(S, lt, i) \in 1 .. Cardinality(S)
          /\ \A i, j \in S : Place1(S, lt, i) = Place1(S, lt, j) => i = j
          /\ \A k \in 1 .. Cardinality(S) : \E i \in S : Place1(S, lt, i) = k
      BY <2>3, PlacesInOrder
    <2> QED
      BY <2>2, <2>4
  <1>5. \A k \in 1 .. size : nth(k) \in places /\ Place1(places, lt, nth(k)) = k
    <2> TAKE k \in 1 .. size
    <2>1. \E i \in places : Cardinality({j \in places : j <= i}) = k
      BY <1>3, <1>4
    <2>2. nth(k) \in places /\ Cardinality({j \in places : j <= nth(k)}) = k
      BY <2>1
    <2> QED
      BY <1>3, <2>2
  <1>6. At(s, places) = [k \in 1 .. size |-> s[nth(k)]]
    BY DEF At
  <1>7. \A i \in places : nth(Place1(places, lt, i)) = i
    BY <1>4, <1>5
  <1> HIDE DEF nth, size
  <1>8. ToSet(At(s, places)) = {s[nth(k)] : k \in 1 .. size}
    BY <1>6 DEF ToSet
  <1>9. {s[nth(k)] : k \in 1 .. size} = {s[i] : i \in places}
    <2>1. \A i \in places : Place1(places, lt, i) \in 1 .. size /\ nth(Place1(places, lt, i)) = i
      BY <1>4, <1>7 DEF size
    <2> QED
      BY <1>5, <2>1
  <1>10. (\A i, j \in places : s[i] = s[j] => i = j) => IsInjective(At(s, places))
    <2> SUFFICES ASSUME \A i, j \in places : s[i] = s[j] => i = j PROVE IsInjective(At(s, places))
      OBVIOUS
    <2>1. \A k, l \in 1 .. size : s[nth(k)] = s[nth(l)] => k = l
      BY <1>5
    <2>2. DOMAIN At(s, places) = 1 .. size /\ \A k \in 1 .. size : At(s, places)[k] = s[nth(k)]
      BY <1>6
    <2> QED
      BY <2>1, <2>2 DEF IsInjective
  <1> QED
    BY <1>8, <1>9, <1>10

LEMMA AmongFacts ==
  ASSUME NEW s, IsList(s), NEW S
  PROVE  /\ ToSet(Among(s, S)) = ToSet(s) \cap S
         /\ IsInjective(s) => IsInjective(Among(s, S))
  <1> DEFINE places == {i \in DOMAIN s : s[i] \in S}
  <1>1. Len(s) \in Nat /\ DOMAIN s = 1 .. Len(s) /\ places \in SUBSET (1 .. Len(s))
    BY ListFacts
  <1>2. Among(s, S) = At(s, places)
    BY DEF Among
  <1>3. {s[i] : i \in places} = ToSet(s) \cap S
    BY DEF ToSet
  <1>4. IsInjective(s) => \A i, j \in places : s[i] = s[j] => i = j
    BY DEF IsInjective
  <1> HIDE DEF places
  <1>5. ToSet(At(s, places)) = {s[i] : i \in places}
    BY <1>1, AtFacts
  <1>6. IsInjective(s) => IsInjective(At(s, places))
    BY <1>1, <1>4, AtFacts
  <1> QED
    BY <1>2, <1>3, <1>5, <1>6

\* All of a list is the list.
LEMMA AllOfIt ==
  ASSUME NEW s, IsList(s), NEW S, ToSet(s) \subseteq S
  PROVE  Among(s, S) = s
  <1> DEFINE places == {i \in DOMAIN s : s[i] \in S}
             nth(k) == CHOOSE i \in places : Cardinality({j \in places : j <= i}) = k
  <1>1. Len(s) \in Nat /\ DOMAIN s = 1 .. Len(s) /\ s = [k \in 1 .. Len(s) |-> s[k]]
    BY ListFacts
  <1>2. places = 1 .. Len(s)
    BY <1>1 DEF ToSet
  <1> HIDE DEF places
  <1>3. Cardinality(places) = Len(s)
    <2>1. Cardinality(1 .. Len(s)) = IF 1 > Len(s) THEN 0 ELSE Len(s) - 1 + 1
      <3>1. 1 \in Int /\ Len(s) \in Int
        BY <1>1
      <3> QED
        BY <3>1, FS_Interval
    <2> QED
      BY <1>1, <1>2, <2>1
  <1>4. \A i \in places : Cardinality({j \in places : j <= i}) = i
    <2> TAKE i \in places
    <2>1. {j \in places : j <= i} = 1 .. i /\ i \in Int /\ 1 <= i
      BY <1>1, <1>2
    <2>2. Cardinality(1 .. i) = IF 1 > i THEN 0 ELSE i - 1 + 1
      BY <2>1, FS_Interval
    <2>3. Cardinality(1 .. i) = i
      BY <2>1, <2>2
    <2> QED
      BY <2>1, <2>3
  <1>5. \A k \in 1 .. Len(s) : nth(k) = k
    BY <1>2, <1>4
  <1>6. Among(s, S) = [k \in 1 .. Cardinality(places) |-> s[nth(k)]]
    BY DEF Among, At, places
  <1> HIDE DEF nth
  <1> QED
    BY <1>1, <1>3, <1>5, <1>6

\* A strict weak order of the places of a list, and the place it sorts each to.
Weak(n, less) ==
  /\ \A a \in 1 .. n : <<a, a>> \notin less
  /\ \A a, b, c \in 1 .. n : <<a, b>> \in less /\ <<b, c>> \in less => <<a, c>> \in less
  /\ \A a, b, c \in 1 .. n : <<a, b>> \in less => <<a, c>> \in less \/ <<c, b>> \in less
SortedTo(n, less, i) == Cardinality({j \in 1 .. n : <<j, i>> \in less \/ (<<i, j>> \notin less /\ j <= i)})

LEMMA SortedPlaces ==
  ASSUME NEW n \in Nat, NEW less, Weak(n, less)
  PROVE  /\ \A a \in 1 .. n : SortedTo(n, less, a) \in 1 .. n
         /\ \A a, b \in 1 .. n : SortedTo(n, less, a) = SortedTo(n, less, b) => a = b
         /\ \A k \in 1 .. n : \E a \in 1 .. n : SortedTo(n, less, a) = k
  <1> DEFINE before(i, j) == <<i, j>> \in less \/ (<<j, i>> \notin less /\ i < j)
             lt == {p \in (1 .. n) \X (1 .. n) : before(p[1], p[2])}
  <1>1. \A i, j \in 1 .. n : <<i, j>> \in lt <=> before(i, j)
    OBVIOUS
  <1> HIDE DEF lt
  <1>2. Linear(1 .. n, lt)
    <2>1. \A a \in 1 .. n : ~before(a, a)
      <3> TAKE a \in 1 .. n
      <3>1. <<a, a>> \notin less /\ ~(a < a)
        BY DEF Weak
      <3> QED
        BY <3>1
    <2>2. \A a, b, c \in 1 .. n : before(a, b) /\ before(b, c) => before(a, c)
      BY DEF Weak
    <2>3. \A a, b \in 1 .. n : a = b \/ before(a, b) \/ before(b, a)
      OBVIOUS
    <2> HIDE DEF before
    <2> QED
      BY <1>1, <2>1, <2>2, <2>3 DEF Linear
  <1>3. IsFiniteSet(1 .. n) /\ Cardinality(1 .. n) = n
    <2>1. 1 \in Int /\ n \in Int /\ (1 > n => n = 0)
      OBVIOUS
    <2> QED
      BY <2>1, FS_Interval
  <1>4. \A a \in 1 .. n : SortedTo(n, less, a) = Place1(1 .. n, lt, a)
    <2> TAKE a \in 1 .. n
    <2> DEFINE upTo == {j \in 1 .. n : <<j, a>> \in less \/ (<<a, j>> \notin less /\ j <= a)}
    <2>1. \A j \in 1 .. n : (<<j, a>> \in less \/ (<<a, j>> \notin less /\ j <= a)) <=> (before(j, a) \/ j = a)
      BY DEF Weak
    <2>2. ~before(a, a)
      BY DEF Weak
    <2> HIDE DEF before
    <2>3. upTo = Below(1 .. n, lt, a) \cup {a} /\ a \notin Below(1 .. n, lt, a)
      BY <1>1, <2>1, <2>2 DEF Below
    <2>4. IsFiniteSet(Below(1 .. n, lt, a))
      <3>1. Below(1 .. n, lt, a) \in SUBSET (1 .. n)
        BY DEF Below
      <3> QED
        BY <1>3, <3>1, FS_Subset
    <2>5. Cardinality(upTo) = Cardinality(Below(1 .. n, lt, a)) + 1
      <3> HIDE DEF upTo
      <3> QED
        BY <2>3, <2>4, FS_AddElement
    <2> QED
      BY <2>5 DEF SortedTo, Place1
  <1>5. PICK S : S = 1 .. n
    OBVIOUS
  <1>6. /\ \A a \in S : Place1(S, lt, a) \in 1 .. Cardinality(S)
        /\ \A a, b \in S : Place1(S, lt, a) = Place1(S, lt, b) => a = b
        /\ \A k \in 1 .. Cardinality(S) : \E a \in S : Place1(S, lt, a) = k
    BY <1>2, <1>3, <1>5, PlacesInOrder
  <1> QED
    BY SMTT(30), <1>3, <1>4, <1>5, <1>6

\* q is the list s, sorted.
SortOf(q, s, n, less) ==
  /\ n \in Nat /\ Weak(n, less) /\ DOMAIN s = 1 .. n /\ DOMAIN q = 1 .. n
  /\ \A k \in 1 .. n : \E i \in 1 .. n : q[k] = s[i] /\ SortedTo(n, less, i) = k

\* Sorting loses nothing and shows nothing twice.
LEMMA SortedFacts ==
  ASSUME NEW q, NEW s, NEW n, NEW less, SortOf(q, s, n, less)
  PROVE  ToSet(q) = ToSet(s) /\ (IsInjective(s) => IsInjective(q))
  <1> USE DEF SortOf
  <1>1. /\ \A a \in 1 .. n : SortedTo(n, less, a) \in 1 .. n
        /\ \A a, b \in 1 .. n : SortedTo(n, less, a) = SortedTo(n, less, b) => a = b
    BY SortedPlaces
  <1>2. \A i \in 1 .. n : q[SortedTo(n, less, i)] = s[i]
    BY <1>1
  <1>3. ToSet(q) = ToSet(s)
    BY <1>1, <1>2 DEF ToSet
  <1>4. IsInjective(s) => IsInjective(q)
    <2> SUFFICES ASSUME IsInjective(s), NEW k \in 1 .. n, NEW l \in 1 .. n, q[k] = q[l] PROVE k = l
      BY DEF IsInjective
    <2>1. PICK i \in 1 .. n : q[k] = s[i] /\ SortedTo(n, less, i) = k
      OBVIOUS
    <2>2. PICK j \in 1 .. n : q[l] = s[j] /\ SortedTo(n, less, j) = l
      OBVIOUS
    <2>3. i = j
      BY <2>1, <2>2 DEF IsInjective
    <2> QED
      BY <2>1, <2>2, <2>3
  <1> QED
    BY <1>3, <1>4

-----------------------------------------------------------------------------
(* The alphabetical order.                                                 *)

LEMMA RankIsNumber ==
  ASSUME NEW w
  PROVE  RankOf(w) \in Nat /\ (w \in ToSet(Alphabet) => RankOf(w) \in DOMAIN Alphabet /\ Alphabet[RankOf(w)] = w)
  <1>1. CASE w \in DOMAIN Rank
    <2> DEFINE hits == {i \in DOMAIN Alphabet : Alphabet[i] = w}
    <2>1. hits \in SUBSET Nat /\ hits # {}
      BY <1>1, ShelvesAssumption DEF Rank, ToSet
    <2>2. PICK m \in hits : \A k \in hits : ~(k < m)
      <3> HIDE DEF hits
      <3> QED
        BY <2>1, LeastNumber
    <2>3. \A k \in hits : m <= k
      BY <2>1, <2>2
    <2>4. FirstOf(hits) \in hits
      <3> HIDE DEF hits
      <3> QED
        BY <2>2, <2>3 DEF FirstOf
    <2>5. RankOf(w) = FirstOf(hits)
      BY <1>1 DEF RankOf, Rank
    <2> QED
      BY <2>1, <2>4, <2>5
  <1>2. CASE w \notin DOMAIN Rank
    BY <1>2 DEF RankOf, Rank
  <1> QED
    BY <1>1, <1>2

\* A title as the numbers of its words, nothing behind its end.
Key(t) == [i \in Nat |-> IF i \in DOMAIN t THEN RankOf(t[i]) + 1 ELSE 0]
Lower(f, g) == \E k \in Nat \ {0} : f[k] < g[k] /\ \A i \in 1 .. k - 1 : f[i] = g[i]

LEMMA BeforeIsLower ==
  ASSUME NEW t, NEW u, IsList(t), IsList(u)
  PROVE  Before(t, u) <=> Lower(Key(t), Key(u))
  <1>1. /\ Len(t) \in Nat /\ DOMAIN t = 1 .. Len(t)
        /\ Len(u) \in Nat /\ DOMAIN u = 1 .. Len(u)
    BY ListFacts
  <1>2. \A w : RankOf(w) \in Nat
    BY RankIsNumber
  <1>3. ASSUME Before(t, u) PROVE Lower(Key(t), Key(u))
    <2>1. PICK k \in 0 .. Len(t) :
             /\ k < Len(u) /\ \A i \in 1 .. k : RankOf(t[i]) = RankOf(u[i])
             /\ k = Len(t) \/ RankOf(t[k + 1]) < RankOf(u[k + 1])
      BY <1>3 DEF Before
    <2>4. k \in Nat /\ k <= Len(t) /\ k < Len(u)
      <3>1. k \in Nat /\ k <= Len(t)
        BY <1>1
      <3>2. k < Len(u)
        BY <2>1, Zenon
      <3> QED
        BY <3>1, <3>2
    <2>5. k + 1 \in 1 .. Len(u) /\ (k # Len(t) => k + 1 \in 1 .. Len(t)) /\ k + 1 \in Nat
          /\ (k = Len(t) => k + 1 \notin 1 .. Len(t))
      <3>1. PICK m, n : m = Len(t) /\ n = Len(u)
        OBVIOUS
      <3>2. k \in Nat /\ m \in Nat /\ n \in Nat /\ k <= m /\ k < n
        BY <1>1, <2>4, <3>1
      <3>3. k + 1 \in 1 .. n /\ (k # m => k + 1 \in 1 .. m) /\ k + 1 \in Nat /\ (k = m => k + 1 \notin 1 .. m)
        BY <3>2
      <3> QED
        BY <3>1, <3>3
    <2>6. \A i \in 1 .. k : i \in 1 .. Len(t) /\ i \in 1 .. Len(u) /\ i \in Nat
      BY <1>1, <2>4
    <2>2. k + 1 \in Nat \ {0} /\ \A i \in 1 .. (k + 1) - 1 : Key(t)[i] = Key(u)[i]
      <3>1. (k + 1) - 1 = k /\ k + 1 \in Nat \ {0}
        BY <2>4
      <3>2. \A i \in 1 .. k : Key(t)[i] = Key(u)[i]
        BY <1>1, <2>1, <2>6 DEF Key
      <3> QED
        BY <3>1, <3>2
    <2>3. Key(t)[k + 1] < Key(u)[k + 1]
      <3>1. k + 1 \in DOMAIN u
        BY <1>1, <2>5
      <3>2. Key(u)[k + 1] = RankOf(u[k + 1]) + 1
        BY <2>2, <3>1 DEF Key
      <3>3. CASE k = Len(t)
        <4>1. Key(t)[k + 1] = 0
          BY <1>1, <2>5, <3>3 DEF Key
        <4> QED
          BY <1>2, <3>2, <4>1
      <3>4. CASE k # Len(t)
        <4>1. Key(t)[k + 1] = RankOf(t[k + 1]) + 1
          BY <1>1, <2>5, <3>4 DEF Key
        <4> QED
          BY <1>2, <2>1, <3>2, <3>4, <4>1
      <3> QED
        BY <3>3, <3>4
    <2> QED
      BY <2>2, <2>3 DEF Lower
  <1>4. ASSUME Lower(Key(t), Key(u)) PROVE Before(t, u)
    <2>1. PICK k \in Nat \ {0} : Key(t)[k] < Key(u)[k] /\ \A i \in 1 .. k - 1 : Key(t)[i] = Key(u)[i]
      BY <1>4 DEF Lower
    <2>2. k \in DOMAIN u
      BY <1>2, <2>1 DEF Key
    <2>3. \A i \in 1 .. k - 1 : i \in DOMAIN u /\ i \in DOMAIN t /\ RankOf(t[i]) = RankOf(u[i])
      <3> TAKE i \in 1 .. k - 1
      <3>1. i \in Nat /\ i \in DOMAIN u /\ Key(t)[i] = Key(u)[i]
        BY <1>1, <2>1, <2>2
      <3> QED
        BY <1>2, <3>1 DEF Key
    <2>4. k - 1 \in 0 .. Len(t) /\ k - 1 < Len(u)
      <3>1. CASE k = 1
        BY <1>1, <2>2, <3>1
      <3>2. CASE k # 1
        <4>1. k - 1 \in 1 .. k - 1
          BY <2>1, <3>2
        <4> QED
          BY <1>1, <2>2, <2>3, <4>1
      <3> QED
        BY <3>1, <3>2
    <2>5. k - 1 = Len(t) \/ RankOf(t[(k - 1) + 1]) < RankOf(u[(k - 1) + 1])
      <3> SUFFICES ASSUME k - 1 # Len(t) PROVE RankOf(t[(k - 1) + 1]) < RankOf(u[(k - 1) + 1])
        OBVIOUS
      <3>1. k \in DOMAIN t /\ (k - 1) + 1 = k
        BY <1>1, <2>1, <2>4
      <3>2. Key(t)[k] = RankOf(t[k]) + 1 /\ Key(u)[k] = RankOf(u[k]) + 1
        BY <2>1, <2>2, <3>1 DEF Key
      <3> QED
        BY <1>2, <2>1, <3>1, <3>2
    <2> QED
      BY <2>3, <2>4, <2>5 DEF Before
  <1> QED
    BY <1>3, <1>4

LEMMA LowerIsWeak ==
  ASSUME NEW f \in [Nat -> Nat], NEW g \in [Nat -> Nat], NEW h \in [Nat -> Nat]
  PROVE  /\ ~Lower(f, f)
         /\ Lower(f, g) /\ Lower(g, h) => Lower(f, h)
         /\ Lower(f, g) => Lower(f, h) \/ Lower(h, g)
  <1>1. ~Lower(f, f)
    BY DEF Lower
  <1>2. ASSUME Lower(f, g), Lower(g, h) PROVE Lower(f, h)
    <2>1. PICK k \in Nat \ {0} : f[k] < g[k] /\ \A i \in 1 .. k - 1 : f[i] = g[i]
      BY <1>2 DEF Lower
    <2>2. PICK l \in Nat \ {0} : g[l] < h[l] /\ \A i \in 1 .. l - 1 : g[i] = h[i]
      BY <1>2 DEF Lower
    <2>3. CASE k < l
      <3>1. k \in 1 .. l - 1
        BY <2>1, <2>2, <2>3
      <3>2. f[k] < h[k] /\ \A i \in 1 .. k - 1 : f[i] = h[i]
        BY <2>1, <2>2, <2>3, <3>1
      <3> QED
        BY <2>1, <3>2 DEF Lower
    <2>4. CASE l < k
      <3>1. l \in 1 .. k - 1
        BY <2>1, <2>2, <2>4
      <3>2. f[l] < h[l] /\ \A i \in 1 .. l - 1 : f[i] = h[i]
        BY <2>1, <2>2, <2>4, <3>1
      <3> QED
        BY <2>2, <3>2 DEF Lower
    <2>5. CASE k = l
      <3>1. f[k] < h[k] /\ \A i \in 1 .. k - 1 : f[i] = h[i]
        BY <2>1, <2>2, <2>5
      <3> QED
        BY <2>1, <3>1 DEF Lower
    <2> QED
      BY <2>1, <2>2, <2>3, <2>4, <2>5
  <1>3. ASSUME Lower(f, g) PROVE Lower(f, h) \/ Lower(h, g)
    <2>1. PICK k \in Nat \ {0} : f[k] < g[k] /\ \A i \in 1 .. k - 1 : f[i] = g[i]
      BY <1>3 DEF Lower
    <2> DEFINE D == {m \in Nat \ {0} : h[m] # f[m] \/ h[m] # g[m]}
    <2>2. k \in D /\ D \in SUBSET Nat
      BY <2>1
    <2>3. PICK m \in D : \A i \in D : ~(i < m)
      <3> HIDE DEF D
      <3> QED
        BY <2>2, LeastNumber
    <2>4. m \in Nat \ {0} /\ m <= k
      BY <2>2, <2>3
    <2>5. \A i \in 1 .. m - 1 : h[i] = f[i] /\ h[i] = g[i]
      BY <2>3, <2>4
    <2>6. f[m] < h[m] \/ h[m] < g[m]
      <3>1. CASE m = k
        BY <2>1, <2>4, <3>1
      <3>2. CASE m # k
        <4>1. m \in 1 .. k - 1
          BY <2>4, <3>2
        <4>2. f[m] = g[m] /\ h[m] # f[m]
          BY <2>1, <2>3, <4>1
        <4>3. f[m] \in Nat /\ h[m] \in Nat
          BY <2>4
        <4> QED
          BY <4>2, <4>3
      <3> QED
        BY <3>1, <3>2
    <2>7. CASE f[m] < h[m]
      BY <2>4, <2>5, <2>7 DEF Lower
    <2>8. CASE h[m] < g[m]
      BY <2>4, <2>5, <2>8 DEF Lower
    <2> QED
      BY <2>6, <2>7, <2>8
  <1> QED
    BY <1>1, <1>2, <1>3

LEMMA BeforeIsWeak ==
  ASSUME NEW t, NEW u, NEW v, IsList(t), IsList(u), IsList(v)
  PROVE  /\ ~Before(t, t)
         /\ Before(t, u) /\ Before(u, v) => Before(t, v)
         /\ Before(t, u) => Before(t, v) \/ Before(v, u)
  <1>1. \A x : Key(x) \in [Nat -> Nat]
    BY RankIsNumber DEF Key
  <1> QED
    BY <1>1, BeforeIsLower, LowerIsWeak

LEMMA InSequenceFacts ==
  ASSUME NEW S, IsFiniteSet(S), NEW lt, Linear(S, lt), NEW q, DOMAIN q = 1 .. Cardinality(S),
         \A k \in 1 .. Cardinality(S) :
            (\E x \in S : Cardinality(Below(S, lt, x)) = k - 1)
              => q[k] \in S /\ Cardinality(Below(S, lt, q[k])) = k - 1
  PROVE  ToSet(q) = S /\ IsInjective(q)
  <1>1. /\ \A a \in S : Place1(S, lt, a) \in 1 .. Cardinality(S)
        /\ \A a, b \in S : Place1(S, lt, a) = Place1(S, lt, b) => a = b
        /\ \A k \in 1 .. Cardinality(S) : \E a \in S : Place1(S, lt, a) = k
    BY PlacesInOrder
  <1>2. \A x \in S : Cardinality(Below(S, lt, x)) \in Nat
    <2> TAKE x \in S
    <2>1. Below(S, lt, x) \in SUBSET S
      BY DEF Below
    <2> QED
      BY <2>1, FS_Subset, FS_CardinalityType
  <1>3. Cardinality(S) \in Nat
    BY FS_CardinalityType
  <1>4. \A k \in 1 .. Cardinality(S) : q[k] \in S /\ Place1(S, lt, q[k]) = k
    <2> TAKE k \in 1 .. Cardinality(S)
    <2>1. PICK x \in S : Place1(S, lt, x) = k
      BY <1>1
    <2>2. Cardinality(Below(S, lt, x)) = k - 1
      BY <1>2, <2>1 DEF Place1
    <2>3. q[k] \in S /\ Cardinality(Below(S, lt, q[k])) = k - 1
      BY <2>2
    <2> QED
      BY <1>3, <2>3 DEF Place1
  <1>5. \A x \in S : q[Place1(S, lt, x)] = x
    BY <1>1, <1>4
  <1>6. ToSet(q) = S
    BY <1>1, <1>4, <1>5 DEF ToSet
  <1>7. IsInjective(q)
    BY <1>4 DEF IsInjective
  <1> QED
    BY <1>6, <1>7

\* Ids of known words stand in one order.
LEMMA BeforeIsLinear ==
  ASSUME NEW S, \A t \in S : IsList(t) /\ ToSet(t) \subseteq ToSet(Alphabet)
  PROVE  Linear(S, {p \in S \X S : Before(p[1], p[2])})
  <1> DEFINE lt == {p \in S \X S : Before(p[1], p[2])}
  <1>1. \A t, u \in S : <<t, u>> \in lt <=> Before(t, u)
    OBVIOUS
  <1> HIDE DEF lt
  <1>2. ASSUME NEW t \in S, NEW u \in S, t # u
        PROVE  Before(t, u) \/ Before(u, t)
    <2>1. Key(t) \in [Nat -> Nat] /\ Key(u) \in [Nat -> Nat]
      BY RankIsNumber DEF Key
    <2>2. /\ Len(t) \in Nat /\ DOMAIN t = 1 .. Len(t) /\ t = [k \in 1 .. Len(t) |-> t[k]]
          /\ Len(u) \in Nat /\ DOMAIN u = 1 .. Len(u) /\ u = [k \in 1 .. Len(u) |-> u[k]]
      BY ListFacts
    <2> DEFINE D == {m \in Nat : Key(t)[m] # Key(u)[m]}
    <2>3. D # {}
      <3> SUFFICES ASSUME \A m \in Nat : Key(t)[m] = Key(u)[m] PROVE FALSE
        OBVIOUS
      <3>1. \A m \in Nat : m \in DOMAIN t <=> m \in DOMAIN u
        <4> TAKE m \in Nat
        <4>1. RankOf(t[m]) \in Nat /\ RankOf(u[m]) \in Nat
          BY RankIsNumber
        <4>2. Key(t)[m] = Key(u)[m]
          OBVIOUS
        <4> QED
          BY <4>1, <4>2 DEF Key
      <3>2. DOMAIN t = DOMAIN u
        <4>1. DOMAIN t \subseteq Nat /\ DOMAIN u \subseteq Nat
          BY <2>2
        <4> QED
          BY <3>1, <4>1
      <3>3. \A m \in DOMAIN t : t[m] = u[m]
        <4> TAKE m \in DOMAIN t
        <4>1. m \in Nat /\ Key(t)[m] = Key(u)[m] /\ m \in DOMAIN u
          BY <2>2, <3>2
        <4>2. RankOf(t[m]) \in Nat /\ RankOf(u[m]) \in Nat
          BY RankIsNumber
        <4>3. RankOf(t[m]) = RankOf(u[m])
          BY <4>1, <4>2 DEF Key
        <4>4. t[m] \in ToSet(Alphabet) /\ u[m] \in ToSet(Alphabet)
          BY <4>1 DEF ToSet
        <4>5. Alphabet[RankOf(t[m])] = t[m] /\ Alphabet[RankOf(u[m])] = u[m]
          BY <4>4, RankIsNumber
        <4> QED
          BY <4>3, <4>5
      <3>4. PICK m : m = Len(t)
        OBVIOUS
      <3>5. PICK n : n = Len(u)
        OBVIOUS
      <3>6. m \in Nat /\ n \in Nat /\ 1 .. m = 1 .. n
        BY <2>2, <3>2, <3>4, <3>5
      <3>7. m = n
        <4>1. m # 0 => m \in 1 .. n
          BY <3>6
        <4>2. n # 0 => n \in 1 .. m
          BY <3>6
        <4> QED
          BY <3>6, <4>1, <4>2
      <3>8. t = [k \in 1 .. m |-> t[k]] /\ u = [k \in 1 .. m |-> u[k]] /\ \A k \in 1 .. m : t[k] = u[k]
        BY <2>2, <3>3, <3>4, <3>5, <3>7
      <3>9. [k \in 1 .. m |-> t[k]] = [k \in 1 .. m |-> u[k]]
        BY <3>8
      <3> QED
        BY <1>2, <3>8, <3>9, Zenon
    <2>4. PICK m \in D : \A i \in D : ~(i < m)
      <3>1. D \in SUBSET Nat
        OBVIOUS
      <3> HIDE DEF D
      <3> QED
        BY <2>3, <3>1, LeastNumber
    <2>5. m \in Nat \ {0}
      <3>1. Key(t)[0] = 0 /\ Key(u)[0] = 0
        BY <2>2 DEF Key
      <3> QED
        BY <3>1
    <2>6. \A i \in 1 .. m - 1 : Key(t)[i] = Key(u)[i]
      BY <2>4, <2>5
    <2>7. Key(t)[m] < Key(u)[m] \/ Key(u)[m] < Key(t)[m]
      <3>1. Key(t)[m] \in Nat /\ Key(u)[m] \in Nat /\ Key(t)[m] # Key(u)[m]
        BY <2>1
      <3> QED
        BY <3>1
    <2>8. Lower(Key(t), Key(u)) \/ Lower(Key(u), Key(t))
      BY <2>5, <2>6, <2>7 DEF Lower
    <2> QED
      BY <2>8, BeforeIsLower
  <1>3. /\ \A t \in S : ~Before(t, t)
        /\ \A t, u, v \in S : Before(t, u) /\ Before(u, v) => Before(t, v)
    BY BeforeIsWeak
  <1>4. Linear(S, lt)
    BY <1>1, <1>2, <1>3 DEF Linear
  <1> QED
    BY <1>4 DEF lt

LEMMA InAlphabet ==
  ASSUME NEW S, IsFiniteSet(S), \A t \in S : IsList(t) /\ ToSet(t) \subseteq ToSet(Alphabet)
  PROVE  ToSet(InSequence(S, Before)) = S /\ IsInjective(InSequence(S, Before))
  <1> DEFINE lt == {p \in S \X S : Before(p[1], p[2])}
             q == InSequence(S, Before)
  <1>1. Linear(S, lt)
    BY BeforeIsLinear
  <1>2. \A x \in S : {y \in S : Before(y, x)} = Below(S, lt, x)
    BY DEF Below
  <1>3. /\ DOMAIN q = 1 .. Cardinality(S)
        /\ \A k \in 1 .. Cardinality(S) : q[k] = CHOOSE x \in S : Cardinality({y \in S : Before(y, x)}) = k - 1
    BY DEF InSequence
  <1> HIDE DEF lt, q
  <1>4. ASSUME NEW k \in 1 .. Cardinality(S), NEW x \in S, Cardinality(Below(S, lt, x)) = k - 1
        PROVE  q[k] \in S /\ Cardinality(Below(S, lt, q[k])) = k - 1
    <2>1. Cardinality({y \in S : Before(y, x)}) = k - 1
      BY <1>2, <1>4
    <2>2. q[k] \in S /\ Cardinality({y \in S : Before(y, q[k])}) = k - 1
      BY <1>3, <2>1
    <2> QED
      BY <1>2, <2>2
  <1> QED
    BY ZenonT(30), <1>1, <1>3, <1>4, InSequenceFacts DEF q

LEMMA InNumbers ==
  ASSUME NEW S \in SUBSET Nat, IsFiniteSet(S)
  PROVE  ToSet(InSequence(S, <)) = S /\ IsInjective(InSequence(S, <))
  <1> DEFINE lt == {p \in S \X S : p[1] < p[2]}
             q == InSequence(S, <)
  <1>1. Linear(S, lt)
    BY DEF Linear
  <1>2. \A x \in S : {y \in S : y < x} = Below(S, lt, x)
    BY DEF Below
  <1>3. /\ DOMAIN q = 1 .. Cardinality(S)
        /\ \A k \in 1 .. Cardinality(S) : q[k] = CHOOSE x \in S : Cardinality({y \in S : y < x}) = k - 1
    BY DEF InSequence
  <1> HIDE DEF lt, q
  <1>4. ASSUME NEW k \in 1 .. Cardinality(S), NEW x \in S, Cardinality(Below(S, lt, x)) = k - 1
        PROVE  q[k] \in S /\ Cardinality(Below(S, lt, q[k])) = k - 1
    <2>1. Cardinality({y \in S : y < x}) = k - 1
      BY <1>2, <1>4
    <2>2. q[k] \in S /\ Cardinality({y \in S : y < q[k]}) = k - 1
      BY <1>3, <2>1
    <2> QED
      BY <1>2, <2>2
  <1> QED
    BY <1>1, <1>3, <1>4, InSequenceFacts DEF q

-----------------------------------------------------------------------------
(* Lists that are sorted.                                                  *)

Titled(cat, S) == \A id \in S : IsList(cat[id].title)

LEMMA ByTitleKeeps ==
  ASSUME NEW cat, NEW ids, IsList(ids), Titled(cat, ToSet(ids)),
         NEW q, q = Alphabetical(cat, ids)
  PROVE  IsList(q) /\ ToSet(q) = ToSet(ids) /\ (IsInjective(ids) => IsInjective(q))
  <1>1. PICK n : n = Len(ids)
    OBVIOUS
  <1>2. n \in Nat /\ DOMAIN ids = 1 .. n
    BY <1>1, ListFacts
  <1> DEFINE before(i, j) == Before(cat[ids[i]].title, cat[ids[j]].title)
             less == {p \in (1 .. n) \X (1 .. n) : before(p[1], p[2])}
             place(i) == Cardinality({j \in 1 .. n : before(j, i) \/ (~before(i, j) /\ j <= i)})
  <1>3. \A i, j \in 1 .. n : <<i, j>> \in less <=> before(i, j)
    OBVIOUS
  <1>4. \A i \in 1 .. n : IsList(cat[ids[i]].title)
    BY <1>2 DEF Titled, ToSet
  <1>5. q = [k \in 1 .. n |-> ids[CHOOSE i \in 1 .. n : place(i) = k]]
    BY <1>2 DEF Alphabetical, StableSort
  <1> HIDE DEF less
  <1>6. Weak(n, less)
    <2>1. \A i, j, l \in 1 .. n : /\ ~before(i, i)
                                  /\ before(i, j) /\ before(j, l) => before(i, l)
                                  /\ before(i, j) => before(i, l) \/ before(l, j)
      BY <1>4, BeforeIsWeak
    <2> HIDE DEF before
    <2> QED
      BY <1>3, <2>1 DEF Weak
  <1> HIDE DEF before
  <1>7. \A i \in 1 .. n : place(i) = SortedTo(n, less, i)
    <2> TAKE i \in 1 .. n
    <2>1. {j \in 1 .. n : before(j, i) \/ (~before(i, j) /\ j <= i)}
             = {j \in 1 .. n : <<j, i>> \in less \/ (<<i, j>> \notin less /\ j <= i)}
      BY <1>3
    <2> QED
      BY <2>1 DEF SortedTo
  <1> HIDE DEF place
  <1>8. \A k \in 1 .. n : \E i \in 1 .. n : q[k] = ids[i] /\ SortedTo(n, less, i) = k
    <2> TAKE k \in 1 .. n
    <2>1. \E i \in 1 .. n : place(i) = k
      <3>1. \E i \in 1 .. n : SortedTo(n, less, i) = k
        BY <1>2, <1>6, SortedPlaces
      <3> QED
        BY <1>7, <3>1
    <2>2. PICK i : i = CHOOSE j \in 1 .. n : place(j) = k
      OBVIOUS
    <2>3. i \in 1 .. n /\ place(i) = k
      BY <2>1, <2>2
    <2> QED
      BY <1>5, <1>7, <2>2, <2>3
  <1>9. DOMAIN q = 1 .. n /\ q = [k \in 1 .. n |-> q[k]]
    BY <1>5
  <1>10. ToSet(q) = ToSet(ids) /\ (IsInjective(ids) => IsInjective(q))
    <2>1. SortOf(q, ids, n, less)
      BY <1>2, <1>6, <1>8, <1>9 DEF SortOf
    <2> QED
      BY <2>1, SortedFacts
  <1> QED
    BY <1>2, <1>9, <1>10, ListIntro

LEMMA InOrderKeeps ==
  ASSUME NEW cat, NEW ids, IsList(ids), Titled(cat, ToSet(ids)),
         NEW q, q = InOrder(cat, ids)
  PROVE  IsList(q) /\ ToSet(q) = ToSet(ids) /\ (IsInjective(ids) => IsInjective(q))
  <1>1. PICK n : n = Len(ids)
    OBVIOUS
  <1>2. n \in Nat /\ DOMAIN ids = 1 .. n
    BY <1>1, ListFacts
  <1> DEFINE dir(i) == cat[ids[i]].kind = "folder"
             title(i, j) == Before(cat[ids[i]].title, cat[ids[j]].title)
             before(i, j) == (dir(i) /\ ~dir(j)) \/ (dir(i) = dir(j) /\ title(i, j))
             less == {p \in (1 .. n) \X (1 .. n) : before(p[1], p[2])}
             place(i) == Cardinality({j \in 1 .. n : before(j, i) \/ (~before(i, j) /\ j <= i)})
  <1>3. \A i, j \in 1 .. n : <<i, j>> \in less <=> before(i, j)
    OBVIOUS
  <1>4. \A i, j, l \in 1 .. n : /\ ~title(i, i)
                                /\ title(i, j) /\ title(j, l) => title(i, l)
                                /\ title(i, j) => title(i, l) \/ title(l, j)
    <2>1. \A i \in 1 .. n : IsList(cat[ids[i]].title)
      BY <1>2 DEF Titled, ToSet
    <2> QED
      BY <2>1, BeforeIsWeak
  <1>5. q = [k \in 1 .. n |-> ids[CHOOSE i \in 1 .. n : place(i) = k]]
    BY <1>2 DEF InOrder, StableSort
  <1> HIDE DEF less
  <1>6. Weak(n, less)
    <2>1. \A i, j, l \in 1 .. n : /\ ~before(i, i)
                                  /\ before(i, j) /\ before(j, l) => before(i, l)
                                  /\ before(i, j) => before(i, l) \/ before(l, j)
      BY <1>4
    <2> HIDE DEF before
    <2> QED
      BY <1>3, <2>1 DEF Weak
  <1> HIDE DEF before
  <1>7. \A i \in 1 .. n : place(i) = SortedTo(n, less, i)
    <2> TAKE i \in 1 .. n
    <2>1. {j \in 1 .. n : before(j, i) \/ (~before(i, j) /\ j <= i)}
             = {j \in 1 .. n : <<j, i>> \in less \/ (<<i, j>> \notin less /\ j <= i)}
      BY <1>3
    <2> QED
      BY <2>1 DEF SortedTo
  <1> HIDE DEF place
  <1>8. \A k \in 1 .. n : \E i \in 1 .. n : q[k] = ids[i] /\ SortedTo(n, less, i) = k
    <2> TAKE k \in 1 .. n
    <2>1. \E i \in 1 .. n : place(i) = k
      <3>1. \E i \in 1 .. n : SortedTo(n, less, i) = k
        BY <1>2, <1>6, SortedPlaces
      <3> QED
        BY <1>7, <3>1
    <2>2. PICK i : i = CHOOSE j \in 1 .. n : place(j) = k
      OBVIOUS
    <2>3. i \in 1 .. n /\ place(i) = k
      BY <2>1, <2>2
    <2> QED
      BY <1>5, <1>7, <2>2, <2>3
  <1>9. DOMAIN q = 1 .. n /\ q = [k \in 1 .. n |-> q[k]]
    BY <1>5
  <1>10. ToSet(q) = ToSet(ids) /\ (IsInjective(ids) => IsInjective(q))
    <2>1. SortOf(q, ids, n, less)
      BY <1>2, <1>6, <1>8, <1>9 DEF SortOf
    <2> QED
      BY <2>1, SortedFacts
  <1> QED
    BY <1>2, <1>9, <1>10, ListIntro

LEMMA NumbersKeep ==
  ASSUME NEW ids, IsList(ids), NEW where, \A id \in ToSet(ids) : PlaceOf(where, id).number \in Nat,
         NEW q, q = ByNumber(where, ids)
  PROVE  IsList(q) /\ ToSet(q) = ToSet(ids) /\ (IsInjective(ids) => IsInjective(q))
  <1>1. PICK n : n = Len(ids)
    OBVIOUS
  <1>2. n \in Nat /\ DOMAIN ids = 1 .. n
    BY <1>1, ListFacts
  <1> DEFINE number(i) == PlaceOf(where, ids[i]).number
             before(i, j) == number(i) < number(j)
             less == {p \in (1 .. n) \X (1 .. n) : before(p[1], p[2])}
             place(i) == Cardinality({j \in 1 .. n : before(j, i) \/ (~before(i, j) /\ j <= i)})
  <1>3. \A i, j \in 1 .. n : <<i, j>> \in less <=> before(i, j)
    OBVIOUS
  <1>4. \A i \in 1 .. n : number(i) \in Nat
    BY <1>2 DEF ToSet
  <1>5. q = [k \in 1 .. n |-> ids[CHOOSE i \in 1 .. n : place(i) = k]]
    BY <1>2 DEF ByNumber, StableSort
  <1> HIDE DEF less
  <1>6. Weak(n, less)
    <2>1. \A i, j, l \in 1 .. n : /\ ~before(i, i)
                                  /\ before(i, j) /\ before(j, l) => before(i, l)
                                  /\ before(i, j) => before(i, l) \/ before(l, j)
      <3> TAKE i, j, l \in 1 .. n
      <3>1. PlaceOf(where, ids[i]).number \in Nat /\ PlaceOf(where, ids[j]).number \in Nat /\ PlaceOf(where, ids[l]).number \in Nat
        BY <1>4
      <3>2. ~before(i, i)
        BY <3>1
      <3>3. before(i, j) /\ before(j, l) => before(i, l)
        BY <3>1
      <3>4. before(i, j) => before(i, l) \/ before(l, j)
        BY <3>1
      <3> QED
        BY <3>2, <3>3, <3>4
    <2> HIDE DEF before
    <2> QED
      BY <1>3, <2>1 DEF Weak
  <1> HIDE DEF before
  <1>7. \A i \in 1 .. n : place(i) = SortedTo(n, less, i)
    <2> TAKE i \in 1 .. n
    <2>1. {j \in 1 .. n : before(j, i) \/ (~before(i, j) /\ j <= i)}
             = {j \in 1 .. n : <<j, i>> \in less \/ (<<i, j>> \notin less /\ j <= i)}
      BY <1>3
    <2> QED
      BY <2>1 DEF SortedTo
  <1> HIDE DEF place
  <1>8. \A k \in 1 .. n : \E i \in 1 .. n : q[k] = ids[i] /\ SortedTo(n, less, i) = k
    <2> TAKE k \in 1 .. n
    <2>1. \E i \in 1 .. n : place(i) = k
      <3>1. \E i \in 1 .. n : SortedTo(n, less, i) = k
        BY <1>2, <1>6, SortedPlaces
      <3> QED
        BY <1>7, <3>1
    <2>2. PICK i : i = CHOOSE j \in 1 .. n : place(j) = k
      OBVIOUS
    <2>3. i \in 1 .. n /\ place(i) = k
      BY <2>1, <2>2
    <2> QED
      BY <1>5, <1>7, <2>2, <2>3
  <1>9. DOMAIN q = 1 .. n /\ q = [k \in 1 .. n |-> q[k]]
    BY <1>5
  <1>10. ToSet(q) = ToSet(ids) /\ (IsInjective(ids) => IsInjective(q))
    <2>1. SortOf(q, ids, n, less)
      BY <1>2, <1>6, <1>8, <1>9 DEF SortOf
    <2> QED
      BY <2>1, SortedFacts
  <1> QED
    BY <1>2, <1>9, <1>10, ListIntro

-----------------------------------------------------------------------------
(* What can be reached.                                                    *)

LEMMA ChildrenFacts ==
  ASSUME NEW cat, WellFormed(cat), NEW id
  PROVE  /\ id \in DOMAIN cat => ToSet(Children(cat, id)) = ToSet(cat[id].children) \cap DOMAIN cat
         /\ id \notin DOMAIN cat => ToSet(Children(cat, id)) = {}
         /\ ToSet(Children(cat, id)) \subseteq DOMAIN cat
  <1>1. CASE id \in DOMAIN cat
    <2>1. IsList(cat[id].children)
      BY <1>1 DEF WellFormed, IsNode
    <2> QED
      BY <1>1, <2>1, AmongFacts DEF Children
  <1>2. CASE id \notin DOMAIN cat
    BY <1>2 DEF Children, ToSet
  <1> QED
    BY <1>1, <1>2

Closed(cat, S) == \A id \in S : ToSet(Children(cat, id)) \subseteq S

\* The smallest set with everything that is listed by what it holds.
LEMMA ReachFacts ==
  ASSUME NEW cat, WellFormed(cat), NEW from \in SUBSET DOMAIN cat
  PROVE  /\ from \subseteq Reach(cat, from) /\ Reach(cat, from) \subseteq DOMAIN cat
         /\ Closed(cat, Reach(cat, from))
         /\ \A S : from \subseteq S /\ Closed(cat, S) => Reach(cat, from) \subseteq S
  <1> DEFINE D == DOMAIN cat
             more(seen) == UNION {ToSet(Children(cat, id)) : id \in seen}
             step(f, seen) == IF more(seen) \subseteq seen THEN seen ELSE f[seen \cup more(seen)]
             IsFurther(f) == f = [seen \in SUBSET D |-> step(f, seen)]
             Further == CHOOSE f : IsFurther(f)
             hull(seen) == {x \in D : \A S \in SUBSET D : seen \subseteq S /\ Closed(cat, S) => x \in S}
             hulls == [seen \in SUBSET D |-> hull(seen)]
  <1>1. Reach(cat, from) = Further[from]
    BY DEF Reach
  <1>2. \A seen : more(seen) \subseteq D
    BY ChildrenFacts
  <1>3. \A S : Closed(cat, S) <=> more(S) \subseteq S
    BY DEF Closed
  <1>4. \A seen, S : Closed(cat, S) /\ seen \subseteq S => more(seen) \subseteq S
    BY DEF Closed
  <1> HIDE DEF more
  <1>5. \A seen \in SUBSET D : hull(seen) = IF more(seen) \subseteq seen THEN seen ELSE hull(seen \cup more(seen))
    <2> TAKE seen \in SUBSET D
    <2>1. CASE more(seen) \subseteq seen
      BY <1>3, <2>1
    <2>2. CASE ~(more(seen) \subseteq seen)
      <3>1. \A S : seen \subseteq S /\ Closed(cat, S) <=> seen \cup more(seen) \subseteq S /\ Closed(cat, S)
        BY <1>4
      <3>2. hull(seen) = hull(seen \cup more(seen))
        BY <3>1
      <3> QED
        BY <2>2, <3>2
    <2> QED
      BY <2>1, <2>2
  <1> HIDE DEF hull
  <1>6. IsFurther(Further)
    <2>1. \A seen \in SUBSET D : hulls[seen] = step(hulls, seen)
      <3> TAKE seen \in SUBSET D
      <3>1. seen \cup more(seen) \in SUBSET D
        BY <1>2
      <3> QED
        BY <1>5, <3>1
    <2>2. IsFurther(hulls)
      BY <2>1
    <2> HIDE DEF IsFurther, hulls
    <2> QED
      BY <2>2
  <1>7. \A seen \in SUBSET D : Further[seen] = step(Further, seen)
    <2> HIDE DEF Further, step
    <2> QED
      BY <1>6
  <1> HIDE DEF Further, hulls
  <1>8. \A seen \in SUBSET D : Further[seen] = hull(seen)
    <2> DEFINE left(seen) == Cardinality(D \ seen)
               bad == {seen \in SUBSET D : Further[seen] # hull(seen)}
               sizes == {left(seen) : seen \in bad}
    <2> SUFFICES ASSUME bad # {} PROVE FALSE
      OBVIOUS
    <2>1. \A seen \in SUBSET D : IsFiniteSet(D \ seen) /\ left(seen) \in Nat
      <3> TAKE seen \in SUBSET D
      <3>1. IsFiniteSet(D \ seen)
        BY FS_Difference DEF WellFormed
      <3> QED
        BY <3>1, FS_CardinalityType
    <2> HIDE DEF left
    <2>2. PICK m \in sizes : \A k \in sizes : ~(k < m)
      <3>1. sizes \in SUBSET Nat /\ sizes # {}
        BY <2>1
      <3> HIDE DEF sizes
      <3> QED
        BY <3>1, LeastNumber
    <2>3. PICK seen \in bad : m = left(seen)
      BY <2>2
    <2>4. CASE more(seen) \subseteq seen
      BY <1>5, <1>7, <2>3, <2>4
    <2>5. CASE ~(more(seen) \subseteq seen)
      <3> DEFINE next == seen \cup more(seen)
      <3>1. next \in SUBSET D
        BY <1>2
      <3>2. left(next) < left(seen)
        <4>1. D \ next \in SUBSET (D \ seen) /\ D \ next # D \ seen
          BY <1>2, <2>5
        <4>2. Cardinality(D \ next) <= Cardinality(D \ seen) /\ Cardinality(D \ next) # Cardinality(D \ seen)
          BY <2>1, <4>1, FS_Subset
        <4>3. left(next) \in Nat /\ left(seen) \in Nat
          BY <2>1, <3>1
        <4> QED
          BY <4>2, <4>3 DEF left
      <3>3. Further[next] = hull(next)
        BY <2>2, <2>3, <3>1, <3>2
      <3> QED
        BY <1>5, <1>7, <2>3, <2>5, <3>3
    <2> QED
      BY <2>4, <2>5
  <1>9. Reach(cat, from) = hull(from)
    BY <1>1, <1>8
  <1>10. from \subseteq hull(from) /\ hull(from) \subseteq D
    BY DEF hull
  <1>11. Closed(cat, hull(from))
    <2> SUFFICES ASSUME NEW x \in hull(from), NEW y \in ToSet(Children(cat, x)) PROVE y \in hull(from)
      BY DEF Closed
    <2>1. y \in D
      BY ChildrenFacts
    <2>2. \A S \in SUBSET D : from \subseteq S /\ Closed(cat, S) => y \in S
      BY DEF hull, Closed
    <2> QED
      BY <2>1, <2>2 DEF hull
  <1>12. ASSUME NEW S, from \subseteq S, Closed(cat, S) PROVE hull(from) \subseteq S
    <2>1. Closed(cat, S \cap D) /\ from \subseteq S \cap D
      BY <1>12, ChildrenFacts DEF Closed
    <2> QED
      BY <2>1 DEF hull
  <1> QED
    BY <1>9, <1>10, <1>11, <1>12

\* What is reached was there from the start or is listed by something.
LEMMA ReachedIsListed ==
  ASSUME NEW cat, WellFormed(cat), NEW from \in SUBSET DOMAIN cat, NEW x \in Reach(cat, from), x \notin from
  PROVE  \E up \in Reach(cat, from) : x \in ToSet(Children(cat, up))
  <1> SUFFICES ASSUME \A up \in Reach(cat, from) : x \notin ToSet(Children(cat, up)) PROVE FALSE
    OBVIOUS
  <1>1. Closed(cat, Reach(cat, from) \ {x}) /\ from \subseteq Reach(cat, from) \ {x}
    BY ReachFacts DEF Closed
  <1>2. Reach(cat, from) \subseteq Reach(cat, from) \ {x}
    BY <1>1, ReachFacts
  <1> QED
    BY <1>2

-----------------------------------------------------------------------------
(* What names say.                                                         *)

\* Titles of known words, none of them a colon.
Words(t) == IsList(t) /\ ToSet(t) \subseteq ToSet(Alphabet) \ {":"}
KnownName(n) == Words(n.words) /\ IsFiniteSet(n.years)

LEMMA FirstIsOne ==
  ASSUME NEW S \in SUBSET Nat, S # {}
  PROVE  FirstOf(S) \in S /\ \A j \in S : FirstOf(S) <= j
  <1>1. PICK m \in S : \A j \in S : ~(j < m)
    BY LeastNumber
  <1>2. \A j \in S : m <= j
    BY <1>1
  <1> QED
    BY <1>2 DEF FirstOf

LEMMA AtWords ==
  ASSUME NEW s, Words(s), NEW places \in SUBSET DOMAIN s
  PROVE  Words(At(s, places))
  <1>1. IsList(s) /\ Len(s) \in Nat /\ DOMAIN s = 1 .. Len(s) /\ IsFiniteSet(DOMAIN s)
    BY ListFacts DEF Words
  <1>2. IsList(At(s, places))
    BY <1>1, FS_Subset, AtIsList
  <1>3. PICK n : n = Len(s)
    OBVIOUS
  <1>4. ToSet(At(s, places)) = {s[i] : i \in places}
    <2>1. n \in Nat /\ places \in SUBSET (1 .. n)
      BY <1>1, <1>3
    <2> QED
      BY <2>1, AtFacts
  <1>5. {s[i] : i \in places} \subseteq ToSet(s)
    BY DEF ToSet
  <1> QED
    BY <1>2, <1>4, <1>5 DEF Words

\* A part of a title.
LEMMA PartWords ==
  ASSUME NEW s, Words(s), NEW m \in Nat \ {0}, NEW n \in Int, n <= Len(s)
  PROVE  Words(SubSeq(s, m, n))
  <1>1. IsList(s) /\ Len(s) \in Nat /\ DOMAIN s = 1 .. Len(s) /\ \A i \in DOMAIN s : s[i] \in ToSet(s)
    BY ListFacts DEF Words, ToSet
  <1>2. s \in Seq(ToSet(s))
    BY <1>1 DEF IsList
  <1>3. PICK q : q = SubSeq(s, m, n)
    OBVIOUS
  <1>4. CASE n < m
    <2>1. q = <<>>
      BY <1>2, <1>3, <1>4, SubSeqEmpty
    <2>2. IsList(<<>>) /\ ToSet(<<>>) = {}
      BY DEF IsList, ToSet
    <2> QED
      BY <1>3, <2>1, <2>2 DEF Words
  <1>5. CASE m <= n
    <2>1. PICK l : l = n - m + 1
      OBVIOUS
    <2>2. l \in Nat /\ q = [k \in 1 .. l |-> s[k + m - 1]]
      BY <1>3, <1>5, <2>1
    <2>3. q = [k \in 1 .. l |-> q[k]] /\ \A k \in 1 .. l : k + m - 1 \in 1 .. Len(s)
      BY <1>1, <1>5, <2>1, <2>2
    <2>4. IsList(q) /\ DOMAIN q = 1 .. l
      BY <2>2, <2>3, ListIntro
    <2>5. \A k \in 1 .. l : q[k] \in ToSet(s)
      BY <1>1, <2>2, <2>3
    <2>6. ToSet(q) \subseteq ToSet(s)
      BY <2>4, <2>5 DEF ToSet
    <2> QED
      BY <1>3, <2>4, <2>6 DEF Words
  <1> QED
    BY <1>4, <1>5

LEMMA PlacesAreNumbers ==
  ASSUME NEW s, IsList(s)
  PROVE  DOMAIN s \subseteq Nat \ {0} /\ \A i \in DOMAIN s : i <= Len(s)
  BY ListFacts

LEMMA DropLeadWords ==
  ASSUME NEW s, Words(s)
  PROVE  Words(DropLead(s))
  <1> DEFINE title == {i \in DOMAIN s : s[i] \notin LeadingJunk}
  <1>1. Len(s) \in Nat /\ DOMAIN s \subseteq Nat \ {0}
    BY ListFacts, PlacesAreNumbers DEF Words
  <1>2. CASE title = {}
    <2>1. Words(<<>>)
      BY DEF Words, IsList, ToSet
    <2> QED
      BY <1>2, <2>1 DEF DropLead
  <1>3. CASE title # {}
    <2>1. title \in SUBSET Nat
      BY <1>1
    <2>2. FirstOf(title) \in title
      BY <1>3, <2>1, FirstIsOne
    <2>3. FirstOf(title) \in Nat \ {0}
      BY <1>1, <2>2
    <2>4. DropLead(s) = SubSeq(s, FirstOf(title), Len(s))
      BY <1>3 DEF DropLead, From
    <2> HIDE DEF title
    <2> QED
      BY <1>1, <2>3, <2>4, PartWords
  <1> QED
    BY <1>2, <1>3

LEMMA CleanTitleFacts ==
  ASSUME NEW words, Words(words)
  PROVE  Words(CleanTitle(words).title) /\ IsFiniteSet(CleanTitle(words).year)
  <1> DEFINE years == {i \in DOMAIN words : IsYear(words[i])}
             ends == {i \in years : \E j \in (i + 1) .. Len(words) : Plain(words[j])}
             before == IF ends = {} THEN words ELSE SubSeq(words, 1, FirstOf(ends) - 1)
             plain == {i \in DOMAIN before : Plain(before[i])}
             kept == DropLead(At(before, plain))
             last == IF ends # {} THEN {FirstOf(ends)}
                     ELSE {i \in years : \A j \in years : j <= i}
             title == IF kept = <<>> THEN At(words, DOMAIN words \ years) ELSE kept
             year == {Number[words[i]] : i \in last}
  <1>1. /\ Len(words) \in Nat /\ DOMAIN words \subseteq Nat \ {0} /\ IsFiniteSet(DOMAIN words)
        /\ \A i \in DOMAIN words : i <= Len(words)
    BY ListFacts, PlacesAreNumbers DEF Words
  <1>2. ends # {} => FirstOf(ends) \in ends
    <2>1. ends \in SUBSET Nat
      BY <1>1
    <2> HIDE DEF ends
    <2> QED
      BY <2>1, FirstIsOne
  <1>3. Words(before)
    <2>1. CASE ends = {}
      BY <2>1
    <2>2. CASE ends # {}
      <3>1. PICK n : n = FirstOf(ends) - 1
        OBVIOUS
      <3>2. n \in Int /\ n <= Len(words)
        BY <1>1, <1>2, <2>2, <3>1
      <3>3. Words(SubSeq(words, 1, n))
        BY <3>2, PartWords
      <3> QED
        BY <2>2, <3>1, <3>3
    <2> QED
      BY <2>1, <2>2
  <1> HIDE DEF before
  <1>4. Words(kept)
    BY <1>3, AtWords, DropLeadWords
  <1>5. Words(At(words, DOMAIN words \ years))
    BY AtWords
  <1> HIDE DEF kept
  <1>6. Words(title)
    BY <1>4, <1>5
  <1>7. last \subseteq DOMAIN words
    BY <1>2
  <1>8. IsFiniteSet(year)
    <2>1. IsFiniteSet(last)
      <3> HIDE DEF last
      <3> QED
        BY <1>1, <1>7, FS_Subset
    <2> DEFINE f == [i \in last |-> Number[words[i]]]
    <2>2. year = {f[i] : i \in last}
      OBVIOUS
    <2> HIDE DEF f, last, year
    <2>3. IsFiniteSet({f[i] : i \in last})
      BY <2>1, ValuesAreFinite
    <2> QED
      BY <2>2, <2>3
  <1>9. CleanTitle(words) = [title |-> title, year |-> year]
    BY DEF CleanTitle, before, kept
  <1> HIDE DEF title, year
  <1> QED
    BY <1>6, <1>8, <1>9

LEMMA ValueIsNumber ==
  ASSUME NEW words, NEW i
  PROVE  ValueAt(words, i) \subseteq Nat
  BY NumberAssumption DEF ValueAt

LEMMA MarksAreNumbers ==
  ASSUME NEW words, IsList(words)
  PROVE  \A x \in FindEpisodeMarker(words) : x.at \in DOMAIN words /\ x.season \subseteq Nat /\ x.episode \subseteq Nat
  <1>1. ASSUME NEW ws, NEW i PROVE EpisodeHere(ws, i) \subseteq Nat
    BY MarksAssumption, ValueIsNumber DEF EpisodeHere
  <1>2. ASSUME NEW ws PROVE EpisodeAfterSeason(ws) \subseteq Nat
    <2> DEFINE said(i) == EpisodeHere(ws, i) \cup (IF IsNumberUpTo(ws[i], 999) THEN ValueAt(ws, i) ELSE {})
               hits == {i \in DOMAIN ws : said(i) # {}}
    <2>1. ASSUME NEW i PROVE said(i) \subseteq Nat
      BY <1>1, ValueIsNumber
    <2>2. EpisodeAfterSeason(ws) = IF hits = {} THEN {} ELSE said(FirstOf(hits))
      BY DEF EpisodeAfterSeason
    <2> HIDE DEF said
    <2> QED
      BY <2>1, <2>2
  <1>3. ASSUME NEW i \in DOMAIN words, NEW x \in MarkAt(words, i)
        PROVE  x.at \in DOMAIN words /\ x.season \subseteq Nat /\ x.episode \subseteq Nat
    <2>1. PICK w : w = words[i]
      OBVIOUS
    <2>2. \A next : EpisodeAfterSeason(From(words, next)) \subseteq Nat
      BY <1>2
    <2>3. ValueAt(words, i + 1) \subseteq Nat
      BY ValueIsNumber
    <2>4. w \in DOMAIN Marks => Marks[w].season \subseteq Nat /\ Marks[w].episode \subseteq Nat
      BY MarksAssumption
    <2>5. \E season, episode : /\ x = [at |-> i, season |-> season, episode |-> episode]
                               /\ season \subseteq Nat /\ episode \subseteq Nat
      BY <1>3, <2>1, <2>2, <2>3, <2>4 DEF MarkAt
    <2> QED
      BY <2>5
  <1>4. FindEpisodeMarker(words) = {} \/ \E i \in DOMAIN words : FindEpisodeMarker(words) = MarkAt(words, i)
    <2> DEFINE hits == {i \in DOMAIN words : MarkAt(words, i) # {}}
    <2>1. hits \in SUBSET Nat
      BY PlacesAreNumbers
    <2>2. hits # {} => FirstOf(hits) \in hits
      <3> HIDE DEF hits
      <3> QED
        BY <2>1, FirstIsOne
    <2> QED
      BY <2>2 DEF FindEpisodeMarker
  <1> QED
    BY <1>3, <1>4

LEMMA ParseFacts ==
  ASSUME NEW words, Words(words), NEW years, IsFiniteSet(years),
         NEW p, p = ParseWords(words, years)
  PROVE  /\ Words(p.title) /\ p.season \subseteq Nat /\ p.episode \subseteq Nat
         /\ IsFiniteSet(p.year) /\ IsFiniteSet(p.quality)
  <1>1. PICK mark : mark = FindEpisodeMarker(words)
    OBVIOUS
  <1>2. \A x \in mark : x.at \in DOMAIN words /\ x.season \subseteq Nat /\ x.episode \subseteq Nat
    BY <1>1, MarksAreNumbers DEF Words
  <1>3. PICK before : before = BeforeMark(words, mark)
    OBVIOUS
  <1>4. Words(before)
    <2>1. CASE mark = {}
      BY <1>3, <2>1 DEF BeforeMark
    <2>2. CASE mark # {}
      <3>1. PICK n : n = (CHOOSE x \in mark : TRUE).at - 1
        OBVIOUS
      <3>2. (CHOOSE x \in mark : TRUE).at \in DOMAIN words
        BY <1>2, <2>2
      <3>3. n \in Int /\ n <= Len(words)
        BY <3>1, <3>2, ListFacts, PlacesAreNumbers DEF Words
      <3>4. Words(SubSeq(words, 1, n))
        BY <3>3, PartWords
      <3> QED
        BY <1>3, <2>2, <3>1, <3>4 DEF BeforeMark
    <2> QED
      BY <2>1, <2>2
  <1>5. PICK clean : clean = CleanTitle(before)
    OBVIOUS
  <1>6. Words(clean.title) /\ IsFiniteSet(clean.year)
    BY <1>4, <1>5, CleanTitleFacts
  <1>7. p = Said(words, years, mark, clean)
    BY <1>1, <1>3, <1>5 DEF ParseWords, SaidAround
  <1>8. Words(<<>>) /\ IsFiniteSet({}) /\ \A x : IsFiniteSet({x})
    <2>1. Words(<<>>)
      BY DEF Words, IsList, ToSet
    <2>2. IsFiniteSet({}) /\ \A x : IsFiniteSet({x})
      BY FS_EmptySet, FS_Singleton
    <2> QED
      BY <2>1, <2>2
  <1>9. p.title \in {<<>>, clean.title} /\ p.year \in {years, clean.year}
    BY <1>7 DEF Said
  <1>10. p.season = UNION {x.season : x \in mark} /\ p.episode = UNION {x.episode : x \in mark}
    BY <1>7 DEF Said
  <1>11. p.quality = {} \/ \E x : p.quality = {x}
    <2> DEFINE sharp == {i \in DOMAIN words : words[i] \in Quality}
    <2>1. p.quality = IF sharp = {} THEN {} ELSE {words[FirstOf(sharp)]}
      BY <1>7 DEF Said
    <2> HIDE DEF sharp
    <2> QED
      BY <2>1
  <1>12. p.season \subseteq Nat /\ p.episode \subseteq Nat
    BY <1>2, <1>10
  <1> QED
    BY <1>6, <1>8, <1>9, <1>11, <1>12

LEMMA NamesAreParsed ==
  ASSUME NEW name, KnownName(name)
  PROVE  /\ Words(ParseFile(name).title) /\ ParseFile(name).season \subseteq Nat
         /\ ParseFile(name).episode \subseteq Nat
         /\ IsFiniteSet(ParseFile(name).year) /\ IsFiniteSet(ParseFile(name).quality)
         /\ Words(ParseBare(name).title) /\ ParseBare(name).season \subseteq Nat
         /\ ParseBare(name).episode \subseteq Nat
  <1>1. Words(SubSeq(name.words, 1, Len(name.words) - 1))
    <2>1. PICK n : n = Len(name.words) - 1
      OBVIOUS
    <2>2. n \in Int /\ n <= Len(name.words)
      BY <2>1, ListFacts DEF KnownName, Words
    <2> QED
      BY <2>1, <2>2, PartWords DEF KnownName
  <1> QED
    BY <1>1, ParseFacts DEF ParseFile, ParseBare, KnownName

-----------------------------------------------------------------------------
(* Titles.                                                                 *)

LEMMA EpisodeTitled ==
  ASSUME NEW p, IsFiniteSet(p.quality)
  PROVE  IsList(EpisodeTitle(p))
  <1> DEFINE a == <<"S", ToString(p.season)>>
             b == IF p.number > 0 THEN <<"E", ToString(p.number)>> ELSE <<>>
             c == [k \in 1 .. Cardinality(p.quality) |-> CHOOSE q \in p.quality : TRUE]
  <1>1. IsList(a)
    BY DEF IsList, ToSet
  <1>2. IsList(b)
    <2>1. IsList(<<>>) /\ IsList(<<"E", ToString(p.number)>>)
      BY DEF IsList, ToSet
    <2> QED
      BY <2>1
  <1>3. IsList(c)
    <2>1. Cardinality(p.quality) \in Nat
      BY FS_CardinalityType
    <2>2. c = [k \in 1 .. Cardinality(p.quality) |-> c[k]]
      OBVIOUS
    <2> QED
      BY <2>1, <2>2, ListIntro
  <1>4. EpisodeTitle(p) = a \o b \o c
    BY DEF EpisodeTitle
  <1> HIDE DEF a, b, c
  <1> QED
    BY <1>1, <1>2, <1>3, <1>4, JoinIsList

LEMMA MovieTitled ==
  ASSUME NEW words, IsList(words), NEW p, IsList(p.title), IsFiniteSet(p.year)
  PROVE  IsList(MovieTitle(words, p))
  <1> DEFINE c == [k \in 1 .. Cardinality(p.year) |-> ToString(CHOOSE y \in p.year : TRUE)]
  <1>1. IsList(c)
    <2>1. Cardinality(p.year) \in Nat
      BY FS_CardinalityType
    <2>2. c = [k \in 1 .. Cardinality(p.year) |-> c[k]]
      OBVIOUS
    <2> QED
      BY <2>1, <2>2, ListIntro
  <1>2. MovieTitle(words, p) = IF p.title = <<>> THEN words ELSE p.title \o c
    BY DEF MovieTitle
  <1> HIDE DEF c
  <1> QED
    BY <1>1, <1>2, JoinIsList

LEMMA LengthIsNumber ==
  ASSUME NEW t, Words(t)
  PROVE  LengthOf(t) \in Nat
  <1> DEFINE letters(i) == {i} \X (0 .. Letters[t[i]])
             all == {letters(i) : i \in DOMAIN t}
  <1>1. \A i \in DOMAIN t : Letters[t[i]] \in Nat
    BY ShelvesAssumption DEF Words, ToSet
  <1>2. \A i \in DOMAIN t : IsFiniteSet(letters(i))
    <2> TAKE i \in DOMAIN t
    <2>1. IsFiniteSet({i}) /\ 0 \in Int /\ Letters[t[i]] \in Int
      BY <1>1, FS_Singleton
    <2>2. IsFiniteSet(0 .. Letters[t[i]])
      BY <2>1, FS_Interval
    <2> QED
      BY <2>1, <2>2, FS_Product
  <1>3. IsFiniteSet(all)
    <2> DEFINE f == [i \in DOMAIN t |-> letters(i)]
    <2>1. all = {f[i] : i \in DOMAIN t}
      OBVIOUS
    <2>2. IsFiniteSet(DOMAIN t)
      BY ListFacts DEF Words
    <2> HIDE DEF f, all
    <2>3. IsFiniteSet({f[i] : i \in DOMAIN t})
      BY <2>2, ValuesAreFinite
    <2> QED
      BY <2>1, <2>3
  <1>4. \A S \in all : IsFiniteSet(S)
    BY <1>2
  <1>5. LengthOf(t) = Cardinality(UNION all)
    BY DEF LengthOf
  <1> HIDE DEF all
  <1> QED
    BY <1>3, <1>4, <1>5, FS_UNION, FS_CardinalityType

\* A finite set of numbers has a largest one.
LEMMA LargestNumber ==
  ASSUME NEW S \in SUBSET Nat, IsFiniteSet(S), S # {}
  PROVE  \E m \in S : \A k \in S : k <= m
  <1> DEFINE lt == {p \in S \X S : p[1] < p[2]}
             n == Cardinality(S)
  <1>1. Linear(S, lt)
    BY DEF Linear
  <1>2. n \in Nat \ {0}
    BY FS_CardinalityType, FS_EmptySet
  <1>3. PICK m \in S : Place1(S, lt, m) = n
    <2>1. n \in 1 .. n
      BY <1>2
    <2> HIDE DEF lt
    <2> QED
      BY <1>1, <2>1, PlacesInOrder
  <1>4. ASSUME NEW k \in S, m < k PROVE FALSE
    <2>1. Place1(S, lt, k) \in 1 .. n /\ Place1(S, lt, k) # n
      <3>1. Place1(S, lt, k) \in 1 .. n /\ (Place1(S, lt, k) = Place1(S, lt, m) => k = m)
        <4> HIDE DEF lt
        <4> QED
          BY <1>1, PlacesInOrder
      <3> QED
        BY <1>3, <1>4, <3>1
    <2>2. Below(S, lt, m) \cup {m} \subseteq Below(S, lt, k) /\ m \notin Below(S, lt, m)
      <3>1. Below(S, lt, m) = {b \in S : b < m} /\ Below(S, lt, k) = {b \in S : b < k}
        BY <1>4 DEF Below
      <3>2. (\A b \in S : b < m => b < k) /\ m \in S /\ m < k /\ ~(m < m)
        BY <1>3, <1>4
      <3> HIDE DEF lt
      <3> QED
        BY <3>1, <3>2
    <2>3. IsFiniteSet(Below(S, lt, k)) /\ IsFiniteSet(Below(S, lt, m))
      BY FS_Subset DEF Below
    <2>4. Cardinality(Below(S, lt, m)) + 1 <= Cardinality(Below(S, lt, k))
      <3>1. Cardinality(Below(S, lt, m) \cup {m}) = Cardinality(Below(S, lt, m)) + 1
        BY <2>2, <2>3, FS_AddElement
      <3> QED
        BY <2>2, <2>3, <3>1, FS_Subset
    <2> QED
      BY <1>2, <1>3, <2>1, <2>3, <2>4, FS_CardinalityType DEF Place1
  <1> QED
    BY <1>4

LEMMA GroupTitled ==
  ASSUME NEW slug, Words(slug), NEW places, IsFiniteSet(places), \A p \in places : Words(p.said)
  PROVE  Words(GroupTitle(slug, places))
  <1> DEFINE names == {slug} \cup {p.said : p \in places}
             lengths == {LengthOf(t) : t \in names}
  <1>1. IsFiniteSet(names)
    <2> DEFINE f == [p \in places |-> p.said]
    <2>1. {p.said : p \in places} = {f[p] : p \in places}
      OBVIOUS
    <2> HIDE DEF f
    <2>2. IsFiniteSet({f[p] : p \in places})
      BY ValuesAreFinite
    <2> QED
      BY <2>1, <2>2, FS_Singleton, FS_Union
  <1>2. \A t \in names : Words(t)
    OBVIOUS
  <1>3. lengths \in SUBSET Nat /\ lengths # {}
    BY <1>2, LengthIsNumber
  <1>4. IsFiniteSet(lengths)
    <2> DEFINE f == [t \in names |-> LengthOf(t)]
    <2>1. lengths = {f[t] : t \in names}
      OBVIOUS
    <2> HIDE DEF f, names, lengths
    <2>2. IsFiniteSet({f[t] : t \in names})
      BY <1>1, ValuesAreFinite
    <2> QED
      BY <2>1, <2>2
  <1>5. PICK m \in lengths : \A k \in lengths : k <= m
    <2> HIDE DEF lengths
    <2> QED
      BY <1>3, <1>4, LargestNumber
  <1>6. \E t \in names : \A u \in names : LengthOf(t) >= LengthOf(u)
    <2>1. PICK t \in names : m = LengthOf(t)
      BY <1>5
    <2>2. \A u \in names : LengthOf(u) \in Nat /\ LengthOf(u) <= m
      BY <1>3, <1>5
    <2> QED
      BY <2>1, <2>2
  <1>7. GroupTitle(slug, places) \in names
    <2>1. GroupTitle(slug, places) = CHOOSE t \in names : \A u \in names : LengthOf(t) >= LengthOf(u)
      BY DEF GroupTitle
    <2> HIDE DEF names
    <2> QED
      BY <1>6, <2>1
  <1> QED
    BY <1>2, <1>7

-----------------------------------------------------------------------------
(* What is read of a root.                                                 *)

\* A function that is defined step by step exists.
LEMMA Iteration ==
  ASSUME NEW n \in Nat, NEW V, NEW a \in V, NEW next \in [V -> V]
  PROVE  \E f \in [0 .. n -> V] : f[0] = a /\ \A k \in 1 .. n : f[k] = next[f[k - 1]]
  <1> DEFINE IsOne(f, m) == f \in [0 .. m -> V] /\ f[0] = a /\ \A k \in 1 .. m : f[k] = next[f[k - 1]]
             S == {m \in 0 .. n : ~\E f : IsOne(f, m)}
  <1>1. S = {}
    <2> SUFFICES ASSUME S # {} PROVE FALSE
      OBVIOUS
    <2>1. PICK m \in S : \A k \in S : ~(k < m)
      <3>1. S \in SUBSET Nat
        OBVIOUS
      <3> HIDE DEF S
      <3> QED
        BY <3>1, LeastNumber
    <2>2. CASE m = 0
      <3>1. IsOne([k \in 0 .. 0 |-> a], 0)
        OBVIOUS
      <3> QED
        BY <2>1, <2>2, <3>1
    <2>3. CASE m # 0
      <3>1. m - 1 \in 0 .. n /\ m - 1 < m /\ m \in 1 .. n
        BY <2>1, <2>3
      <3>2. m - 1 \notin S
        BY <2>1, <3>1
      <3>3. PICK f : IsOne(f, m - 1)
        BY <3>1, <3>2
      <3>4. PICK b : b = next[f[m - 1]]
        OBVIOUS
      <3>5. f[m - 1] \in V /\ b \in V
        <4>1. m - 1 \in 0 .. m - 1
          BY <3>1
        <4> QED
          BY <3>3, <3>4, <4>1
      <3>6. PICK g : g = [k \in 0 .. m |-> IF k = m THEN b ELSE f[k]]
        OBVIOUS
      <3>7. g \in [0 .. m -> V] /\ g[0] = a
        BY <3>1, <3>3, <3>5, <3>6
      <3>8. ASSUME NEW k \in 1 .. m PROVE g[k] = next[g[k - 1]]
        <4>1. k - 1 \in 0 .. m - 1 /\ k - 1 # m /\ k - 1 \in 0 .. m
          BY <3>1
        <4>2. g[k - 1] = f[k - 1]
          BY <3>6, <4>1
        <4>3. CASE k = m
          BY <3>4, <3>6, <4>2, <4>3
        <4>4. CASE k # m
          <5>1. k \in 1 .. m - 1 /\ k \in 0 .. m
            BY <3>1, <4>4
          <5>2. g[k] = f[k]
            BY <3>6, <4>4, <5>1
          <5> QED
            BY <3>3, <4>2, <5>1, <5>2
        <4> QED
          BY <4>3, <4>4
      <3>9. IsOne(g, m)
        BY <3>7, <3>8
      <3> QED
        BY <2>1, <3>9
    <2> QED
      BY <2>2, <2>3
  <1>2. n \in 0 .. n
    OBVIOUS
  <1>3. \E f : IsOne(f, n)
    BY <1>1, <1>2
  <1> QED
    BY <1>3

LEMMA SixSteps ==
  ASSUME NEW V, NEW a \in V, NEW next \in [V -> V]
  PROVE  \E f \in [0 .. 6 -> V] : f[0] = a /\ \A k \in 1 .. 6 : f[k] = next[f[k - 1]]
  <1>1. \A n \in Nat : \E f \in [0 .. n -> V] : f[0] = a /\ \A k \in 1 .. n : f[k] = next[f[k - 1]]
    <2> TAKE n \in Nat
    <2> QED
      BY Iteration, Z3
  <1>2. 6 \in Nat
    OBVIOUS
  <1> QED
    BY <1>1, <1>2, Zenon

LEMMA FoldersFacts ==
  ASSUME NEW d, NEW root
  PROVE  /\ FoldersAt(d, root)[0] = {root.id}
         /\ \A n \in 1 .. MaxDepth : FoldersAt(d, root)[n] =
               {e.id : e \in {x \in ToSet(d.entries) : x.ext = "dir" /\ x.parent \in FoldersAt(d, root)[n - 1]}}
  <1> DEFINE V == SUBSET ({root.id} \cup EntryIds(d))
             further(S) == {e.id : e \in {x \in ToSet(d.entries) : x.ext = "dir" /\ x.parent \in S}}
             next == [S \in V |-> further(S)]
             IsFolders(f) == f = [n \in 0 .. MaxDepth |-> IF n = 0 THEN {root.id} ELSE further(f[n - 1])]
  <1>1. MaxDepth \in Nat
    BY ShelvesAssumption
  <1>2. next \in [V -> V] /\ {root.id} \in V
    BY DEF EntryIds
  <1>3. PICK f \in [0 .. MaxDepth -> V] : f[0] = {root.id} /\ \A k \in 1 .. MaxDepth : f[k] = next[f[k - 1]]
    <2> HIDE DEF V, next
    <2> QED
      BY <1>1, <1>2, Iteration
  <1>4. ASSUME NEW n \in 0 .. MaxDepth PROVE f[n] = IF n = 0 THEN {root.id} ELSE further(f[n - 1])
    <2>1. n # 0 => n \in 1 .. MaxDepth /\ n - 1 \in 0 .. MaxDepth
      BY <1>1
    <2>2. n # 0 => f[n - 1] \in V
      BY <1>3, <2>1
    <2>3. n # 0 => f[n] = next[f[n - 1]]
      BY <1>3, <2>1
    <2> HIDE DEF V, further
    <2>4. n # 0 => f[n] = further(f[n - 1])
      BY <2>2, <2>3
    <2> QED
      BY <1>3, <2>4
  <1>5. IsFolders(f)
    <2> HIDE DEF further
    <2> QED
      BY <1>3, <1>4
  <1>6. FoldersAt(d, root) = CHOOSE g : IsFolders(g)
    BY DEF FoldersAt
  <1>7. PICK g : g = FoldersAt(d, root)
    OBVIOUS
  <1>8. IsFolders(g)
    <2> HIDE DEF IsFolders
    <2> QED
      BY <1>5, <1>6, <1>7
  <1>9. g[0] = {root.id} /\ \A n \in 1 .. MaxDepth : g[n] = further(g[n - 1])
    <2> HIDE DEF further
    <2>1. \A n \in 0 .. MaxDepth : g[n] = IF n = 0 THEN {root.id} ELSE further(g[n - 1])
      BY <1>8
    <2>2. 0 \in 0 .. MaxDepth /\ \A n \in 1 .. MaxDepth : n \in 0 .. MaxDepth /\ n # 0
      BY <1>1
    <2> HIDE DEF IsFolders
    <2> QED
      BY <2>1, <2>2
  <1> QED
    BY <1>7, <1>9

\* The folders above a node are nodes that are the parent of the node, or of
\* one of those folders; at most six of them, one after the other.
LEMMA AboveFacts ==
  ASSUME NEW cat, NEW id, NEW S, id \in S, \A x \in S \cap DOMAIN cat : cat[x].parent \in S \cup {Top},
         Top \notin DOMAIN cat
  PROVE  \E n \in Nat : /\ DOMAIN FoldersAbove(cat, id) = 1 .. n
                        /\ \A k \in 1 .. n : FoldersAbove(cat, id)[k] \in S \cap DOMAIN cat
  <1> DEFINE V == S \cup {Top}
             above(x) == IF x \in DOMAIN cat THEN cat[x].parent ELSE Top
             next == [x \in V |-> above(x)]
             IsUp(f) == f = [k \in 0 .. 6 |-> IF k = 0 THEN id ELSE above(f[k - 1])]
  <1>1. next \in [V -> V] /\ id \in V /\ 6 \in Nat
    OBVIOUS
  <1>2. PICK f \in [0 .. 6 -> V] : f[0] = id /\ \A k \in 1 .. 6 : f[k] = next[f[k - 1]]
    <2> HIDE DEF V, next
    <2> QED
      BY <1>1, SixSteps
  <1>3. ASSUME NEW k \in 0 .. 6 PROVE f[k] = IF k = 0 THEN id ELSE above(f[k - 1])
    <2>1. k # 0 => k \in 1 .. 6 /\ k - 1 \in 0 .. 6
      OBVIOUS
    <2>2. k # 0 => f[k - 1] \in V
      BY <1>2, <2>1
    <2>3. k # 0 => f[k] = next[f[k - 1]]
      BY <1>2, <2>1
    <2> HIDE DEF V, above
    <2>4. k # 0 => f[k] = above(f[k - 1])
      BY <2>2, <2>3
    <2> QED
      BY <1>2, <2>4
  <1>4. IsUp(f)
    <2> HIDE DEF above
    <2> QED
      BY <1>2, <1>3
  <1>5. PICK g : g = CHOOSE h : IsUp(h)
    OBVIOUS
  <1>6. IsUp(g)
    <2> HIDE DEF IsUp
    <2> QED
      BY <1>4, <1>5
  <1> DEFINE hops == {k \in 1 .. 6 : \A j \in 1 .. k : g[j] \in DOMAIN cat}
  <1>7. FoldersAbove(cat, id) = [k \in hops |-> g[k]]
    BY <1>5 DEF FoldersAbove
  <1>8. g[0] = id /\ \A k \in 1 .. 6 : g[k] = above(g[k - 1])
    <2> HIDE DEF above
    <2> QED
      BY <1>6
  <1>9. ASSUME NEW k \in hops PROVE g[k] \in S \cap DOMAIN cat
    <2> DEFINE bad == {j \in 1 .. k : g[j] \notin S}
    <2>1. k \in 1 .. 6 /\ \A j \in 1 .. k : g[j] \in DOMAIN cat
      OBVIOUS
    <2>2. bad = {}
      <3> SUFFICES ASSUME bad # {} PROVE FALSE
        OBVIOUS
      <3>1. PICK j \in bad : \A i \in bad : ~(i < j)
        <4>1. bad \in SUBSET Nat
          BY <2>1
        <4> HIDE DEF bad
        <4> QED
          BY <4>1, LeastNumber
      <3>2. j \in 1 .. 6 /\ j \in 1 .. k /\ g[j] \in DOMAIN cat /\ g[j] \notin S
        BY <2>1, <3>1
      <3>3. g[j - 1] \in S
        <4>1. CASE j = 1
          BY <1>8, <4>1
        <4>2. CASE j # 1
          <5>1. j - 1 \in 1 .. k /\ j - 1 < j
            BY <2>1, <3>2, <4>2
          <5> QED
            BY <3>1, <5>1
        <4> QED
          BY <4>1, <4>2
      <3>4. g[j] = above(g[j - 1])
        BY <1>8, <3>2
      <3> QED
        BY <3>2, <3>3, <3>4
    <2> QED
      BY <2>1, <2>2
  <1>10. \E n \in 0 .. 6 : hops = 1 .. n
    <2> DEFINE out == {k \in 1 .. 7 : k = 7 \/ g[k] \notin DOMAIN cat}
    <2>1. PICK m \in out : \A k \in out : ~(k < m)
      <3>1. out \in SUBSET Nat /\ 7 \in out
        OBVIOUS
      <3> HIDE DEF out
      <3> QED
        BY <3>1, LeastNumber
    <2>2. \A j \in 1 .. m - 1 : g[j] \in DOMAIN cat
      <3> TAKE j \in 1 .. m - 1
      <3>1. j \in 1 .. 7 /\ j < m
        BY <2>1
      <3> QED
        BY <2>1, <3>1
    <2>3. m = 7 \/ (m \in 1 .. 6 /\ g[m] \notin DOMAIN cat)
      BY <2>1
    <2>4. hops = 1 .. m - 1
      <3>1. ASSUME NEW k \in 1 .. m - 1 PROVE k \in hops
        <4>1. k \in 1 .. 6 /\ \A j \in 1 .. k : j \in 1 .. m - 1
          BY <2>1
        <4> QED
          BY <2>2, <4>1
      <3>2. ASSUME NEW k \in hops PROVE k \in 1 .. m - 1
        <4>1. k \in 1 .. 6 /\ \A j \in 1 .. k : g[j] \in DOMAIN cat
          OBVIOUS
        <4>2. m \in 1 .. 7
          BY <2>1
        <4>3. ~(m \in 1 .. k)
          BY <2>3, <4>1
        <4> QED
          BY <4>1, <4>2, <4>3
      <3> QED
        BY <3>1, <3>2
    <2>5. m - 1 \in 0 .. 6
      BY <2>1
    <2> QED
      BY <2>4, <2>5
  <1> HIDE DEF hops
  <1> QED
    BY <1>7, <1>9, <1>10

LEMMA JoinFacts ==
  ASSUME NEW s, NEW t, IsList(s), IsList(t)
  PROVE  /\ ToSet(s \o t) = ToSet(s) \cup ToSet(t)
         /\ IsInjective(s) /\ IsInjective(t) /\ ToSet(s) \cap ToSet(t) = {} => IsInjective(s \o t)
  <1>1. PICK m, n : m = Len(s) /\ n = Len(t)
    OBVIOUS
  <1>2. m \in Nat /\ n \in Nat /\ DOMAIN s = 1 .. m /\ DOMAIN t = 1 .. n
    BY <1>1, ListFacts
  <1>3. PICK q : q = s \o t
    OBVIOUS
  <1>4. s \in Seq(ToSet(s) \cup ToSet(t)) /\ t \in Seq(ToSet(s) \cup ToSet(t))
    BY DEF IsList
  <1>5. /\ DOMAIN q = 1 .. m + n
        /\ \A i \in 1 .. m : q[i] = s[i]
        /\ \A i \in m + 1 .. m + n : q[i] = t[i - m]
    BY <1>1, <1>2, <1>3, <1>4
  <1>6. \A j \in 1 .. n : q[m + j] = t[j] /\ m + j \in 1 .. m + n
    <2> TAKE j \in 1 .. n
    <2>1. m + j \in m + 1 .. m + n /\ m + j - m = j
      BY <1>2
    <2> QED
      BY <1>2, <1>5, <2>1
  <1>7. \A i \in 1 .. m + n : i \in 1 .. m \/ (i - m \in 1 .. n /\ i \in m + 1 .. m + n)
    BY <1>2
  <1>8. ToSet(q) = ToSet(s) \cup ToSet(t)
    <2>1. \A i \in 1 .. m + n : q[i] \in ToSet(s) \cup ToSet(t)
      BY <1>2, <1>5, <1>7 DEF ToSet
    <2>2. \A i \in 1 .. m : i \in 1 .. m + n
      BY <1>2
    <2>3. \A i \in 1 .. m : s[i] \in ToSet(q)
      BY <1>5, <2>2 DEF ToSet
    <2>4. \A j \in 1 .. n : t[j] \in ToSet(q)
      BY <1>5, <1>6 DEF ToSet
    <2> QED
      BY <1>2, <1>5, <2>1, <2>3, <2>4 DEF ToSet
  <1>9. ASSUME IsInjective(s), IsInjective(t), ToSet(s) \cap ToSet(t) = {},
               NEW i \in 1 .. m + n, NEW j \in 1 .. m + n, q[i] = q[j]
        PROVE  i = j
    <2>1. \A a \in 1 .. m, b \in 1 .. n : s[a] # t[b]
      BY <1>2, <1>9 DEF ToSet
    <2>2. \A a, b \in 1 .. m : s[a] = s[b] => a = b
      BY <1>2, <1>9 DEF IsInjective
    <2>3. \A a, b \in 1 .. n : t[a] = t[b] => a = b
      BY <1>2, <1>9 DEF IsInjective
    <2>4. i \in 1 .. m \/ (i - m \in 1 .. n /\ q[i] = t[i - m])
      BY <1>5, <1>7
    <2>5. j \in 1 .. m \/ (j - m \in 1 .. n /\ q[j] = t[j - m])
      BY <1>5, <1>7
    <2>6. CASE i \in 1 .. m /\ j \in 1 .. m
      BY <1>5, <1>9, <2>2, <2>6
    <2>7. CASE i - m \in 1 .. n /\ q[i] = t[i - m] /\ j - m \in 1 .. n /\ q[j] = t[j - m]
      <3>1. i - m = j - m
        BY <1>9, <2>3, <2>7
      <3> QED
        BY <1>2, <3>1
    <2>8. CASE i \in 1 .. m /\ j - m \in 1 .. n /\ q[j] = t[j - m]
      BY <1>5, <1>9, <2>1, <2>8
    <2>9. CASE j \in 1 .. m /\ i - m \in 1 .. n /\ q[i] = t[i - m]
      BY <1>5, <1>9, <2>1, <2>9
    <2> QED
      BY <2>4, <2>5, <2>6, <2>7, <2>8, <2>9
  <1>10. IsInjective(s) /\ IsInjective(t) /\ ToSet(s) \cap ToSet(t) = {} => IsInjective(q)
    BY <1>5, <1>9 DEF IsInjective
  <1> QED
    BY <1>3, <1>8, <1>10

LEMMA ReverseFacts ==
  ASSUME NEW s, IsList(s)
  PROVE  ToSet(Reverse(s)) = ToSet(s) /\ (IsInjective(s) => IsInjective(Reverse(s)))
  <1>1. PICK n : n = Len(s)
    OBVIOUS
  <1>2. n \in Nat /\ DOMAIN s = 1 .. n
    BY <1>1, ListFacts
  <1>3. PICK q : q = Reverse(s)
    OBVIOUS
  <1>4. DOMAIN q = 1 .. n /\ \A i \in 1 .. n : q[i] = s[(n - i) + 1]
    BY <1>1, <1>2, <1>3 DEF Reverse
  <1>5. \A i \in 1 .. n : (n - i) + 1 \in 1 .. n /\ (n - ((n - i) + 1)) + 1 = i
    BY <1>2
  <1>6. ToSet(q) = ToSet(s)
    <2>1. \A i \in 1 .. n : q[i] \in ToSet(s)
      BY <1>2, <1>4, <1>5 DEF ToSet
    <2>2. \A i \in 1 .. n : s[i] = q[(n - i) + 1]
      <3> TAKE i \in 1 .. n
      <3>1. PICK j : j = (n - i) + 1
        OBVIOUS
      <3>2. j \in 1 .. n /\ (n - j) + 1 = i
        BY <1>5, <3>1
      <3> QED
        BY <1>4, <3>1, <3>2
    <2>3. \A i \in 1 .. n : s[i] \in ToSet(q)
      BY <1>4, <1>5, <2>2 DEF ToSet
    <2> QED
      BY <1>2, <1>4, <2>1, <2>3 DEF ToSet
  <1>7. ASSUME IsInjective(s), NEW i \in 1 .. n, NEW j \in 1 .. n, q[i] = q[j] PROVE i = j
    <2>1. s[(n - i) + 1] = s[(n - j) + 1]
      BY <1>4, <1>7
    <2>2. (n - i) + 1 = (n - j) + 1
      BY <1>2, <1>5, <1>7, <2>1 DEF IsInjective
    <2> QED
      BY <1>2, <2>2
  <1> QED
    BY <1>3, <1>4, <1>6, <1>7 DEF IsInjective

\* A list whose elements are renamed, each to a name of its own.
LEMMA RenamedFacts ==
  ASSUME NEW s, IsList(s), NEW f, NEW q, q = [k \in DOMAIN s |-> f[s[k]]]
  PROVE  /\ IsList(q) /\ ToSet(q) = {f[x] : x \in ToSet(s)}
         /\ IsInjective(s) /\ (\A x, y \in ToSet(s) : f[x] = f[y] => x = y) => IsInjective(q)
  <1>1. PICK n : n = Len(s)
    OBVIOUS
  <1>2. n \in Nat /\ DOMAIN s = 1 .. n
    BY <1>1, ListFacts
  <1>3. q = [k \in 1 .. n |-> q[k]] /\ DOMAIN q = 1 .. n
    BY <1>2
  <1>4. IsList(q)
    BY <1>2, <1>3, ListIntro
  <1>5. ToSet(q) = {f[x] : x \in ToSet(s)}
    BY <1>2 DEF ToSet
  <1>6. IsInjective(s) /\ (\A x, y \in ToSet(s) : f[x] = f[y] => x = y) => IsInjective(q)
    BY <1>2 DEF IsInjective, ToSet
  <1> QED
    BY <1>4, <1>5, <1>6

-----------------------------------------------------------------------------
(* The tree below a root.                                                  *)

\* Whatever is listed is there, knows its folder, and is listed once.
Listed(cat) ==
  \A up \in DOMAIN cat :
     /\ IsInjective(cat[up].children)
     /\ \A id \in ToSet(cat[up].children) : id \in DOMAIN cat /\ cat[id].parent = up

IdOf(e) == <<e.id>>

LEMMA TreeNodes ==
  ASSUME NEW d \in Disks, NEW root \in ToSet(d.roots)
  PROVE  /\ DOMAIN ScanDir(d, root) = {IdOf(d.entries[i]) : i \in TakenFrom(d, root)} \cup {IdOf(root)}
         /\ ScanDir(d, root)[IdOf(root)].parent = Top
         /\ ScanDir(d, root)[IdOf(root)].kind = "folder"
         /\ ScanDir(d, root)[IdOf(root)].title = root.name.words
         /\ \A i \in TakenFrom(d, root) :
               LET n == ScanDir(d, root)[IdOf(d.entries[i])]
                   e == d.entries[i]
               IN  /\ n.parent = <<e.parent>> /\ n.title = e.name.words
                   /\ n.kind = Classify(e.ext) /\ n.file = {e.name}
         /\ \A id \in DOMAIN ScanDir(d, root) :
               /\ ToSet(ScanDir(d, root)[id].children)
                     = {IdOf(d.entries[i]) : i \in {j \in TakenFrom(d, root) : <<d.entries[j].parent>> = id}}
               /\ IsInjective(ScanDir(d, root)[id].children)
  <1> DEFINE read == TakenFrom(d, root)
             entry(id) == d.entries[CHOOSE i \in read : <<d.entries[i].id>> = id]
             ids == {<<d.entries[i].id>> : i \in read}
             here(e, id, dirs) == <<e.parent>> = id /\ <<e.id>> \in ids /\ (e.ext = "dir") = dirs
             found(id, dirs) == Among(d.entries, {e \in ToSet(d.entries) : here(e, id, dirs)})
             inFolder(id, dirs) == [k \in DOMAIN found(id, dirs) |-> <<found(id, dirs)[k].id>>]
             listed(id) == inFolder(id, TRUE) \o inFolder(id, FALSE)
             node(id) ==
               IF id = <<root.id>> THEN Node(Top, root.name.words, "folder", listed(id))
               ELSE [Node(<<entry(id).parent>>, entry(id).name.words, Classify(entry(id).ext), listed(id))
                        EXCEPT !.file = {entry(id).name}, !.day = entry(id).day]
             all == ids \cup {<<root.id>>}
  <1>1. /\ IsList(d.entries) /\ read \subseteq DOMAIN d.entries
        /\ \A i, j \in DOMAIN d.entries : d.entries[i].id = d.entries[j].id => i = j
        /\ \A i \in DOMAIN d.entries : d.entries[i].id # root.id /\ d.entries[i] \in ToSet(d.entries)
    <2>1. /\ IsList(d.entries)
          /\ \A i, j \in DOMAIN d.entries : d.entries[i].id = d.entries[j].id => i = j
          /\ RootIds(d) \cap EntryIds(d) = {}
      BY DisksAssumption DEF IsList
    <2>2. root.id \in RootIds(d) /\ \A i \in DOMAIN d.entries : d.entries[i].id \in EntryIds(d)
      BY DEF RootIds, EntryIds, ToSet
    <2>3. \A i \in DOMAIN d.entries : d.entries[i] \in ToSet(d.entries)
      BY DEF ToSet
    <2> QED
      BY <2>1, <2>2, <2>3 DEF TakenFrom
  <1>2. ScanDir(d, root) = [id \in all |-> node(id)]
    BY DEF ScanDir
  <1>3. \A e, f \in ToSet(d.entries) : <<e.id>> = <<f.id>> => e = f
    BY <1>1 DEF ToSet
  <1>4. \A e \in ToSet(d.entries) : <<e.id>> \in ids <=> \E i \in read : d.entries[i] = e
    BY <1>1, <1>3 DEF ToSet
  <1>5. ASSUME NEW id, NEW dirs \in BOOLEAN
        PROVE  /\ IsList(inFolder(id, dirs)) /\ IsInjective(inFolder(id, dirs))
               /\ ToSet(inFolder(id, dirs)) = {<<e.id>> : e \in {x \in ToSet(d.entries) : here(x, id, dirs)}}
    <2> DEFINE S == {e \in ToSet(d.entries) : here(e, id, dirs)}
               f == [e \in ToSet(d.entries) |-> <<e.id>>]
    <2>1. IsInjective(d.entries)
      BY <1>1 DEF IsInjective
    <2> HIDE DEF here
    <2>2. PICK s : s = found(id, dirs)
      OBVIOUS
    <2>3. IsList(s) /\ ToSet(s) = ToSet(d.entries) \cap S /\ IsInjective(s)
      <3> HIDE DEF S
      <3>1. s = Among(d.entries, S)
        BY <2>2 DEF S
      <3> QED
        BY <1>1, <2>1, <3>1, AmongIsList, AmongFacts
    <2>4. ToSet(s) = S
      BY <2>3
    <2>5. PICK q : q = inFolder(id, dirs)
      OBVIOUS
    <2>6. q = [k \in DOMAIN s |-> f[s[k]]]
      <3>1. \A k \in DOMAIN s : s[k] \in ToSet(d.entries)
        BY <2>4 DEF ToSet
      <3>2. q = [k \in DOMAIN s |-> <<s[k].id>>]
        BY <2>2, <2>5
      <3> QED
        BY <3>1, <3>2
    <2>7. \A x, y \in ToSet(s) : f[x] = f[y] => x = y
      BY <1>3, <2>4
    <2>8. {f[x] : x \in ToSet(s)} = {<<e.id>> : e \in S}
      BY <2>4
    <2> HIDE DEF f, S
    <2>9. IsList(q) /\ ToSet(q) = {f[x] : x \in ToSet(s)} /\ IsInjective(q)
      BY <2>3, <2>6, <2>7, RenamedFacts
    <2> QED
      BY <2>5, <2>8, <2>9 DEF S
  <1>6. ASSUME NEW id
        PROVE  /\ ToSet(listed(id)) = {IdOf(d.entries[i]) : i \in {j \in read : <<d.entries[j].parent>> = id}}
               /\ IsInjective(listed(id))
    <2>1. PICK a, b : a = inFolder(id, TRUE) /\ b = inFolder(id, FALSE)
      OBVIOUS
    <2>2. IsList(a) /\ IsInjective(a) /\ ToSet(a) = {<<e.id>> : e \in {x \in ToSet(d.entries) : here(x, id, TRUE)}}
      BY <1>5, <2>1
    <2>3. IsList(b) /\ IsInjective(b) /\ ToSet(b) = {<<e.id>> : e \in {x \in ToSet(d.entries) : here(x, id, FALSE)}}
      BY <1>5, <2>1
    <2>4. ToSet(a) \cap ToSet(b) = {}
      BY <1>3, <2>2, <2>3
    <2>5. ToSet(a) \cup ToSet(b) = {<<e.id>> : e \in {x \in ToSet(d.entries) : <<x.parent>> = id /\ <<x.id>> \in ids}}
      <3> HIDE DEF ids
      <3> QED
        BY ZenonT(30), <2>2, <2>3
    <2>6. {<<e.id>> : e \in {x \in ToSet(d.entries) : <<x.parent>> = id /\ <<x.id>> \in ids}}
             = {IdOf(d.entries[i]) : i \in {j \in read : <<d.entries[j].parent>> = id}}
      <3> HIDE DEF ids
      <3>1. \A e \in ToSet(d.entries) : <<e.parent>> = id /\ <<e.id>> \in ids
                => \E i \in read : <<d.entries[i].parent>> = id /\ <<e.id>> = IdOf(d.entries[i])
        BY <1>4 DEF IdOf
      <3>2. \A i \in read : d.entries[i] \in ToSet(d.entries) /\ <<d.entries[i].id>> \in ids
        BY <1>1 DEF ids
      <3> HIDE DEF read
      <3> DEFINE A == {<<e.id>> : e \in {x \in ToSet(d.entries) : <<x.parent>> = id /\ <<x.id>> \in ids}}
                 B == {IdOf(d.entries[i]) : i \in {j \in read : <<d.entries[j].parent>> = id}}
      <3>3. ASSUME NEW x \in A PROVE x \in B
        <4>1. PICK e \in ToSet(d.entries) : x = <<e.id>> /\ <<e.parent>> = id /\ <<e.id>> \in ids
          OBVIOUS
        <4>2. PICK i \in read : <<d.entries[i].parent>> = id /\ <<e.id>> = IdOf(d.entries[i])
          BY <3>1, <4>1
        <4> QED
          BY <4>1, <4>2
      <3>4. ASSUME NEW x \in B PROVE x \in A
        <4>1. PICK i \in read : x = IdOf(d.entries[i]) /\ <<d.entries[i].parent>> = id
          OBVIOUS
        <4>2. x = <<d.entries[i].id>>
          BY <4>1 DEF IdOf
        <4> QED
          BY <3>2, <4>1, <4>2
      <3> HIDE DEF A, B
      <3>5. A = B
        BY <3>3, <3>4
      <3> QED
        BY <3>5 DEF A, B
    <2> HIDE DEF inFolder
    <2>7. listed(id) = a \o b
      BY <2>1
    <2> QED
      BY <2>2, <2>3, <2>4, <2>5, <2>6, <2>7, JoinFacts
  <1>7. ASSUME NEW i \in read
        PROVE  /\ IdOf(d.entries[i]) # <<root.id>> /\ IdOf(d.entries[i]) \in all
               /\ entry(IdOf(d.entries[i])) = d.entries[i]
    <2>1. \A j \in read : <<d.entries[j].id>> = IdOf(d.entries[i]) <=> j = i
      BY <1>1 DEF IdOf
    <2> QED
      BY <1>1, <2>1 DEF IdOf
  <1> HIDE DEF listed, entry, read, ids
  <1>8. \A id : Node(Top, root.name.words, "folder", listed(id)).children = listed(id)
    BY DEF Node
  <1>9. \A id : node(id).children = listed(id)
    BY DEF Node
  <1>10. /\ node(<<root.id>>).parent = Top /\ node(<<root.id>>).kind = "folder"
         /\ node(<<root.id>>).title = root.name.words /\ <<root.id>> \in all
    BY DEF Node
  <1>11. ASSUME NEW i \in read, NEW id, id = IdOf(d.entries[i])
         PROVE  /\ node(id).parent = <<d.entries[i].parent>> /\ node(id).title = d.entries[i].name.words
                /\ node(id).kind = Classify(d.entries[i].ext) /\ node(id).file = {d.entries[i].name}
    <2>1. id # <<root.id>> /\ entry(id) = d.entries[i]
      BY <1>7, <1>11
    <2> QED
      BY <2>1 DEF Node
  <1>12. all = {IdOf(d.entries[i]) : i \in read} \cup {IdOf(root)}
    BY DEF ids, IdOf
  <1> HIDE DEF node, all
  <1>13. PICK r : r = ScanDir(d, root)
    OBVIOUS
  <1>14. DOMAIN r = all /\ \A id \in all : r[id] = node(id)
    BY <1>2, <1>13
  <1>15. \A i \in read : LET n == r[IdOf(d.entries[i])]
                             e == d.entries[i]
                         IN  /\ n.parent = <<e.parent>> /\ n.title = e.name.words
                             /\ n.kind = Classify(e.ext) /\ n.file = {e.name}
    <2> TAKE i \in read
    <2>1. PICK id : id = IdOf(d.entries[i])
      OBVIOUS
    <2>2. r[id] = node(id)
      BY <1>7, <1>14, <2>1
    <2>3. /\ node(id).parent = <<d.entries[i].parent>> /\ node(id).title = d.entries[i].name.words
          /\ node(id).kind = Classify(d.entries[i].ext) /\ node(id).file = {d.entries[i].name}
      BY <1>11, <2>1
    <2> QED
      BY <2>1, <2>2, <2>3
  <1>16. \A id \in all : /\ ToSet(r[id].children)
                               = {IdOf(d.entries[i]) : i \in {j \in read : <<d.entries[j].parent>> = id}}
                         /\ IsInjective(r[id].children)
    BY <1>6, <1>9, <1>14
  <1>17. r[IdOf(root)].parent = Top /\ r[IdOf(root)].kind = "folder" /\ r[IdOf(root)].title = root.name.words
    BY <1>10, <1>14 DEF IdOf
  <1> QED
    BY <1>12, <1>13, <1>14, <1>15, <1>16, <1>17 DEF read

LEMMA EntryFacts ==
  ASSUME NEW d \in Disks
  PROVE  /\ IsList(d.entries) /\ IsList(d.roots) /\ IsInjective(d.roots)
         /\ \A e, f \in ToSet(d.entries) : e.id = f.id => e = f
         /\ \A q, r \in ToSet(d.roots) : q.id = r.id => q = r
         /\ \A e \in ToSet(d.entries), r \in ToSet(d.roots) : e.id # r.id
         /\ \A e \in ToSet(d.entries) : e.id \in ToSet(Alphabet) \ {"0", "s:", "v:"} /\ KnownName(e.name)
         /\ \A r \in ToSet(d.roots) : r.id \in ToSet(Alphabet) \ {"0", "s:", "v:"} /\ KnownName(r.name)
         /\ \A i \in DOMAIN d.entries : d.entries[i] \in ToSet(d.entries)
  <1>1. /\ IsList(d.entries) /\ IsList(d.roots)
        /\ \A i, j \in DOMAIN d.entries : d.entries[i].id = d.entries[j].id => i = j
        /\ \A i, j \in DOMAIN d.roots : d.roots[i].id = d.roots[j].id => i = j
        /\ RootIds(d) \cap EntryIds(d) = {}
        /\ RootIds(d) \cup EntryIds(d) \subseteq ToSet(Alphabet) \ {"0", "s:", "v:"}
        /\ \A n \in NamesOn(d) : n.words \in Seq(ToSet(Alphabet) \ {":"}) /\ IsFiniteSet(n.years)
    BY DisksAssumption DEF IsList
  <1>2. \A n \in NamesOn(d) : KnownName(n)
    <2> TAKE n \in NamesOn(d)
    <2>1. PICK w : w = n.words
      OBVIOUS
    <2>2. w \in Seq(ToSet(Alphabet) \ {":"})
      BY <1>1, <2>1
    <2>3. ToSet(w) \subseteq ToSet(Alphabet) \ {":"}
      BY <2>2 DEF ToSet
    <2>4. w \in Seq(ToSet(w))
      BY <2>2 DEF ToSet
    <2> QED
      BY <1>1, <2>1, <2>3, <2>4 DEF KnownName, Words, IsList
  <1>3. /\ \A e \in ToSet(d.entries) : e.id \in EntryIds(d) /\ e.name \in NamesOn(d)
        /\ \A r \in ToSet(d.roots) : r.id \in RootIds(d) /\ r.name \in NamesOn(d)
    BY DEF EntryIds, RootIds, NamesOn
  <1>4. \A e, f \in ToSet(d.entries) : e.id = f.id => e = f
    BY <1>1 DEF ToSet
  <1>5. \A q, r \in ToSet(d.roots) : q.id = r.id => q = r
    BY <1>1 DEF ToSet
  <1>6. \A i \in DOMAIN d.entries : d.entries[i] \in ToSet(d.entries)
    BY DEF ToSet
  <1>7. IsInjective(d.roots)
    BY <1>1 DEF IsInjective
  <1> QED
    BY <1>1, <1>2, <1>3, <1>4, <1>5, <1>6, <1>7

\* A folder below a root is the root or a folder on the disk.
LEMMA FolderFacts ==
  ASSUME NEW d \in Disks, NEW root \in ToSet(d.roots), NEW n \in 0 .. MaxDepth, NEW f \in FoldersAt(d, root)[n]
  PROVE  \/ n = 0 /\ f = root.id
         \/ n # 0 /\ \E e \in ToSet(d.entries) : e.id = f /\ e.ext = "dir" /\ e.parent \in FoldersAt(d, root)[n - 1]
  <1>1. MaxDepth \in Nat
    BY ShelvesAssumption
  <1>2. n = 0 \/ n \in 1 .. MaxDepth
    BY <1>1
  <1> QED
    BY <1>2, FoldersFacts

\* No folder lies below two roots.
LEMMA FoldersApart ==
  ASSUME NEW d \in Disks, NEW root \in ToSet(d.roots), NEW other \in ToSet(d.roots), root # other,
         NEW n \in 0 .. MaxDepth, NEW m \in 0 .. MaxDepth
  PROVE  FoldersAt(d, root)[n] \cap FoldersAt(d, other)[m] = {}
  <1> DEFINE Apart(k) == \A j \in 0 .. MaxDepth : FoldersAt(d, root)[k] \cap FoldersAt(d, other)[j] = {}
             S == {k \in 0 .. MaxDepth : ~Apart(k)}
  <1>1. MaxDepth \in Nat
    BY ShelvesAssumption
  <1>2. S = {}
    <2> SUFFICES ASSUME S # {} PROVE FALSE
      OBVIOUS
    <2>1. S \in SUBSET Nat
      BY <1>1
    <2> HIDE DEF S
    <2>2. PICK k \in S : \A i \in S : ~(i < k)
      BY <2>1, LeastNumber
    <2>3. k \in 0 .. MaxDepth /\ ~Apart(k)
      BY <2>2 DEF S
    <2>4. PICK j \in 0 .. MaxDepth : FoldersAt(d, root)[k] \cap FoldersAt(d, other)[j] # {}
      BY <2>3
    <2>5. PICK f : f \in FoldersAt(d, root)[k] /\ f \in FoldersAt(d, other)[j]
      BY <2>4
    <2>6. CASE k = 0
      <3>1. f = root.id
        BY <2>3, <2>5, <2>6, FolderFacts
      <3>2. f # other.id /\ \A e \in ToSet(d.entries) : e.id # f
        BY <3>1, EntryFacts
      <3> QED
        BY <2>5, <3>2, FolderFacts
    <2>7. CASE k # 0
      <3>1. PICK e \in ToSet(d.entries) : e.id = f /\ e.ext = "dir" /\ e.parent \in FoldersAt(d, root)[k - 1]
        BY <2>3, <2>5, <2>7, FolderFacts
      <3>2. f # other.id
        BY <3>1, EntryFacts
      <3>3. j # 0 /\ \E g \in ToSet(d.entries) : g.id = f /\ g.ext = "dir" /\ g.parent \in FoldersAt(d, other)[j - 1]
        BY <2>5, <3>2, FolderFacts
      <3>4. e.parent \in FoldersAt(d, other)[j - 1]
        BY <3>1, <3>3, EntryFacts
      <3>5. k - 1 \in 0 .. MaxDepth /\ j - 1 \in 0 .. MaxDepth /\ k - 1 < k
        BY <1>1, <2>3, <2>7, <3>3
      <3>6. k - 1 \notin S
        BY <2>2, <3>5
      <3> QED
        BY <3>1, <3>4, <3>5, <3>6 DEF S
    <2> QED
      BY <2>6, <2>7
  <1> QED
    BY <1>2

LEMMA TreesApart ==
  ASSUME NEW d \in Disks, NEW root \in ToSet(d.roots), NEW other \in ToSet(d.roots), root # other
  PROVE  DOMAIN ScanDir(d, root) \cap DOMAIN ScanDir(d, other) = {}
  <1>1. /\ DOMAIN ScanDir(d, root) = {IdOf(d.entries[i]) : i \in TakenFrom(d, root)} \cup {IdOf(root)}
        /\ DOMAIN ScanDir(d, other) = {IdOf(d.entries[i]) : i \in TakenFrom(d, other)} \cup {IdOf(other)}
    BY TreeNodes
  <1>2. MaxDepth \in Nat
    BY ShelvesAssumption
  <1>3. TakenFrom(d, root) \cap TakenFrom(d, other) = {}
    <2> SUFFICES ASSUME NEW i \in TakenFrom(d, root), i \in TakenFrom(d, other) PROVE FALSE
      OBVIOUS
    <2>1. /\ \E n \in 0 .. (MaxDepth - 1) : d.entries[i].parent \in FoldersAt(d, root)[n]
          /\ \E n \in 0 .. (MaxDepth - 1) : d.entries[i].parent \in FoldersAt(d, other)[n]
      BY DEF TakenFrom
    <2>2. \A n \in 0 .. (MaxDepth - 1) : n \in 0 .. MaxDepth
      BY <1>2
    <2> QED
      BY <2>1, <2>2, FoldersApart
  <1>4. \A i \in TakenFrom(d, root) \cup TakenFrom(d, other) : i \in DOMAIN d.entries /\ d.entries[i] \in ToSet(d.entries)
    BY DEF TakenFrom, ToSet
  <1>5. \A i, j \in DOMAIN d.entries : IdOf(d.entries[i]) = IdOf(d.entries[j]) => i = j
    BY DisksAssumption DEF IdOf
  <1>6. \A e \in ToSet(d.entries) : IdOf(e) # IdOf(root) /\ IdOf(e) # IdOf(other)
    BY EntryFacts DEF IdOf
  <1>7. IdOf(root) # IdOf(other)
    BY EntryFacts DEF IdOf
  <1> QED
    BY <1>1, <1>3, <1>4, <1>5, <1>6, <1>7

\* The id of a root or an entry.
OneWord(id) == \E w \in ToSet(Alphabet) \ {"0", "s:", "v:"} : id = <<w>>
\* What is known of an id and a node of a tree.
Known(names, id, n) ==
  /\ OneWord(id)
  /\ Words(n.title) /\ id \in DOMAIN names /\ KnownName(names[id])
  /\ n.kind = "folder" \/ \E name : KnownName(name) /\ n.file = {name}

LEMMA NamesAreKnown ==
  ASSUME NEW d \in Disks
  PROVE  /\ \A r \in ToSet(d.roots) : IdOf(r) \in DOMAIN NamesOf(d) /\ KnownName(NamesOf(d)[IdOf(r)])
         /\ \A e \in ToSet(d.entries) : IdOf(e) \in DOMAIN NamesOf(d) /\ KnownName(NamesOf(d)[IdOf(e)])
  <1> DEFINE named == {<<r.id, r.name>> : r \in ToSet(d.roots)} \cup {<<e.id, e.name>> : e \in ToSet(d.entries)}
             nameOf(id) == (CHOOSE n \in named : <<n[1]>> = id)[2]
  <1>1. NamesOf(d) = [id \in {<<n[1]>> : n \in named} |-> nameOf(id)]
    BY DEF NamesOf
  <1>2. \A n \in named : KnownName(n[2])
    BY EntryFacts
  <1>3. /\ \A r \in ToSet(d.roots) : <<r.id, r.name>> \in named /\ IdOf(r) = <<<<r.id, r.name>>[1]>>
        /\ \A e \in ToSet(d.entries) : <<e.id, e.name>> \in named /\ IdOf(e) = <<<<e.id, e.name>>[1]>>
    BY DEF IdOf
  <1> HIDE DEF named
  <1>4. \A n \in named : KnownName(nameOf(<<n[1]>>))
    <2> TAKE n \in named
    <2>1. PICK m : m = CHOOSE x \in named : <<x[1]>> = <<n[1]>>
      OBVIOUS
    <2>2. m \in named
      BY <2>1
    <2> QED
      BY <1>2, <2>1, <2>2
  <1> HIDE DEF nameOf
  <1>5. \A n \in named : <<n[1]>> \in DOMAIN NamesOf(d) /\ KnownName(NamesOf(d)[<<n[1]>>])
    BY <1>1, <1>4
  <1>6. \A r \in ToSet(d.roots) : IdOf(r) \in DOMAIN NamesOf(d) /\ KnownName(NamesOf(d)[IdOf(r)])
    <2> TAKE r \in ToSet(d.roots)
    <2>1. PICK n \in named : IdOf(r) = <<n[1]>>
      BY <1>3
    <2> QED
      BY <1>5, <2>1
  <1>7. \A e \in ToSet(d.entries) : IdOf(e) \in DOMAIN NamesOf(d) /\ KnownName(NamesOf(d)[IdOf(e)])
    <2> TAKE e \in ToSet(d.entries)
    <2>1. PICK n \in named : IdOf(e) = <<n[1]>>
      BY <1>3
    <2> QED
      BY <1>5, <2>1
  <1> QED
    BY <1>6, <1>7

\* The tree of a root: folders list what has them as parent, nothing else has
\* children, and everything can be reached from the root.
Tree(t, root, names) ==
  /\ WellFormed(t) /\ Listed(t) /\ root \in DOMAIN t /\ t[root].parent = Top /\ t[root].kind = "folder"
  /\ \A id \in DOMAIN t : t[id].kind # "folder" => ToSet(t[id].children) = {}
  /\ DOMAIN t \subseteq Reach(t, {root})
  /\ \A id \in DOMAIN t : Known(names, id, t[id])

LEMMA TreeIsTree ==
  ASSUME NEW d \in Disks, NEW root \in ToSet(d.roots)
  PROVE  Tree(ScanDir(d, root), IdOf(root), NamesOf(d))
  <1>1. PICK t : t = ScanDir(d, root)
    OBVIOUS
  <1>2. PICK read : read = TakenFrom(d, root)
    OBVIOUS
  <1>3. WellFormed(t)
    BY <1>1, ScanDirIsWell
  <1>4. /\ DOMAIN t = {IdOf(d.entries[i]) : i \in read} \cup {IdOf(root)}
        /\ t[IdOf(root)].parent = Top /\ t[IdOf(root)].kind = "folder" /\ t[IdOf(root)].title = root.name.words
    BY <1>1, <1>2, TreeNodes
  <1>5. ASSUME NEW i \in read
        PROVE  /\ t[IdOf(d.entries[i])].parent = <<d.entries[i].parent>>
               /\ t[IdOf(d.entries[i])].title = d.entries[i].name.words
               /\ t[IdOf(d.entries[i])].kind = Classify(d.entries[i].ext)
               /\ t[IdOf(d.entries[i])].file = {d.entries[i].name}
    BY ZenonT(30), <1>1, <1>2, TreeNodes
  <1>6. \A id \in DOMAIN t :
           /\ ToSet(t[id].children) = {IdOf(d.entries[i]) : i \in {j \in read : <<d.entries[j].parent>> = id}}
           /\ IsInjective(t[id].children)
    BY <1>1, <1>2, TreeNodes
  <1>7. \A i \in read : /\ i \in DOMAIN d.entries /\ d.entries[i] \in ToSet(d.entries) /\ Accepted(d.entries[i].ext)
                        /\ \E n \in 0 .. (MaxDepth - 1) : d.entries[i].parent \in FoldersAt(d, root)[n]
    BY <1>2 DEF TakenFrom, ToSet
  <1>8. MaxDepth \in Nat
    BY ShelvesAssumption
  <1>9. Listed(t)
    <2> SUFFICES ASSUME NEW up \in DOMAIN t, NEW id \in ToSet(t[up].children)
                 PROVE  id \in DOMAIN t /\ t[id].parent = up
      BY <1>6 DEF Listed
    <2>1. PICK i \in read : id = IdOf(d.entries[i]) /\ <<d.entries[i].parent>> = up
      BY <1>6
    <2> QED
      BY <1>4, <1>5, <2>1
  <1>10. \A n \in 0 .. MaxDepth : \A f \in FoldersAt(d, root)[n] : \A i \in read : d.entries[i].id = f => d.entries[i].ext = "dir"
    <2> SUFFICES ASSUME NEW n \in 0 .. MaxDepth, NEW f \in FoldersAt(d, root)[n], NEW i \in read, d.entries[i].id = f
                 PROVE  d.entries[i].ext = "dir"
      OBVIOUS
    <2>1. f # root.id
      BY <1>7, EntryFacts
    <2>2. PICK e \in ToSet(d.entries) : e.id = f /\ e.ext = "dir"
      BY <2>1, FolderFacts
    <2> QED
      BY <1>7, <2>2, EntryFacts
  <1>11. \A id \in DOMAIN t : t[id].kind # "folder" => ToSet(t[id].children) = {}
    <2> SUFFICES ASSUME NEW id \in DOMAIN t, t[id].kind # "folder", NEW x \in ToSet(t[id].children) PROVE FALSE
      OBVIOUS
    <2>1. PICK j \in read : <<d.entries[j].parent>> = id
      BY <1>6
    <2>2. PICK i \in read : id = IdOf(d.entries[i])
      BY <1>4, <2>1
    <2>3. d.entries[i].id = d.entries[j].parent
      BY <2>1, <2>2 DEF IdOf
    <2>4. PICK n \in 0 .. (MaxDepth - 1) : d.entries[j].parent \in FoldersAt(d, root)[n]
      BY <1>7
    <2>5. n \in 0 .. MaxDepth
      BY <1>8
    <2>6. d.entries[i].ext = "dir"
      BY <1>10, <2>3, <2>4, <2>5
    <2>7. Classify("dir") = "folder"
      BY DEF Classify
    <2> QED
      BY <1>5, <2>2, <2>6, <2>7
  <1>12. DOMAIN t \subseteq Reach(t, {IdOf(root)})
    <2>1. PICK seen : seen = Reach(t, {IdOf(root)})
      OBVIOUS
    <2>2. IdOf(root) \in seen /\ seen \subseteq DOMAIN t /\ Closed(t, seen)
      <3>1. {IdOf(root)} \in SUBSET DOMAIN t
        BY <1>4
      <3> QED
        BY <1>3, <2>1, <3>1, ReachFacts
    <2>3. ASSUME NEW i \in read, <<d.entries[i].parent>> \in seen PROVE IdOf(d.entries[i]) \in seen
      <3>1. <<d.entries[i].parent>> \in DOMAIN t
        BY <2>2, <2>3
      <3>2. IdOf(d.entries[i]) \in ToSet(t[<<d.entries[i].parent>>].children)
        BY <1>6, <3>1
      <3>3. IdOf(d.entries[i]) \in ToSet(Children(t, <<d.entries[i].parent>>))
        BY <1>3, <1>9, <3>1, <3>2, ChildrenFacts DEF Listed
      <3> QED
        BY <2>2, <2>3, <3>3 DEF Closed
    <2> DEFINE Seen(n) == \A f \in FoldersAt(d, root)[n] : <<f>> \in seen
               S == {n \in 0 .. (MaxDepth - 1) : ~Seen(n)}
    <2>4. S = {}
      <3> SUFFICES ASSUME S # {} PROVE FALSE
        OBVIOUS
      <3>1. S \in SUBSET Nat
        BY <1>8
      <3> HIDE DEF S
      <3>2. PICK n \in S : \A i \in S : ~(i < n)
        BY <3>1, LeastNumber
      <3>3. n \in 0 .. (MaxDepth - 1) /\ ~Seen(n)
        BY <3>2 DEF S
      <3>4. PICK f \in FoldersAt(d, root)[n] : <<f>> \notin seen
        BY <3>3
      <3>5. n \in 0 .. MaxDepth
        BY <1>8, <3>3
      <3>6. f # root.id
        BY <2>2, <3>4 DEF IdOf
      <3>7. n # 0 /\ \E e \in ToSet(d.entries) : e.id = f /\ e.ext = "dir" /\ e.parent \in FoldersAt(d, root)[n - 1]
        BY <3>4, <3>5, <3>6, FolderFacts
      <3>8. PICK e \in ToSet(d.entries) : e.id = f /\ e.ext = "dir" /\ e.parent \in FoldersAt(d, root)[n - 1]
        BY <3>7
      <3>9. PICK i \in DOMAIN d.entries : d.entries[i] = e
        BY DEF ToSet
      <3>10. n - 1 \in 0 .. (MaxDepth - 1) /\ n - 1 < n
        BY <1>8, <3>3, <3>7
      <3>11. i \in read
        BY <1>2, <3>8, <3>9, <3>10 DEF TakenFrom, Accepted
      <3>12. n - 1 \notin S
        BY <3>2, <3>10
      <3>13. <<e.parent>> \in seen
        BY <3>8, <3>10, <3>12 DEF S
      <3> QED
        BY <2>3, <3>4, <3>8, <3>9, <3>11, <3>13 DEF IdOf
    <2>5. \A i \in read : <<d.entries[i].parent>> \in seen
      <3> TAKE i \in read
      <3>1. PICK n \in 0 .. (MaxDepth - 1) : d.entries[i].parent \in FoldersAt(d, root)[n]
        BY <1>7
      <3> QED
        BY <2>4, <3>1
    <2> QED
      BY <1>4, <2>1, <2>2, <2>3, <2>5
  <1>13. ASSUME NEW id \in DOMAIN t PROVE Known(NamesOf(d), id, t[id])
    <2>1. CASE id = IdOf(root)
      <3>1. root.id \in ToSet(Alphabet) \ {"0", "s:", "v:"} /\ KnownName(root.name)
        BY EntryFacts
      <3>2. id \in DOMAIN NamesOf(d) /\ KnownName(NamesOf(d)[id])
        BY <2>1, NamesAreKnown
      <3> QED
        BY <1>4, <2>1, <3>1, <3>2 DEF Known, OneWord, KnownName, IdOf
    <2>2. CASE id # IdOf(root)
      <3>1. PICK i \in read : id = IdOf(d.entries[i])
        BY <1>4, <2>2
      <3>2. PICK e : e = d.entries[i]
        OBVIOUS
      <3>3. e \in ToSet(d.entries) /\ id = <<e.id>>
        BY <1>7, <3>1, <3>2 DEF IdOf
      <3>4. e.id \in ToSet(Alphabet) \ {"0", "s:", "v:"} /\ KnownName(e.name)
        BY <3>3, EntryFacts
      <3>5. id \in DOMAIN NamesOf(d) /\ KnownName(NamesOf(d)[id])
        BY <3>1, <3>2, <3>3, NamesAreKnown
      <3>6. t[id].title = e.name.words /\ t[id].file = {e.name}
        BY <1>5, <3>1, <3>2
      <3>7. Words(e.name.words)
        BY <3>4 DEF KnownName
      <3> QED
        BY <3>3, <3>4, <3>5, <3>6, <3>7 DEF Known, OneWord
    <2> QED
      BY <2>1, <2>2
  <1>14. IdOf(root) \in DOMAIN t
    BY <1>4
  <1> QED
    BY <1>1, <1>3, <1>4, <1>9, <1>11, <1>12, <1>13, <1>14 DEF Tree

\* Who lists more reaches more.
LEMMA ReachGrows ==
  ASSUME NEW cat, WellFormed(cat), NEW new, WellFormed(new),
         NEW from \in SUBSET DOMAIN cat, NEW more \in SUBSET DOMAIN new, from \subseteq more,
         \A id \in Reach(cat, from) : ToSet(Children(cat, id)) \subseteq ToSet(Children(new, id))
  PROVE  Reach(cat, from) \subseteq Reach(new, more)
  <1>1. PICK old : old = Reach(cat, from)
    OBVIOUS
  <1>2. PICK now : now = Reach(new, more)
    OBVIOUS
  <1>3. from \subseteq old /\ Closed(cat, old) /\ \A S : from \subseteq S /\ Closed(cat, S) => old \subseteq S
    BY <1>1, ReachFacts
  <1>4. more \subseteq now /\ Closed(new, now)
    BY <1>2, ReachFacts
  <1>5. Closed(cat, old \cap now)
    BY <1>1, <1>3, <1>4 DEF Closed
  <1>6. from \subseteq old \cap now
    BY <1>3, <1>4
  <1>7. old \subseteq old \cap now
    BY <1>3, <1>5, <1>6
  <1> QED
    BY <1>1, <1>2, <1>7

LEMMA SeriesIdShape ==
  ASSUME NEW g, Words(g)
  PROVE  /\ IsList(SeriesId(g)) /\ ToSet(SeriesId(g)) \subseteq ToSet(Alphabet)
         /\ Len(SeriesId(g)) = Len(g) + 1 /\ SeriesId(g)[1] = "s:"
         /\ \A i \in 1 .. Len(g) : SeriesId(g)[i + 1] = g[i]
         /\ \A i \in 1 .. Len(g) : g[i] # ":"
  <1>1. PICK n : n = Len(g)
    OBVIOUS
  <1>2. n \in Nat /\ DOMAIN g = 1 .. n /\ g \in Seq(ToSet(Alphabet))
    BY <1>1, ListFacts DEF Words, IsList
  <1>3. PICK q : q = SeriesId(g)
    OBVIOUS
  <1>4. <<"s:">> \in Seq(ToSet(Alphabet)) /\ "s:" \in ToSet(Alphabet)
    BY ShelvesAssumption
  <1>5. q = <<"s:">> \o g
    BY <1>3 DEF SeriesId
  <1>6. q \in Seq(ToSet(Alphabet)) /\ Len(q) = n + 1 /\ q[1] = "s:" /\ \A i \in 1 .. n : q[i + 1] = g[i]
    BY <1>1, <1>2, <1>4, <1>5
  <1>7. IsList(q) /\ ToSet(q) \subseteq ToSet(Alphabet)
    <2>1. DOMAIN q = 1 .. (n + 1) /\ q = [k \in 1 .. (n + 1) |-> q[k]]
      BY <1>2, <1>6
    <2>2. IsList(q)
      BY <1>2, <2>1, ListIntro
    <2>3. \A k \in DOMAIN q : q[k] \in ToSet(Alphabet)
      BY <1>6
    <2> QED
      BY <2>2, <2>3 DEF ToSet
  <1>8. \A i \in 1 .. n : g[i] # ":"
    BY <1>2 DEF Words, ToSet
  <1> QED
    BY <1>1, <1>3, <1>6, <1>7, <1>8

LEMMA SeasonIdShape ==
  ASSUME NEW g, Words(g), NEW n \in Nat
  PROVE  /\ IsList(SeasonId(g, n)) /\ ToSet(SeasonId(g, n)) \subseteq ToSet(Alphabet)
         /\ Len(SeasonId(g, n)) = Len(g) + 2 + n /\ SeasonId(g, n)[1] = "s:"
         /\ \A i \in 1 .. Len(g) : SeasonId(g, n)[i + 1] = g[i]
         /\ SeasonId(g, n)[Len(g) + 2] = ":"
  <1>1. PICK s : s = SeriesId(g)
    OBVIOUS
  <1>2. PICK m : m = Len(g)
    OBVIOUS
  <1>3. PICK bars : bars = [k \in 1 .. n |-> "|"]
    OBVIOUS
  <1>4. PICK q : q = SeasonId(g, n)
    OBVIOUS
  <1>5. IsList(s) /\ ToSet(s) \subseteq ToSet(Alphabet) /\ Len(s) = m + 1 /\ s[1] = "s:" /\ \A i \in 1 .. m : s[i + 1] = g[i]
    BY <1>1, <1>2, SeriesIdShape
  <1>6. m \in Nat
    BY <1>2, ListFacts DEF Words
  <1>7. s \in Seq(ToSet(Alphabet))
    <2>1. DOMAIN s = 1 .. (m + 1) /\ s = [k \in 1 .. (m + 1) |-> s[k]]
      BY <1>5, ListFacts
    <2>2. \A k \in 1 .. (m + 1) : s[k] \in ToSet(Alphabet)
      BY <1>5, <2>1 DEF ToSet
    <2> QED
      BY <1>6, <2>1, <2>2
  <1>8. /\ ":" \in ToSet(Alphabet) /\ "|" \in ToSet(Alphabet)
        /\ <<":">> \in Seq(ToSet(Alphabet)) /\ Len(<<":">>) = 1 /\ <<":">>[1] = ":"
    BY ShelvesAssumption
  <1>9. bars \in Seq(ToSet(Alphabet)) /\ Len(bars) = n
    BY <1>3, <1>8
  <1>10. q = (s \o <<":">>) \o bars
    <2>1. q = <<"s:">> \o g \o <<":">> \o bars
      BY <1>3, <1>4 DEF SeasonId
    <2> QED
      BY <1>1, <2>1 DEF SeriesId
  <1>11. PICK u : u = s \o <<":">>
    OBVIOUS
  <1>12. u \in Seq(ToSet(Alphabet)) /\ Len(u) = m + 2 /\ u[m + 2] = ":" /\ \A i \in 1 .. (m + 1) : u[i] = s[i]
    BY <1>5, <1>6, <1>7, <1>8, <1>11
  <1>13. q \in Seq(ToSet(Alphabet)) /\ Len(q) = m + 2 + n /\ \A i \in 1 .. (m + 2) : q[i] = u[i]
    <2>1. PICK l : l = m + 2
      OBVIOUS
    <2>2. l \in Nat /\ Len(u) = l /\ q = u \o bars
      BY <1>6, <1>10, <1>11, <1>12, <2>1
    <2>3. /\ u \in Seq(ToSet(Alphabet)) /\ bars \in Seq(ToSet(Alphabet)) /\ Len(bars) = n
          /\ q = u \o bars /\ Len(u) = l
      BY <1>9, <1>12, <2>2
    <2>4. q \in Seq(ToSet(Alphabet)) /\ Len(q) = l + n
      <3>1. u \o bars \in Seq(ToSet(Alphabet)) /\ Len(u \o bars) = Len(u) + Len(bars)
        BY <2>3, ConcatProperties
      <3> QED
        BY <2>3, <3>1
    <2>5. \A i \in 1 .. l : q[i] = u[i]
      BY <2>2, <2>3
    <2> QED
      BY <2>1, <2>4, <2>5
  <1>14. \A i \in 1 .. m : i + 1 \in 1 .. (m + 1) /\ i + 1 \in 1 .. (m + 2)
    BY <1>6
  <1>15. 1 \in 1 .. (m + 1) /\ 1 \in 1 .. (m + 2) /\ m + 2 \in 1 .. (m + 2)
    BY <1>6
  <1>16. q[1] = "s:" /\ q[m + 2] = ":" /\ \A i \in 1 .. m : q[i + 1] = g[i]
    BY <1>5, <1>12, <1>13, <1>14, <1>15
  <1>17. IsList(q) /\ ToSet(q) \subseteq ToSet(Alphabet)
    <2>1. m + 2 + n \in Nat
      BY <1>6
    <2>2. DOMAIN q = 1 .. (m + 2 + n) /\ q = [k \in 1 .. (m + 2 + n) |-> q[k]]
      BY <1>13
    <2>3. IsList(q)
      BY <2>1, <2>2, ListIntro
    <2>4. \A k \in DOMAIN q : q[k] \in ToSet(Alphabet)
      BY <1>13
    <2> QED
      BY <2>3, <2>4 DEF ToSet
  <1> QED
    BY <1>2, <1>4, <1>13, <1>16, <1>17

\* Two shelves with one id are one shelf.
LEMMA ShelvesApart ==
  ASSUME NEW g, NEW h, Words(g), Words(h), NEW n \in Nat, NEW m \in Nat
  PROVE  /\ SeriesId(g) = SeriesId(h) => g = h
         /\ SeasonId(g, n) = SeasonId(h, m) => g = h /\ n = m
         /\ SeriesId(g) # SeasonId(h, m)
  <1>1. PICK a, b : a = Len(g) /\ b = Len(h)
    OBVIOUS
  <1>2. /\ a \in Nat /\ b \in Nat /\ DOMAIN g = 1 .. a /\ DOMAIN h = 1 .. b
        /\ g = [k \in 1 .. a |-> g[k]] /\ h = [k \in 1 .. b |-> h[k]]
    BY <1>1, ListFacts DEF Words
  <1>3. PICK u, v, x, y : u = SeriesId(g) /\ v = SeriesId(h) /\ x = SeasonId(g, n) /\ y = SeasonId(h, m)
    OBVIOUS
  <1>4. /\ Len(u) = a + 1 /\ \A i \in 1 .. a : u[i + 1] = g[i] /\ g[i] # ":"
        /\ Len(v) = b + 1 /\ \A i \in 1 .. b : v[i + 1] = h[i] /\ h[i] # ":"
    BY <1>1, <1>3, SeriesIdShape
  <1>5. /\ Len(x) = a + 2 + n /\ x[a + 2] = ":" /\ \A i \in 1 .. a : x[i + 1] = g[i]
        /\ Len(y) = b + 2 + m /\ y[b + 2] = ":" /\ \A i \in 1 .. b : y[i + 1] = h[i]
    BY <1>1, <1>3, SeasonIdShape
  <1>6. u = v => g = h
    <2> SUFFICES ASSUME u = v PROVE g = h
      OBVIOUS
    <2>1. a = b
      BY <1>2, <1>4
    <2>2. \A i \in 1 .. a : g[i] = h[i]
      BY <1>4, <2>1
    <2> QED
      BY <1>2, <2>1, <2>2
  <1>7. x = y => g = h /\ n = m
    <2> SUFFICES ASSUME x = y PROVE g = h /\ n = m
      OBVIOUS
    <2>1. ~(a < b)
      <3> SUFFICES ASSUME a < b PROVE FALSE
        OBVIOUS
      <3>1. a + 1 \in 1 .. b /\ (a + 1) + 1 = a + 2
        BY <1>2
      <3>2. y[(a + 1) + 1] = h[a + 1] /\ h[a + 1] # ":"
        BY <1>4, <1>5, <3>1
      <3> QED
        BY <1>5, <3>1, <3>2
    <2>2. ~(b < a)
      <3> SUFFICES ASSUME b < a PROVE FALSE
        OBVIOUS
      <3>1. b + 1 \in 1 .. a /\ (b + 1) + 1 = b + 2
        BY <1>2
      <3>2. x[(b + 1) + 1] = g[b + 1] /\ g[b + 1] # ":"
        BY <1>4, <1>5, <3>1
      <3> QED
        BY <1>5, <3>1, <3>2
    <2>3. a = b
      BY <1>2, <2>1, <2>2
    <2>4. \A i \in 1 .. a : g[i] = h[i]
      BY <1>5, <2>3
    <2>5. g = h
      BY <1>2, <2>3, <2>4
    <2>6. n = m
      BY <1>2, <1>5, <2>3
    <2> QED
      BY <2>5, <2>6
  <1>8. u # y
    <2> SUFFICES ASSUME u = y PROVE FALSE
      OBVIOUS
    <2>1. a + 1 = b + 2 + m
      BY <1>4, <1>5
    <2>2. b + 1 \in 1 .. a /\ (b + 1) + 1 = b + 2
      BY <1>2, <2>1
    <2>3. u[(b + 1) + 1] = g[b + 1] /\ g[b + 1] # ":"
      BY <1>4, <2>2
    <2> QED
      BY <1>5, <2>2, <2>3
  <1> QED
    BY <1>3, <1>6, <1>7, <1>8

-----------------------------------------------------------------------------
(* What holds of the catalog after each root.                              *)

\* The id of a series that is there, or of one of its seasons.
Shelf(id, ids) ==
  \E g : /\ Words(g) /\ SeriesId(g) \in ids
         /\ id = SeriesId(g) \/ \E n \in Nat : id = SeasonId(g, n)

LEMMA ShelfIsNoWord ==
  ASSUME NEW id, NEW ids, Shelf(id, ids)
  PROVE  ~OneWord(id) /\ IsSynthetic(id)
  <1>1. PICK g : Words(g) /\ (id = SeriesId(g) \/ \E n \in Nat : id = SeasonId(g, n))
    BY DEF Shelf
  <1>2. id[1] = "s:"
    <2>1. CASE id = SeriesId(g)
      BY <1>1, <2>1, SeriesIdShape
    <2>2. CASE \E n \in Nat : id = SeasonId(g, n)
      <3>1. PICK n \in Nat : id = SeasonId(g, n)
        BY <2>2
      <3> QED
        BY <1>1, <3>1, SeasonIdShape
    <2> QED
      BY <1>1, <2>1, <2>2
  <1>3. \A w : <<w>>[1] = w
    OBVIOUS
  <1> QED
    BY <1>2, <1>3 DEF OneWord, IsSynthetic

LEMMA WordFacts ==
  ASSUME NEW id, OneWord(id)
  PROVE  id # Top /\ ~IsSynthetic(id) /\ IsList(id) /\ ToSet(id) \subseteq ToSet(Alphabet)
  <1>1. PICK w \in ToSet(Alphabet) \ {"0", "s:", "v:"} : id = <<w>>
    BY DEF OneWord
  <1>2. id # Top
    BY <1>1 DEF Top
  <1>3. ~IsSynthetic(id)
    BY <1>1 DEF IsSynthetic
  <1>4. ToSet(<<w>>) = {w} /\ <<w>> \in Seq({w})
    BY DEF ToSet
  <1> QED
    BY <1>1, <1>2, <1>3, <1>4 DEF IsList

\* Everything that is listed is there, every video can be reached from one of
\* the roots, and ids are those of the disk or of shelves.
Sound(cat, roots, ids) ==
  /\ WellFormed(cat) /\ Titled(cat, DOMAIN cat) /\ Listed(cat)
  /\ roots \subseteq DOMAIN cat /\ \A r \in roots : cat[r].parent = Top
  /\ \A id \in DOMAIN cat : cat[id].kind = "video" => id \in Reach(cat, roots)
  /\ \A id \in ids : OneWord(id)
  /\ \A id \in DOMAIN cat : id \in ids \/ Shelf(id, DOMAIN cat)

\* A catalog with the tree of one more root, before it is arranged.
Ready(cat, t, root, old) ==
  /\ WellFormed(cat) /\ WellFormed(t) /\ WellFormed(old)
  /\ DOMAIN cat = DOMAIN t \cup DOMAIN old /\ DOMAIN t \cap DOMAIN old = {}
  /\ \A id \in DOMAIN t : cat[id] = t[id]
  /\ \A id \in DOMAIN old : cat[id] = old[id]
  /\ Listed(cat) /\ Listed(old) /\ Titled(cat, DOMAIN cat) /\ Top \notin DOMAIN cat
  /\ root \in DOMAIN t /\ cat[root].parent = Top /\ cat[root].kind = "folder"
  /\ \A id \in DOMAIN t : ToSet(cat[id].children) \subseteq DOMAIN t /\ OneWord(id)
  /\ \A id \in DOMAIN t : cat[id].kind # "folder" => ToSet(cat[id].children) = {}
  /\ DOMAIN t \subseteq Reach(cat, {root})
  /\ Descendants(cat, root) \subseteq DOMAIN t \ {root}
  /\ \A id \in DOMAIN t \ {root} : cat[id].parent \in DOMAIN t

LEMMA ReadIsReady ==
  ASSUME NEW t, NEW root, NEW names, Tree(t, root, names),
         NEW old, NEW roots, NEW ids, Sound(old, roots, ids), DOMAIN t \cap ids = {},
         NEW cat, cat = Over(t, old)
  PROVE  Ready(cat, t, root, old)
  <1>1. /\ WellFormed(t) /\ Listed(t) /\ root \in DOMAIN t /\ t[root].parent = Top /\ t[root].kind = "folder"
        /\ \A id \in DOMAIN t : t[id].kind # "folder" => ToSet(t[id].children) = {}
        /\ DOMAIN t \subseteq Reach(t, {root})
        /\ \A id \in DOMAIN t : OneWord(id) /\ Words(t[id].title)
    BY DEF Tree, Known
  <1>2. /\ WellFormed(old) /\ Listed(old) /\ Titled(old, DOMAIN old)
        /\ \A id \in ids : OneWord(id)
        /\ \A id \in DOMAIN old : id \in ids \/ Shelf(id, DOMAIN old)
    BY DEF Sound
  <1>3. WellFormed(cat) /\ DOMAIN cat = DOMAIN t \cup DOMAIN old
    BY <1>1, <1>2, OverIsWell
  <1>4. DOMAIN t \cap DOMAIN old = {}
    <2> SUFFICES ASSUME NEW id \in DOMAIN t, id \in DOMAIN old PROVE FALSE
      OBVIOUS
    <2>1. Shelf(id, DOMAIN old)
      BY <1>2
    <2> QED
      BY <1>1, <2>1, ShelfIsNoWord
  <1>5. /\ \A id \in DOMAIN t : cat[id] = t[id]
        /\ \A id \in DOMAIN old : cat[id] = old[id]
    BY <1>4 DEF Over
  <1>6. Listed(cat)
    BY <1>1, <1>2, <1>3, <1>5 DEF Listed
  <1>7. Titled(cat, DOMAIN cat)
    BY <1>1, <1>2, <1>3, <1>5 DEF Titled, Words
  <1>8. Top \notin DOMAIN cat
    <2>1. Top \notin DOMAIN t
      BY <1>1, WordFacts
    <2>2. ASSUME Shelf(Top, DOMAIN old) PROVE FALSE
      <3>1. Top[1] = "s:"
        BY <2>2, ShelfIsNoWord DEF IsSynthetic
      <3> QED
        BY <3>1 DEF Top
    <2>3. Top \notin DOMAIN old
      BY <1>2, <2>2, WordFacts
    <2> QED
      BY <1>3, <2>1, <2>3
  <1>9. \A id \in DOMAIN t : ToSet(cat[id].children) \subseteq DOMAIN t
    BY <1>1, <1>5 DEF Listed
  <1>10. \A id \in DOMAIN t : ToSet(Children(cat, id)) = ToSet(Children(t, id)) /\ ToSet(Children(t, id)) = ToSet(t[id].children)
    <2> TAKE id \in DOMAIN t
    <2>1. id \in DOMAIN cat /\ cat[id].children = t[id].children
      BY <1>3, <1>5
    <2>2. ToSet(Children(cat, id)) = ToSet(cat[id].children) \cap DOMAIN cat
      BY <1>3, <2>1, ChildrenFacts
    <2>3. ToSet(Children(t, id)) = ToSet(t[id].children) \cap DOMAIN t
      BY <1>1, ChildrenFacts
    <2>4. ToSet(t[id].children) \subseteq DOMAIN t
      BY <1>9, <2>1
    <2> QED
      BY <1>3, <2>1, <2>2, <2>3, <2>4
  <1>11. DOMAIN t \subseteq Reach(cat, {root})
    <2>1. {root} \in SUBSET DOMAIN t /\ {root} \in SUBSET DOMAIN cat
      BY <1>1, <1>3
    <2>2. Reach(t, {root}) \subseteq DOMAIN t
      BY <1>1, <2>1, ReachFacts
    <2>3. Reach(t, {root}) \subseteq Reach(cat, {root})
      BY <1>1, <1>3, <1>10, <2>1, <2>2, ReachGrows
    <2> QED
      BY <1>1, <2>3
  <1>12. \A S \in SUBSET DOMAIN t : Reach(cat, S) \subseteq DOMAIN t
    <2> TAKE S \in SUBSET DOMAIN t
    <2>1. Closed(cat, DOMAIN t)
      BY <1>9, <1>10, <1>1, <1>5 DEF Closed
    <2>2. S \in SUBSET DOMAIN cat
      BY <1>3
    <2> QED
      BY <1>3, <2>1, <2>2, ReachFacts
  <1>13. Descendants(cat, root) \subseteq DOMAIN t \ {root}
    <2>1. PICK first : first = ToSet(Children(cat, root))
      OBVIOUS
    <2>2. first \in SUBSET DOMAIN t /\ first \in SUBSET DOMAIN cat
      BY <1>1, <1>3, <1>5, <1>9, <1>10, <2>1
    <2>3. root \notin first
      BY <1>1, <1>3, <1>5, <1>6, <1>8, <1>10, <2>1 DEF Listed
    <2>4. root \notin Reach(cat, first)
      <3> SUFFICES ASSUME root \in Reach(cat, first) PROVE FALSE
        OBVIOUS
      <3>1. PICK up \in Reach(cat, first) : root \in ToSet(Children(cat, up))
        BY <1>3, <2>2, <2>3, ReachedIsListed
      <3>2. up \in DOMAIN t
        BY <1>12, <2>2, <3>1
      <3>3. root \in ToSet(t[up].children)
        BY <1>10, <3>1, <3>2
      <3>4. t[root].parent = up
        BY <1>1, <3>2, <3>3 DEF Listed
      <3> QED
        BY <1>1, <1>3, <1>8, <3>2, <3>4
    <2> QED
      BY <1>12, <2>1, <2>2, <2>4 DEF Descendants
  <1>14. ASSUME NEW id \in DOMAIN t \ {root} PROVE cat[id].parent \in DOMAIN t
    <2>1. {root} \in SUBSET DOMAIN cat /\ {root} \in SUBSET DOMAIN t
      BY <1>1, <1>3
    <2>2. id \in Reach(cat, {root}) /\ id \notin {root}
      BY <1>11
    <2>3. PICK up \in Reach(cat, {root}) : id \in ToSet(Children(cat, up))
      BY <1>3, <2>1, <2>2, ReachedIsListed
    <2>4. up \in DOMAIN t
      BY <1>12, <2>1, <2>3
    <2>5. id \in ToSet(t[up].children)
      BY <1>10, <2>3, <2>4
    <2> QED
      BY <1>1, <1>5, <2>4, <2>5 DEF Listed
  <1> QED
    BY <1>1, <1>2, <1>3, <1>4, <1>5, <1>6, <1>7, <1>8, <1>9, <1>11, <1>13, <1>14 DEF Ready

-----------------------------------------------------------------------------
(* The places of episodes.                                                 *)

GoodPlace(p) ==
  Words(p.slug) /\ Words(p.said) /\ p.season \in Nat /\ p.number \in Nat /\ IsFiniteSet(p.quality)

LEMMA OrZeroIsNumber ==
  ASSUME NEW a \in SUBSET Nat, NEW b \in SUBSET Nat
  PROVE  OrElse(a, b) \in SUBSET Nat /\ OrZero(a) \in Nat
  <1>1. OrElse(a, b) \in SUBSET Nat
    BY DEF OrElse
  <1>2. OrElse(a, {0}) \in SUBSET Nat /\ OrElse(a, {0}) # {}
    BY DEF OrElse
  <1>3. PICK n : n = CHOOSE x \in OrElse(a, {0}) : TRUE
    OBVIOUS
  <1>4. n \in OrElse(a, {0})
    BY <1>2, <1>3
  <1> QED
    BY <1>1, <1>2, <1>3, <1>4 DEF OrZero

LEMMA NearestFacts ==
  ASSUME NEW said, NEW n \in Nat, DOMAIN said = 1 .. n,
         \A k \in 1 .. n : Words(said[k].title) /\ said[k].season \subseteq Nat /\ said[k].episode \subseteq Nat,
         NEW title, Words(title), NEW c, c = Nearest(said, title)
  PROVE  Words(c.title) /\ c.season \in SUBSET Nat /\ c.episode \in SUBSET Nat
  <1> DEFINE titled == {k \in DOMAIN said : said[k].title # <<>>}
             seasoned == {k \in DOMAIN said : said[k].season # {}}
             numbered == {k \in DOMAIN said :
                             /\ said[k].episode # {}
                             /\ titled = {} \/ seasoned = {} \/ k <= FirstOf(titled) \/ k <= FirstOf(seasoned)}
  <1>1. /\ c.title = (IF titled = {} THEN title ELSE said[FirstOf(titled)].title)
        /\ c.season = (IF seasoned = {} THEN {} ELSE said[FirstOf(seasoned)].season)
        /\ c.episode = (IF numbered = {} THEN {} ELSE said[FirstOf(numbered)].episode)
    BY DEF Nearest
  <1>2. titled \in SUBSET (1 .. n) /\ seasoned \in SUBSET (1 .. n) /\ numbered \in SUBSET (1 .. n)
    OBVIOUS
  <1> HIDE DEF titled, seasoned, numbered
  <1>3. ASSUME NEW S \in SUBSET (1 .. n), S # {} PROVE FirstOf(S) \in 1 .. n
    <2>1. S \in SUBSET Nat
      OBVIOUS
    <2> QED
      BY <1>3, <2>1, FirstIsOne
  <1>4. Words(c.title)
    BY <1>1, <1>2, <1>3
  <1>5. c.season \subseteq Nat
    BY <1>1, <1>2, <1>3
  <1>6. c.episode \subseteq Nat
    BY <1>1, <1>2, <1>3
  <1> QED
    BY <1>4, <1>5, <1>6

LEMMA HintIsNumber ==
  ASSUME NEW name
  PROVE  EpisodeNumberHint(name) \in SUBSET Nat
  BY ValueIsNumber DEF EpisodeNumberHint

LEMMA PlaceByFacts ==
  ASSUME NEW name, NEW parsed, NEW context,
         Words(parsed.title), parsed.season \in SUBSET Nat, parsed.episode \in SUBSET Nat, IsFiniteSet(parsed.quality),
         Words(context.title), context.season \in SUBSET Nat, context.episode \in SUBSET Nat,
         NEW p \in PlaceBy(name, parsed, context)
  PROVE  GoodPlace(p)
  <1> DEFINE own == parsed.season \cup parsed.episode # {}
             slug == IF (own /\ parsed.title # <<>>) \/ context.title = <<>> THEN parsed.title ELSE context.title
             season == OrZero(OrElse(parsed.season, context.season))
             number == OrZero(OrElse(parsed.episode, OrElse(EpisodeNumberHint(name), context.episode)))
  <1>1. p = [slug |-> slug, season |-> season, number |-> number, said |-> parsed.title, quality |-> parsed.quality]
    BY DEF PlaceBy
  <1>2. Words(slug)
    OBVIOUS
  <1>3. season \in Nat
    BY OrZeroIsNumber
  <1>4. number \in Nat
    BY HintIsNumber, OrZeroIsNumber
  <1> HIDE DEF slug, season, number
  <1>5. p.slug = slug /\ p.season = season /\ p.number = number /\ p.said = parsed.title /\ p.quality = parsed.quality
    BY <1>1
  <1> QED
    BY <1>2, <1>3, <1>4, <1>5 DEF GoodPlace

LEMMA PlaceFacts ==
  ASSUME NEW t, NEW root, NEW names, Tree(t, root, names), NEW cat, NEW old, Ready(cat, t, root, old),
         NEW id \in Descendants(cat, root), cat[id].kind = "video"
  PROVE  /\ id \in DOMAIN t \ {root}
         /\ Words(NameOf(cat[id]).words) /\ KnownName(NameOf(cat[id]))
         /\ \A p \in Place(cat, id, names) : GoodPlace(p)
  <1>1. id \in DOMAIN t \ {root}
    BY DEF Ready
  <1>2. \A x \in DOMAIN t : x \in DOMAIN cat /\ Known(names, x, cat[x])
    BY DEF Ready, Tree
  <1>3. PICK name : KnownName(name) /\ cat[id].file = {name}
    BY <1>1, <1>2 DEF Known
  <1>4. NameOf(cat[id]) = name
    BY <1>3 DEF NameOf
  <1>5. PICK up : up = cat[id].parent
    OBVIOUS
  <1>6. up \in DOMAIN t /\ Words(cat[up].title)
    BY <1>1, <1>2, <1>5 DEF Ready, Known
  <1>7. PICK folders : folders = FoldersAbove(cat, id)
    OBVIOUS
  <1>8. PICK n \in Nat : DOMAIN folders = 1 .. n /\ \A k \in 1 .. n : folders[k] \in DOMAIN t \cap DOMAIN cat
    <2>1. \A x \in DOMAIN t \cap DOMAIN cat : cat[x].parent \in DOMAIN t \cup {Top}
      BY DEF Ready
    <2>2. Top \notin DOMAIN cat
      BY DEF Ready
    <2>3. PICK S : S = DOMAIN t
      OBVIOUS
    <2>4. id \in S /\ \A x \in S \cap DOMAIN cat : cat[x].parent \in S \cup {Top}
      BY <1>1, <2>1, <2>3
    <2>5. \E n \in Nat : DOMAIN FoldersAbove(cat, id) = 1 .. n /\ \A k \in 1 .. n : FoldersAbove(cat, id)[k] \in S \cap DOMAIN cat
      BY <2>2, <2>4, AboveFacts
    <2> QED
      BY <1>7, <2>3, <2>5
  <1>9. PICK said : said = SaidBy(folders, names)
    OBVIOUS
  <1>10. DOMAIN said = 1 .. n /\ \A k \in 1 .. n : said[k] = ParseBare(names[folders[k]])
    BY <1>8, <1>9 DEF SaidBy
  <1>11. \A k \in 1 .. n : Words(said[k].title) /\ said[k].season \subseteq Nat /\ said[k].episode \subseteq Nat
    <2> TAKE k \in 1 .. n
    <2>1. PICK above : above = names[folders[k]]
      OBVIOUS
    <2>2. KnownName(above)
      BY <1>2, <1>8, <2>1 DEF Known
    <2>3. said[k] = ParseBare(above)
      BY <1>10, <2>1
    <2> QED
      BY <2>2, <2>3, NamesAreParsed
  <1>12. PICK context : context = ContextOf(cat, id, names)
    OBVIOUS
  <1>13. context = Nearest(said, cat[up].title)
    BY <1>5, <1>7, <1>9, <1>12 DEF ContextOf
  <1>14. Words(context.title) /\ context.season \in SUBSET Nat /\ context.episode \in SUBSET Nat
    BY <1>6, <1>10, <1>11, <1>13, NearestFacts
  <1>15. PICK parsed : parsed = ParseFile(name)
    OBVIOUS
  <1>16. /\ Words(parsed.title) /\ parsed.season \in SUBSET Nat /\ parsed.episode \in SUBSET Nat
         /\ IsFiniteSet(parsed.quality)
    BY <1>3, <1>15, NamesAreParsed
  <1>17. Place(cat, id, names) = PlaceBy(name, parsed, context)
    BY <1>4, <1>12, <1>15 DEF Place
  <1>18. \A p \in PlaceBy(name, parsed, context) : GoodPlace(p)
    BY <1>14, <1>16, PlaceByFacts
  <1> QED
    BY <1>1, <1>3, <1>4, <1>17, <1>18 DEF KnownName

-----------------------------------------------------------------------------
(* The shelves of MoveUp.                                                  *)

Episodes(place) == {id \in DOMAIN place : place[id] # {}}
OfSeries(place, g) == {id \in Episodes(place) : PlaceOf(place, id).slug = g}
NumbersOf(place, g) == {PlaceOf(place, id).season : id \in OfSeries(place, g)}
OfSeason(place, g, n) == {id \in OfSeries(place, g) : PlaceOf(place, id).season = n}
ShelfOf(place, id) == SeasonId(PlaceOf(place, id).slug, PlaceOf(place, id).season)
Slugs(place) == {PlaceOf(place, id).slug : id \in Episodes(place)}
SeriesNode(root, place, g) ==
  Node(root, GroupTitle(g, {PlaceOf(place, id) : id \in OfSeries(place, g)}), "folder",
       LET nums == InSequence(NumbersOf(place, g), <)
       IN  [k \in DOMAIN nums |-> SeasonId(g, nums[k])])
SeasonNode(place, g, n) ==
  Node(SeriesId(g), SeasonTitle(n), "folder", ByNumber(place, InSequence(OfSeason(place, g, n), Before)))
KeptNode(cat, place, id) ==
  IF id \in Episodes(place)
    THEN [cat[id] EXCEPT !.parent = ShelfOf(place, id), !.title = EpisodeTitle(PlaceOf(place, id))]
  ELSE IF id \in DOMAIN place
    THEN [cat[id] EXCEPT !.title = MovieTitle(NameOf(cat[id]).words, ParseFile(NameOf(cat[id])))]
  ELSE IF IsSynthetic(id) THEN cat[id]
  ELSE [cat[id] EXCEPT !.children = Among(@, ToSet(@) \ Episodes(place))]
NewSeries(root, place) ==
  [i \in {SeriesId(g) : g \in Slugs(place)} |->
      SeriesNode(root, place, CHOOSE g \in Slugs(place) : SeriesId(g) = i)]
NewSeasons(place) ==
  [i \in {ShelfOf(place, id) : id \in Episodes(place)} |->
      LET one == CHOOSE id \in Episodes(place) : ShelfOf(place, id) = i
      IN  SeasonNode(place, PlaceOf(place, one).slug, PlaceOf(place, one).season)]

LEMMA MoveUpShelves ==
  ASSUME NEW cat, NEW root, NEW place
  PROVE  /\ MoveUp(cat, root, place).nodes =
              Over(NewSeries(root, place), Over(NewSeasons(place), [id \in DOMAIN cat |-> KeptNode(cat, place, id)]))
         /\ MoveUp(cat, root, place).series = DOMAIN NewSeries(root, place)
         /\ MoveUp(cat, root, place).films = {id \in DOMAIN place \ Episodes(place) : cat[id].parent = root}
  BY DEF MoveUp, NewSeries, NewSeasons, KeptNode, SeriesNode, SeasonNode, Slugs, ShelfOf, OfSeason,
         NumbersOf, OfSeries, Episodes

\* The videos of the tree of a root, each with the place it belongs to.
Places(place, cat, t, root) ==
  /\ DOMAIN place \subseteq DOMAIN t \ {root}
  /\ \A id \in DOMAIN place : /\ cat[id].kind = "video" /\ KnownName(NameOf(cat[id]))
                              /\ \A p \in place[id] : GoodPlace(p)

LEMMA EpisodeFacts ==
  ASSUME NEW place, NEW cat, NEW t, NEW root, Places(place, cat, t, root), WellFormed(t)
  PROVE  /\ Episodes(place) \subseteq DOMAIN place /\ IsFiniteSet(Episodes(place))
         /\ \A id \in Episodes(place) : PlaceOf(place, id) \in place[id] /\ GoodPlace(PlaceOf(place, id))
         /\ \A g \in Slugs(place) : Words(g) /\ IsFiniteSet(OfSeries(place, g))
         /\ \A g : NumbersOf(place, g) \in SUBSET Nat /\ IsFiniteSet(NumbersOf(place, g))
  <1>1. Episodes(place) \subseteq DOMAIN place
    BY DEF Episodes
  <1>2. IsFiniteSet(Episodes(place))
    <2>1. IsFiniteSet(DOMAIN t) /\ Episodes(place) \subseteq DOMAIN t
      BY <1>1 DEF WellFormed, Places
    <2> QED
      BY <2>1, FS_Subset
  <1>3. ASSUME NEW id \in Episodes(place) PROVE PlaceOf(place, id) \in place[id] /\ GoodPlace(PlaceOf(place, id))
    <2>1. id \in DOMAIN place /\ place[id] # {}
      BY DEF Episodes
    <2>2. PICK p : p = PlaceOf(place, id)
      OBVIOUS
    <2>3. p \in place[id]
      BY <2>1, <2>2 DEF PlaceOf
    <2> QED
      BY <2>1, <2>2, <2>3 DEF Places
  <1>4. \A g : IsFiniteSet(OfSeries(place, g))
    <2> TAKE g
    <2>1. OfSeries(place, g) \subseteq Episodes(place)
      BY DEF OfSeries
    <2> QED
      BY <1>2, <2>1, FS_Subset
  <1>5. \A g \in Slugs(place) : Words(g)
    BY <1>3 DEF Slugs, GoodPlace
  <1>6. ASSUME NEW g PROVE NumbersOf(place, g) \in SUBSET Nat /\ IsFiniteSet(NumbersOf(place, g))
    <2>1. NumbersOf(place, g) \in SUBSET Nat
      BY <1>3 DEF NumbersOf, OfSeries, GoodPlace
    <2>2. PICK S : S = OfSeries(place, g)
      OBVIOUS
    <2> DEFINE f == [id \in S |-> PlaceOf(place, id).season]
    <2>3. NumbersOf(place, g) = {f[id] : id \in S}
      BY <2>2 DEF NumbersOf
    <2>4. IsFiniteSet(S)
      BY <1>4, <2>2
    <2> HIDE DEF f
    <2>5. IsFiniteSet({f[id] : id \in S})
      BY <2>4, ValuesAreFinite
    <2> QED
      BY <2>1, <2>3, <2>5
  <1> QED
    BY <1>1, <1>2, <1>3, <1>4, <1>5, <1>6

\* A series lists its seasons, each once.
LEMMA SeriesNodeFacts ==
  ASSUME NEW place, NEW cat, NEW t, NEW root, Places(place, cat, t, root), WellFormed(t), NEW g \in Slugs(place),
         NEW n, n = SeriesNode(root, place, g)
  PROVE  /\ n.parent = root /\ n.kind = "folder" /\ IsList(n.title)
         /\ ToSet(n.children) = {SeasonId(g, k) : k \in NumbersOf(place, g)} /\ IsInjective(n.children)
  <1> DEFINE S == NumbersOf(place, g)
             nums == InSequence(S, <)
             f == [k \in Nat |-> SeasonId(g, k)]
             children == [k \in DOMAIN nums |-> SeasonId(g, nums[k])]
             said == {PlaceOf(place, id) : id \in OfSeries(place, g)}
  <1>1. Words(g) /\ S \in SUBSET Nat /\ IsFiniteSet(S)
    BY EpisodeFacts
  <1>2. n = Node(root, GroupTitle(g, said), "folder", children)
    BY DEF SeriesNode
  <1>3. ToSet(nums) = S /\ IsInjective(nums)
    <2> HIDE DEF S
    <2> QED
      BY <1>1, InNumbers
  <1>4. IsList(nums)
    <2>1. PICK q : q = nums
      OBVIOUS
    <2> HIDE DEF S
    <2>2. Cardinality(S) \in Nat
      BY <1>1, FS_CardinalityType
    <2> DEFINE nth(k) == CHOOSE x \in S : Cardinality({y \in S : y < x}) = k - 1
    <2>3. q = [k \in 1 .. Cardinality(S) |-> nth(k)]
      BY <2>1 DEF InSequence
    <2> HIDE DEF nth
    <2>4. q = [k \in 1 .. Cardinality(S) |-> q[k]]
      BY <2>3
    <2> HIDE DEF nums
    <2>5. IsList(q)
      BY <2>2, <2>4, ListIntro
    <2> QED
      BY <2>1, <2>5
  <1> HIDE DEF nums
  <1>5. children = [k \in DOMAIN nums |-> f[nums[k]]]
    <2>1. \A k \in DOMAIN nums : nums[k] \in Nat
      BY <1>1, <1>3 DEF ToSet
    <2> QED
      BY <2>1
  <1>6. \A x, y \in ToSet(nums) : f[x] = f[y] => x = y
    BY <1>1, <1>3, ShelvesApart
  <1>7. {f[x] : x \in ToSet(nums)} = {SeasonId(g, k) : k \in S}
    BY <1>1, <1>3
  <1> HIDE DEF f, children, S
  <1>8. ToSet(children) = {f[x] : x \in ToSet(nums)} /\ IsInjective(children)
    BY <1>3, <1>4, <1>5, <1>6, RenamedFacts
  <1>9. IsList(GroupTitle(g, said))
    <2>1. \A p \in said : Words(p.said)
      BY EpisodeFacts DEF OfSeries, GoodPlace
    <2>2. IsFiniteSet(said)
      <3>1. PICK T : T = OfSeries(place, g)
        OBVIOUS
      <3> DEFINE h == [id \in T |-> PlaceOf(place, id)]
      <3>2. IsFiniteSet(T)
        BY <3>1, EpisodeFacts
      <3>3. said = {h[id] : id \in T}
        BY <3>1
      <3> HIDE DEF h, said
      <3>4. IsFiniteSet({h[id] : id \in T})
        BY <3>2, ValuesAreFinite
      <3> QED
        BY <3>3, <3>4
    <2> HIDE DEF said
    <2>3. Words(GroupTitle(g, said))
      BY <1>1, <2>1, <2>2, GroupTitled
    <2> QED
      BY <2>3 DEF Words
  <1> HIDE DEF said
  <1>10. n.parent = root /\ n.kind = "folder" /\ n.title = GroupTitle(g, said) /\ n.children = children
    BY <1>2 DEF Node
  <1> QED
    BY <1>7, <1>8, <1>9, <1>10 DEF S

\* A season lists its episodes, each once.
LEMMA SeasonNodeFacts ==
  ASSUME NEW place, NEW cat, NEW t, NEW root, Places(place, cat, t, root), WellFormed(t),
         \A id \in DOMAIN t : OneWord(id), NEW g, NEW k \in Nat,
         NEW n, n = SeasonNode(place, g, k)
  PROVE  /\ n.parent = SeriesId(g) /\ n.kind = "folder" /\ IsList(n.title)
         /\ ToSet(n.children) = OfSeason(place, g, k) /\ IsInjective(n.children)
  <1>1. PICK S : S = OfSeason(place, g, k)
    OBVIOUS
  <1>2. S \subseteq Episodes(place) /\ S \subseteq DOMAIN t
    <2>1. S \subseteq Episodes(place)
      BY <1>1 DEF OfSeason, OfSeries
    <2>2. Episodes(place) \subseteq DOMAIN t
      BY EpisodeFacts DEF Places
    <2> QED
      BY <2>1, <2>2
  <1>3. IsFiniteSet(S)
    BY <1>2, EpisodeFacts, FS_Subset
  <1>4. \A id \in S : IsList(id) /\ ToSet(id) \subseteq ToSet(Alphabet)
    BY <1>2, WordFacts
  <1>5. PICK ids : ids = InSequence(S, Before)
    OBVIOUS
  <1>6. ToSet(ids) = S /\ IsInjective(ids) /\ IsList(ids)
    BY <1>3, <1>4, <1>5, InAlphabet, InSequenceIsList
  <1>7. \A id \in ToSet(ids) : PlaceOf(place, id).number \in Nat
    BY <1>2, <1>6, EpisodeFacts DEF GoodPlace
  <1>8. PICK q : q = ByNumber(place, ids)
    OBVIOUS
  <1>9. ToSet(q) = ToSet(ids) /\ IsInjective(q)
    BY <1>6, <1>7, <1>8, NumbersKeep
  <1>10. n.parent = SeriesId(g) /\ n.kind = "folder" /\ n.title = SeasonTitle(k) /\ n.children = q
    BY <1>1, <1>5, <1>8 DEF SeasonNode, Node
  <1>11. IsList(SeasonTitle(k))
    <2>1. PICK a, b : a = <<"specijali">> /\ b = <<"sezona", ToString(k)>>
      OBVIOUS
    <2>2. a = [i \in 1 .. 1 |-> a[i]] /\ b = [i \in 1 .. 2 |-> b[i]]
      BY <2>1
    <2>3. IsList(a) /\ IsList(b)
      BY <2>2, ListIntro
    <2> QED
      BY <2>1, <2>3 DEF SeasonTitle
  <1> QED
    BY <1>1, <1>6, <1>9, <1>10, <1>11

\* Nodes that differ in nothing that matters here.
Same(n, o) == n.parent = o.parent /\ n.kind = o.kind /\ n.title = o.title /\ n.children = o.children

LEMMA KeptOld ==
  ASSUME NEW cat, NEW t, NEW root, NEW old, Ready(cat, t, root, old),
         NEW place, Places(place, cat, t, root), NEW id \in DOMAIN old
  PROVE  Same(KeptNode(cat, place, id), old[id])
  <1>1. id \notin DOMAIN t /\ cat[id] = old[id] /\ IsNode(old[id])
    BY DEF Ready, WellFormed
  <1>2. Episodes(place) \subseteq DOMAIN place /\ DOMAIN place \subseteq DOMAIN t
    BY DEF Episodes, Places
  <1>3. id \notin Episodes(place) /\ id \notin DOMAIN place
    BY <1>1, <1>2
  <1>4. CASE IsSynthetic(id)
    BY <1>1, <1>3, <1>4 DEF KeptNode, Same
  <1>5. CASE ~IsSynthetic(id)
    <2>1. PICK s : s = old[id].children
      OBVIOUS
    <2>2. IsList(s) /\ ToSet(s) \subseteq DOMAIN old
      BY <1>1, <2>1 DEF IsNode, Ready, Listed
    <2>3. ToSet(s) \subseteq ToSet(s) \ Episodes(place)
      BY <1>2, <2>2 DEF Ready
    <2>4. Among(s, ToSet(s) \ Episodes(place)) = s
      BY <2>2, <2>3, AllOfIt
    <2>5. KeptNode(cat, place, id) = [old[id] EXCEPT !.children = s]
      BY <1>1, <1>3, <1>5, <2>1, <2>4 DEF KeptNode
    <2> QED
      BY <1>1, <2>1, <2>5 DEF Same, IsNode
  <1> QED
    BY <1>4, <1>5

LEMMA KeptNew ==
  ASSUME NEW cat, NEW t, NEW root, NEW old, Ready(cat, t, root, old),
         NEW place, Places(place, cat, t, root), NEW id \in DOMAIN t,
         NEW n, n = KeptNode(cat, place, id)
  PROVE  /\ n.kind = cat[id].kind /\ IsList(n.title)
         /\ n.parent = (IF id \in Episodes(place) THEN ShelfOf(place, id) ELSE cat[id].parent)
         /\ ToSet(n.children) = ToSet(cat[id].children) \ Episodes(place) /\ IsInjective(n.children)
  <1>1. PICK o : o = cat[id]
    OBVIOUS
  <1>2. /\ IsNode(o) /\ ~IsSynthetic(id) /\ IsInjective(o.children) /\ IsList(o.title)
        /\ o.kind # "folder" => ToSet(o.children) = {}
    BY <1>1, WordFacts DEF Ready, WellFormed, Listed, Titled
  <1>3. CASE id \in Episodes(place)
    <2>1. n = [o EXCEPT !.parent = ShelfOf(place, id), !.title = EpisodeTitle(PlaceOf(place, id))]
      BY <1>1, <1>3 DEF KeptNode
    <2>2. GoodPlace(PlaceOf(place, id)) /\ o.kind = "video"
      BY <1>1, <1>3, EpisodeFacts DEF Ready, Places, Episodes
    <2>3. IsList(EpisodeTitle(PlaceOf(place, id)))
      BY <2>2, EpisodeTitled DEF GoodPlace
    <2>4. /\ n.kind = o.kind /\ n.title = EpisodeTitle(PlaceOf(place, id)) /\ n.parent = ShelfOf(place, id)
          /\ n.children = o.children
      BY <1>2, <2>1 DEF IsNode
    <2>5. ToSet(n.children) = ToSet(o.children) \ Episodes(place)
      BY <1>2, <2>2, <2>4
    <2> QED
      BY <1>1, <1>2, <1>3, <2>3, <2>4, <2>5
  <1>4. CASE id \notin Episodes(place) /\ id \in DOMAIN place
    <2>1. PICK name : name = NameOf(o)
      OBVIOUS
    <2>2. KnownName(name) /\ o.kind = "video"
      BY <1>1, <1>4, <2>1 DEF Places
    <2>3. PICK p : p = ParseFile(name)
      OBVIOUS
    <2>4. Words(name.words) /\ Words(p.title) /\ IsFiniteSet(p.year)
      BY <2>2, <2>3, NamesAreParsed DEF KnownName
    <2>5. IsList(MovieTitle(name.words, p))
      BY <2>4, MovieTitled DEF Words
    <2>6. n = [o EXCEPT !.title = MovieTitle(name.words, p)]
      BY <1>1, <1>4, <2>1, <2>3 DEF KeptNode
    <2>7. /\ n.kind = o.kind /\ n.title = MovieTitle(name.words, p) /\ n.parent = o.parent
          /\ n.children = o.children
      BY <1>2, <2>6 DEF IsNode
    <2>8. ToSet(n.children) = ToSet(o.children) \ Episodes(place)
      BY <1>2, <2>2, <2>7
    <2> QED
      BY <1>1, <1>2, <1>4, <2>5, <2>7, <2>8
  <1>5. CASE id \notin Episodes(place) /\ id \notin DOMAIN place
    <2>1. PICK s : s = o.children
      OBVIOUS
    <2>2. PICK S : S = ToSet(s) \ Episodes(place)
      OBVIOUS
    <2>3. IsList(s) /\ IsInjective(s)
      BY <1>2, <2>1 DEF IsNode
    <2>4. ToSet(Among(s, S)) = ToSet(s) \cap S /\ IsInjective(Among(s, S))
      BY <2>3, AmongFacts
    <2>5. n = [o EXCEPT !.children = Among(s, S)]
      BY <1>1, <1>2, <1>5, <2>1, <2>2 DEF KeptNode
    <2>6. n.kind = o.kind /\ n.title = o.title /\ n.parent = o.parent /\ n.children = Among(s, S)
      BY <1>2, <2>5 DEF IsNode
    <2>7. ToSet(n.children) = ToSet(o.children) \ Episodes(place)
      BY <2>1, <2>2, <2>4, <2>6
    <2> QED
      BY <1>1, <1>2, <1>5, <2>4, <2>6, <2>7
  <1> QED
    BY <1>3, <1>4, <1>5

\* The three parts of the catalog that MoveUp makes.
LEMMA ShelfDomains ==
  ASSUME NEW cat, NEW t, NEW root, NEW old, Ready(cat, t, root, old),
         \A id \in DOMAIN old : OneWord(id) \/ Shelf(id, DOMAIN old),
         NEW place, Places(place, cat, t, root),
         DOMAIN NewSeries(root, place) \cap DOMAIN old = {}
  PROVE  /\ DOMAIN NewSeries(root, place) \cap (DOMAIN NewSeasons(place) \cup DOMAIN cat) = {}
         /\ DOMAIN NewSeasons(place) \cap DOMAIN cat = {}
         /\ \A g \in Slugs(place) : SeriesId(g) \in DOMAIN NewSeries(root, place)
         /\ \A id \in DOMAIN NewSeries(root, place) : \E g \in Slugs(place) : Words(g) /\ id = SeriesId(g)
         /\ \A id \in DOMAIN NewSeasons(place) :
               \E g \in Slugs(place) : \E n \in NumbersOf(place, g) : Words(g) /\ n \in Nat /\ id = SeasonId(g, n)
         /\ \A g \in Slugs(place) : \A n \in NumbersOf(place, g) : SeasonId(g, n) \in DOMAIN NewSeasons(place)
  <1>1. WellFormed(t)
    BY DEF Ready
  <1>2. \A g \in Slugs(place) : Words(g)
    BY <1>1, EpisodeFacts
  <1>3. \A g : NumbersOf(place, g) \subseteq Nat
    BY <1>1, EpisodeFacts
  <1>4. DOMAIN NewSeries(root, place) = {SeriesId(g) : g \in Slugs(place)}
    BY DEF NewSeries
  <1>5. DOMAIN NewSeasons(place) = {ShelfOf(place, id) : id \in Episodes(place)}
    BY DEF NewSeasons
  <1>6. ASSUME NEW id \in DOMAIN NewSeasons(place)
        PROVE  \E g \in Slugs(place) : \E n \in NumbersOf(place, g) : Words(g) /\ n \in Nat /\ id = SeasonId(g, n)
    <2>1. PICK e \in Episodes(place) : id = ShelfOf(place, e)
      BY <1>5
    <2>2. PICK p : p = PlaceOf(place, e)
      OBVIOUS
    <2>3. p.slug \in Slugs(place) /\ p.season \in NumbersOf(place, p.slug) /\ id = SeasonId(p.slug, p.season)
      BY <2>1, <2>2 DEF Slugs, NumbersOf, OfSeries, ShelfOf
    <2> QED
      BY <1>2, <1>3, <2>3
  <1>7. ASSUME NEW g \in Slugs(place), NEW n \in NumbersOf(place, g)
        PROVE  SeasonId(g, n) \in DOMAIN NewSeasons(place)
    <2>1. PICK e \in OfSeries(place, g) : n = PlaceOf(place, e).season
      BY DEF NumbersOf
    <2>2. e \in Episodes(place) /\ PlaceOf(place, e).slug = g
      BY DEF OfSeries
    <2>3. ShelfOf(place, e) = SeasonId(g, n)
      BY <2>1, <2>2 DEF ShelfOf
    <2> QED
      BY <1>5, <2>2, <2>3
  <1>8. \A id \in DOMAIN NewSeries(root, place) : \E g \in Slugs(place) : Words(g) /\ id = SeriesId(g)
    BY <1>2, <1>4
  <1>9. \A id \in DOMAIN NewSeries(root, place) : id \notin DOMAIN NewSeasons(place)
    BY <1>6, <1>8, ShelvesApart
  <1>10. \A id : Shelf(id, DOMAIN NewSeries(root, place)) => id \notin DOMAIN t
    BY ShelfIsNoWord DEF Ready
  <1>11. ASSUME NEW id \in DOMAIN NewSeries(root, place) PROVE Shelf(id, DOMAIN NewSeries(root, place))
    BY <1>8, <1>11 DEF Shelf
  <1>12. ASSUME NEW id \in DOMAIN NewSeasons(place) PROVE Shelf(id, DOMAIN NewSeries(root, place))
    BY <1>4, <1>6, <1>12 DEF Shelf
  <1>13. ASSUME NEW id \in DOMAIN NewSeasons(place), id \in DOMAIN old PROVE FALSE
    <2>1. PICK g \in Slugs(place), n \in Nat : Words(g) /\ id = SeasonId(g, n)
      BY <1>6
    <2>2. Shelf(id, DOMAIN old)
      BY <1>12, <1>13, ShelfIsNoWord
    <2>3. PICK h : Words(h) /\ SeriesId(h) \in DOMAIN old /\ (id = SeriesId(h) \/ \E m \in Nat : id = SeasonId(h, m))
      BY <2>2 DEF Shelf
    <2>4. id # SeriesId(h)
      BY <2>1, <2>3, ShelvesApart
    <2>5. PICK m \in Nat : id = SeasonId(h, m)
      BY <2>3, <2>4
    <2>6. g = h
      <3>1. SeasonId(g, n) = SeasonId(h, m) /\ Words(g) /\ Words(h)
        BY <2>1, <2>3, <2>5
      <3> QED
        BY <3>1, ShelvesApart
    <2> QED
      BY <1>4, <2>1, <2>3, <2>6
  <1>14. DOMAIN cat = DOMAIN t \cup DOMAIN old
    BY DEF Ready
  <1> QED
    BY <1>4, <1>6, <1>7, <1>8, <1>9, <1>10, <1>11, <1>12, <1>13, <1>14

\* What MoveUp leaves: episodes hang below the series, everything else of the
\* tree below its root, and the trees of other roots are as they were.
Moved(m, t, root, old, gone, series) ==
  /\ WellFormed(m) /\ Titled(m, DOMAIN m) /\ Listed(m) /\ IsFiniteSet(series)
  /\ WellFormed(old) /\ Listed(old) /\ DOMAIN t \cap DOMAIN old = {} /\ Top \notin DOMAIN m
  /\ root \in DOMAIN t /\ gone \subseteq DOMAIN t \ {root} /\ \A id \in gone : m[id].kind = "video"
  /\ DOMAIN t \cup DOMAIN old \cup series \subseteq DOMAIN m
  /\ \A id \in DOMAIN old : Same(m[id], old[id])
  /\ m[root].parent = Top /\ m[root].kind = "folder"
  /\ \A id \in DOMAIN m : \/ id \in DOMAIN t \/ id \in DOMAIN old
                          \/ id \notin DOMAIN t /\ Shelf(id, series) /\ m[id].kind = "folder"
  /\ \A id \in DOMAIN t : OneWord(id) /\ ToSet(m[id].children) \subseteq DOMAIN t \ gone
  /\ \A s \in series : /\ s \notin DOMAIN t \cup DOMAIN old /\ m[s].parent = root
                       /\ IsList(s) /\ ToSet(s) \subseteq ToSet(Alphabet)
  /\ \A id \in gone : \E s \in series, z \in DOMAIN m \ DOMAIN t :
        z \in ToSet(m[s].children) /\ id \in ToSet(m[z].children)
  /\ DOMAIN t \ gone \subseteq Reach(m, {root})

LEMMA MoveUpMoves ==
  ASSUME NEW cat, NEW t, NEW root, NEW old, Ready(cat, t, root, old),
         \A id \in DOMAIN old : OneWord(id) \/ Shelf(id, DOMAIN old),
         NEW place, Places(place, cat, t, root),
         MoveUp(cat, root, place).series \cap DOMAIN old = {}
  PROVE  Moved(MoveUp(cat, root, place).nodes, t, root, old, Episodes(place), MoveUp(cat, root, place).series)
  <1>1. PICK m, gone, series :
           m = MoveUp(cat, root, place).nodes /\ series = MoveUp(cat, root, place).series /\ gone = Episodes(place)
    OBVIOUS
  <1>2. PICK shelves, seasons, kept :
           shelves = NewSeries(root, place) /\ seasons = NewSeasons(place)
           /\ kept = [id \in DOMAIN cat |-> KeptNode(cat, place, id)]
    OBVIOUS
  <1>3. m = Over(shelves, Over(seasons, kept)) /\ series = DOMAIN shelves
    BY <1>1, <1>2, MoveUpShelves
  <1>4. /\ WellFormed(cat) /\ WellFormed(t) /\ WellFormed(old) /\ Listed(old) /\ Titled(cat, DOMAIN cat) /\ Listed(cat)
        /\ DOMAIN cat = DOMAIN t \cup DOMAIN old /\ DOMAIN t \cap DOMAIN old = {}
        /\ root \in DOMAIN t /\ cat[root].parent = Top /\ cat[root].kind = "folder"
        /\ \A id \in DOMAIN old : cat[id] = old[id]
        /\ \A id \in DOMAIN t : ToSet(cat[id].children) \subseteq DOMAIN t /\ OneWord(id)
        /\ \A id \in DOMAIN t : cat[id].kind # "folder" => ToSet(cat[id].children) = {}
        /\ DOMAIN t \subseteq Reach(cat, {root})
    BY DEF Ready
  <1>5. /\ DOMAIN shelves \cap (DOMAIN seasons \cup DOMAIN cat) = {} /\ DOMAIN seasons \cap DOMAIN cat = {}
        /\ \A g \in Slugs(place) : SeriesId(g) \in DOMAIN shelves
        /\ \A id \in DOMAIN shelves : \E g \in Slugs(place) : Words(g) /\ id = SeriesId(g)
        /\ \A id \in DOMAIN seasons :
              \E g \in Slugs(place) : \E n \in NumbersOf(place, g) : Words(g) /\ n \in Nat /\ id = SeasonId(g, n)
        /\ \A g \in Slugs(place) : \A n \in NumbersOf(place, g) : SeasonId(g, n) \in DOMAIN seasons
    BY <1>1, <1>2, <1>3, ShelfDomains
  <1>6. DOMAIN m = DOMAIN shelves \cup DOMAIN seasons \cup DOMAIN cat /\ DOMAIN kept = DOMAIN cat
    BY <1>2, <1>3 DEF Over
  <1>7. /\ \A id \in DOMAIN shelves : m[id] = shelves[id]
        /\ \A id \in DOMAIN seasons : m[id] = seasons[id]
        /\ \A id \in DOMAIN cat : m[id] = KeptNode(cat, place, id)
    BY <1>2, <1>3, <1>5 DEF Over
  <1>8. WellFormed(m) /\ IsFiniteSet(series)
    <2>1. DOMAIN place \subseteq DOMAIN cat
      BY <1>4 DEF Places
    <2> QED
      BY <1>1, <1>4, <2>1, MoveUpIsWell
  <1>9. gone \subseteq DOMAIN t \ {root} /\ gone \subseteq DOMAIN place /\ \A id \in gone : cat[id].kind = "video"
    BY <1>1 DEF Episodes, Places
  <1>10. \A id \in DOMAIN old : Same(m[id], old[id])
    BY <1>4, <1>7, KeptOld
  <1>11. ASSUME NEW id \in DOMAIN t
         PROVE  /\ m[id].kind = cat[id].kind /\ IsList(m[id].title)
                /\ m[id].parent = (IF id \in gone THEN ShelfOf(place, id) ELSE cat[id].parent)
                /\ ToSet(m[id].children) = ToSet(cat[id].children) \ gone /\ IsInjective(m[id].children)
    <2>1. PICK n : n = KeptNode(cat, place, id)
      OBVIOUS
    <2>2. m[id] = n
      BY <1>4, <1>7, <2>1
    <2> QED
      BY <1>1, <2>1, <2>2, KeptNew
  <1>12. ASSUME NEW g \in Slugs(place)
         PROVE  /\ m[SeriesId(g)].parent = root /\ m[SeriesId(g)].kind = "folder" /\ IsList(m[SeriesId(g)].title)
                /\ ToSet(m[SeriesId(g)].children) = {SeasonId(g, k) : k \in NumbersOf(place, g)}
                /\ IsInjective(m[SeriesId(g)].children)
    <2>1. \A h \in Slugs(place) : Words(h)
      BY <1>4, EpisodeFacts
    <2>2. \A h \in Slugs(place) : SeriesId(h) = SeriesId(g) => h = g
      BY <2>1, ShelvesApart
    <2>3. (CHOOSE h \in Slugs(place) : SeriesId(h) = SeriesId(g)) = g
      BY <2>2
    <2>4. PICK n : n = SeriesNode(root, place, g)
      OBVIOUS
    <2>5. shelves[SeriesId(g)] = n
      BY <1>2, <2>3, <2>4 DEF NewSeries
    <2>6. m[SeriesId(g)] = n
      BY <1>5, <1>7, <2>5
    <2> QED
      BY <1>4, <2>4, <2>6, SeriesNodeFacts
  <1>13. ASSUME NEW g \in Slugs(place), NEW k \in NumbersOf(place, g)
         PROVE  /\ m[SeasonId(g, k)].parent = SeriesId(g) /\ m[SeasonId(g, k)].kind = "folder"
                /\ IsList(m[SeasonId(g, k)].title)
                /\ ToSet(m[SeasonId(g, k)].children) = OfSeason(place, g, k)
                /\ IsInjective(m[SeasonId(g, k)].children)
    <2>1. Words(g) /\ k \in Nat
      BY <1>4, EpisodeFacts
    <2>2. SeasonId(g, k) \in DOMAIN seasons
      BY <1>5
    <2>3. PICK one : one = CHOOSE id \in Episodes(place) : ShelfOf(place, id) = SeasonId(g, k)
      OBVIOUS
    <2>4. \E id \in Episodes(place) : ShelfOf(place, id) = SeasonId(g, k)
      BY <1>2, <2>2 DEF NewSeasons
    <2>5. one \in Episodes(place) /\ ShelfOf(place, one) = SeasonId(g, k)
      BY <2>3, <2>4
    <2>6. PICK p : p = PlaceOf(place, one)
      OBVIOUS
    <2>7. Words(p.slug) /\ p.season \in Nat /\ SeasonId(p.slug, p.season) = SeasonId(g, k)
      BY <1>4, <2>5, <2>6, EpisodeFacts DEF GoodPlace, ShelfOf
    <2>8. p.slug = g /\ p.season = k
      BY <2>1, <2>7, ShelvesApart
    <2>9. seasons[SeasonId(g, k)] = SeasonNode(place, g, k)
      BY <1>2, <2>2, <2>3, <2>6, <2>8 DEF NewSeasons
    <2>10. PICK n : n = SeasonNode(place, g, k)
      OBVIOUS
    <2>11. m[SeasonId(g, k)] = n
      BY <1>7, <2>2, <2>9, <2>10
    <2> QED
      BY <1>4, <2>1, <2>10, <2>11, SeasonNodeFacts
  <1>14. ASSUME NEW id \in DOMAIN seasons
         PROVE  \E g \in Slugs(place), k \in Nat : Words(g) /\ k \in NumbersOf(place, g) /\ id = SeasonId(g, k)
    BY <1>5
  <1>15. Titled(m, DOMAIN m)
    <2>1. \A id \in DOMAIN old : IsList(m[id].title)
      BY <1>4, <1>10 DEF Same, Titled
    <2>2. \A id \in DOMAIN shelves : IsList(m[id].title)
      BY <1>5, <1>12
    <2>3. \A id \in DOMAIN seasons : IsList(m[id].title)
      BY <1>13, <1>14
    <2> QED
      BY <1>4, <1>6, <1>11, <2>1, <2>2, <2>3 DEF Titled
  <1>16. Listed(m)
    <2>1. ASSUME NEW up \in DOMAIN t
          PROVE  /\ IsInjective(m[up].children)
                 /\ \A id \in ToSet(m[up].children) : id \in DOMAIN m /\ m[id].parent = up
      <3>1. ASSUME NEW id \in ToSet(m[up].children) PROVE id \in DOMAIN m /\ m[id].parent = up
        <4>1. id \in ToSet(cat[up].children) /\ id \notin gone
          BY <1>11
        <4>2. id \in DOMAIN t
          BY <1>4, <4>1
        <4>3. up \in DOMAIN cat
          BY <1>4
        <4>4. cat[id].parent = up
          BY <1>4, <4>1, <4>3 DEF Listed
        <4> QED
          BY <1>4, <1>6, <1>11, <4>1, <4>2, <4>4
      <3> QED
        BY <1>11, <3>1
    <2>2. ASSUME NEW up \in DOMAIN old
          PROVE  /\ IsInjective(m[up].children)
                 /\ \A id \in ToSet(m[up].children) : id \in DOMAIN m /\ m[id].parent = up
      <3>1. m[up].children = old[up].children
        BY <1>10 DEF Same
      <3>2. \A id \in ToSet(old[up].children) : id \in DOMAIN old /\ m[id].parent = up
        BY <1>4, <1>10 DEF Listed, Same
      <3> QED
        BY <1>4, <1>6, <3>1, <3>2 DEF Listed
    <2>3. ASSUME NEW up \in DOMAIN shelves
          PROVE  /\ IsInjective(m[up].children)
                 /\ \A id \in ToSet(m[up].children) : id \in DOMAIN m /\ m[id].parent = up
      <3>1. PICK g \in Slugs(place) : up = SeriesId(g)
        BY <1>5
      <3>2. \A k \in NumbersOf(place, g) : SeasonId(g, k) \in DOMAIN m /\ m[SeasonId(g, k)].parent = up
        BY <1>5, <1>6, <1>13, <3>1
      <3> QED
        BY <1>12, <3>1, <3>2
    <2>4. ASSUME NEW up \in DOMAIN seasons
          PROVE  /\ IsInjective(m[up].children)
                 /\ \A id \in ToSet(m[up].children) : id \in DOMAIN m /\ m[id].parent = up
      <3>1. PICK g \in Slugs(place), k \in Nat : k \in NumbersOf(place, g) /\ up = SeasonId(g, k)
        BY <1>14
      <3>2. \A id \in OfSeason(place, g, k) : id \in gone /\ ShelfOf(place, id) = up
        BY <1>1, <3>1 DEF OfSeason, OfSeries, ShelfOf
      <3>3. \A id \in OfSeason(place, g, k) : id \in DOMAIN m /\ m[id].parent = up
        BY <1>4, <1>6, <1>9, <1>11, <3>2
      <3> QED
        BY <1>13, <3>1, <3>3
    <2> QED
      BY <1>4, <1>6, <2>1, <2>2, <2>3, <2>4 DEF Listed
  <1>17. \A id \in DOMAIN m : \/ id \in DOMAIN t \/ id \in DOMAIN old
                              \/ id \notin DOMAIN t /\ Shelf(id, series) /\ m[id].kind = "folder"
    <2>1. ASSUME NEW id \in DOMAIN shelves PROVE id \notin DOMAIN t /\ Shelf(id, series) /\ m[id].kind = "folder"
      <3>1. PICK g \in Slugs(place) : Words(g) /\ id = SeriesId(g)
        BY <1>5
      <3>2. Shelf(id, series)
        BY <1>3, <3>1 DEF Shelf
      <3> QED
        BY <1>4, <1>5, <1>12, <3>1, <3>2
    <2>2. ASSUME NEW id \in DOMAIN seasons PROVE id \notin DOMAIN t /\ Shelf(id, series) /\ m[id].kind = "folder"
      <3>1. PICK g \in Slugs(place), k \in Nat : Words(g) /\ k \in NumbersOf(place, g) /\ id = SeasonId(g, k)
        BY <1>14
      <3>2. Shelf(id, series)
        BY <1>3, <1>5, <3>1 DEF Shelf
      <3> QED
        BY <1>4, <1>5, <1>13, <3>1, <3>2
    <2> QED
      BY <1>4, <1>6, <2>1, <2>2
  <1>18. \A s \in series : /\ s \notin DOMAIN t \cup DOMAIN old /\ m[s].parent = root
                           /\ IsList(s) /\ ToSet(s) \subseteq ToSet(Alphabet)
    <2> TAKE s \in series
    <2>1. PICK g \in Slugs(place) : Words(g) /\ s = SeriesId(g)
      BY <1>3, <1>5
    <2>2. s \notin DOMAIN t \cup DOMAIN old
      BY <1>3, <1>4, <1>5
    <2> QED
      BY <1>12, <2>1, <2>2, SeriesIdShape
  <1>19. \A id \in gone : \E s \in series, z \in DOMAIN m \ DOMAIN t :
            z \in ToSet(m[s].children) /\ id \in ToSet(m[z].children)
    <2> TAKE id \in gone
    <2>1. PICK p : p = PlaceOf(place, id)
      OBVIOUS
    <2>2. p.slug \in Slugs(place) /\ p.season \in NumbersOf(place, p.slug) /\ id \in OfSeason(place, p.slug, p.season)
      BY <1>1, <2>1 DEF Slugs, NumbersOf, OfSeries, OfSeason
    <2>3. PICK s, z : s = SeriesId(p.slug) /\ z = SeasonId(p.slug, p.season)
      OBVIOUS
    <2>4. s \in series /\ z \in DOMAIN seasons
      BY <1>3, <1>5, <2>2, <2>3
    <2>5. z \in ToSet(m[s].children)
      BY <1>12, <2>2, <2>3
    <2>6. id \in ToSet(m[z].children)
      BY <1>13, <2>2, <2>3
    <2>7. z \in DOMAIN m \ DOMAIN t
      BY <1>4, <1>5, <1>6, <2>4
    <2> QED
      BY <2>4, <2>5, <2>6, <2>7
  <1>20. DOMAIN t \ gone \subseteq Reach(m, {root})
    <2>1. PICK now : now = Reach(m, {root})
      OBVIOUS
    <2>2. {root} \in SUBSET DOMAIN m /\ {root} \in SUBSET DOMAIN cat
      BY <1>4, <1>6
    <2>3. root \in now /\ Closed(m, now)
      BY <1>8, <2>1, <2>2, ReachFacts
    <2> DEFINE S == (now \cap DOMAIN t) \cup gone
    <2>4. Closed(cat, S)
      <3> SUFFICES ASSUME NEW x \in S, NEW y \in ToSet(Children(cat, x)) PROVE y \in S
        BY DEF Closed
      <3>1. x \in DOMAIN t /\ x \in DOMAIN cat /\ x \in DOMAIN m
        BY <1>4, <1>6, <1>9
      <3>2. y \in ToSet(cat[x].children)
        BY <1>4, <3>1, ChildrenFacts
      <3>3. x \notin gone
        BY <1>4, <1>9, <3>1, <3>2
      <3>4. y \in DOMAIN t
        BY <1>4, <3>1, <3>2
      <3>5. CASE y \in gone
        BY <3>5
      <3>6. CASE y \notin gone
        <4>1. y \in ToSet(m[x].children) /\ y \in DOMAIN m
          BY <1>4, <1>6, <1>11, <3>1, <3>2, <3>4, <3>6
        <4>2. y \in ToSet(Children(m, x))
          BY <1>8, <3>1, <4>1, ChildrenFacts
        <4>3. x \in now
          BY <3>3
        <4> QED
          BY <2>3, <3>4, <4>2, <4>3 DEF Closed
      <3> QED
        BY <3>5, <3>6
    <2>5. {root} \subseteq S
      BY <1>4, <2>3
    <2> HIDE DEF S
    <2>6. Reach(cat, {root}) \subseteq S
      BY <1>4, <2>2, <2>4, <2>5, ReachFacts
    <2> QED
      BY <1>4, <2>1, <2>6 DEF S
  <1>21. \A id \in DOMAIN t : OneWord(id) /\ ToSet(m[id].children) \subseteq DOMAIN t \ gone
    BY <1>4, <1>11
  <1>22. /\ m[root].parent = Top /\ m[root].kind = "folder"
         /\ \A id \in gone : m[id].kind = "video"
    BY <1>4, <1>9, <1>11
  <1>23. DOMAIN t \cup DOMAIN old \cup series \subseteq DOMAIN m
    BY <1>3, <1>4, <1>6
  <1>24. Top \notin DOMAIN m
    <2>1. Top \notin DOMAIN cat
      BY DEF Ready
    <2>2. ~IsSynthetic(Top)
      BY DEF IsSynthetic, Top
    <2>3. \A id \in DOMAIN shelves \cup DOMAIN seasons : Shelf(id, series)
      <3>1. \A id \in DOMAIN shelves : Shelf(id, series)
        BY <1>3, <1>5 DEF Shelf
      <3>2. \A id \in DOMAIN seasons : Shelf(id, series)
        BY <1>3, <1>5, <1>14 DEF Shelf
      <3> QED
        BY <3>1, <3>2
    <2> QED
      BY <1>6, <2>1, <2>2, <2>3, ShelfIsNoWord
  <1>25. Moved(m, t, root, old, gone, series)
    BY <1>4, <1>8, <1>9, <1>10, <1>15, <1>16, <1>17, <1>18, <1>19, <1>20, <1>21, <1>22, <1>23, <1>24 DEF Moved
  <1> QED
    BY <1>1, <1>25

-----------------------------------------------------------------------------
(* Sorting the lists of folders.                                           *)

\* The same catalog but for the order of the lists.
Resorted(new, cat) ==
  /\ DOMAIN new = DOMAIN cat
  /\ \A id \in DOMAIN cat : /\ new[id].parent = cat[id].parent /\ new[id].kind = cat[id].kind
                            /\ new[id].title = cat[id].title
                            /\ ToSet(new[id].children) = ToSet(cat[id].children) /\ IsInjective(new[id].children)

LEMMA SortedFolder ==
  ASSUME NEW cat, WellFormed(cat), Listed(cat), Titled(cat, DOMAIN cat), NEW id \in DOMAIN cat,
         NEW q, q = InOrder(cat, Children(cat, id))
  PROVE  IsList(q) /\ ToSet(q) = ToSet(cat[id].children) /\ IsInjective(q)
  <1>1. PICK s : s = Children(cat, id)
    OBVIOUS
  <1>2. IsList(cat[id].children) /\ IsInjective(cat[id].children) /\ ToSet(cat[id].children) \subseteq DOMAIN cat
    BY DEF WellFormed, IsNode, Listed
  <1>3. s = Among(cat[id].children, DOMAIN cat)
    BY <1>1 DEF Children
  <1>4. s = cat[id].children
    BY <1>2, <1>3, AllOfIt
  <1>5. Titled(cat, ToSet(s))
    BY <1>2, <1>4 DEF Titled
  <1> QED
    BY <1>1, <1>2, <1>4, <1>5, InOrderKeeps

LEMMA SomeSorted ==
  ASSUME NEW cat, WellFormed(cat), Listed(cat), Titled(cat, DOMAIN cat), NEW S,
         NEW new, new = [id \in DOMAIN cat |->
                           IF id \in S THEN [cat[id] EXCEPT !.children = InOrder(cat, Children(cat, id))] ELSE cat[id]]
  PROVE  Resorted(new, cat)
  <1>1. ASSUME NEW id \in DOMAIN cat
        PROVE  /\ new[id].parent = cat[id].parent /\ new[id].kind = cat[id].kind
               /\ new[id].title = cat[id].title
               /\ ToSet(new[id].children) = ToSet(cat[id].children) /\ IsInjective(new[id].children)
    <2>1. PICK q : q = InOrder(cat, Children(cat, id))
      OBVIOUS
    <2>2. ToSet(q) = ToSet(cat[id].children) /\ IsInjective(q)
      BY <2>1, SortedFolder
    <2>3. IsNode(cat[id]) /\ IsInjective(cat[id].children)
      BY DEF WellFormed, Listed
    <2>4. CASE id \in S
      <3>1. new[id] = [cat[id] EXCEPT !.children = q]
        BY <2>1, <2>4
      <3>2. new[id].parent = cat[id].parent /\ new[id].kind = cat[id].kind /\ new[id].title = cat[id].title /\ new[id].children = q
        BY <2>3, <3>1 DEF IsNode
      <3> QED
        BY <2>2, <3>2
    <2>5. CASE id \notin S
      BY <2>3, <2>5
    <2> QED
      BY <2>4, <2>5
  <1>2. DOMAIN new = DOMAIN cat
    OBVIOUS
  <1> QED
    BY <1>1, <1>2 DEF Resorted

LEMMA ResortedIsSound ==
  ASSUME NEW cat, NEW roots, NEW ids, Sound(cat, roots, ids), NEW new, WellFormed(new), Resorted(new, cat)
  PROVE  Sound(new, roots, ids)
  <1>1. WellFormed(cat) /\ Titled(cat, DOMAIN cat) /\ Listed(cat) /\ roots \in SUBSET DOMAIN cat
    BY DEF Sound
  <1>2. DOMAIN new = DOMAIN cat
    BY DEF Resorted
  <1>3. Titled(new, DOMAIN new) /\ Listed(new)
    BY <1>1 DEF Resorted, Titled, Listed
  <1>4. \A id \in DOMAIN cat : ToSet(Children(cat, id)) \subseteq ToSet(Children(new, id))
    <2> TAKE id \in DOMAIN cat
    <2>1. ToSet(Children(cat, id)) = ToSet(cat[id].children) \cap DOMAIN cat
      BY <1>1, ChildrenFacts
    <2>2. ToSet(Children(new, id)) = ToSet(new[id].children) \cap DOMAIN new
      BY <1>2, ChildrenFacts
    <2> QED
      BY <1>2, <2>1, <2>2 DEF Resorted
  <1>5. Reach(cat, roots) \subseteq DOMAIN cat
    BY <1>1, ReachFacts
  <1>6. Reach(cat, roots) \subseteq Reach(new, roots)
    BY <1>1, <1>2, <1>4, <1>5, ReachGrows
  <1> QED
    BY <1>1, <1>2, <1>3, <1>6 DEF Sound, Resorted

\* A tree that is not arranged is added to what is there.
LEMMA ReadyIsSound ==
  ASSUME NEW t, NEW root, NEW cat, NEW old, Ready(cat, t, root, old),
         NEW roots, NEW ids, Sound(old, roots, ids)
  PROVE  Sound(cat, roots \cup {root}, ids \cup DOMAIN t)
  <1>1. /\ WellFormed(cat) /\ WellFormed(old) /\ DOMAIN cat = DOMAIN t \cup DOMAIN old
        /\ \A id \in DOMAIN old : cat[id] = old[id]
        /\ Listed(cat) /\ Titled(cat, DOMAIN cat) /\ root \in DOMAIN t /\ cat[root].parent = Top
        /\ \A id \in DOMAIN t : OneWord(id)
        /\ DOMAIN t \subseteq Reach(cat, {root})
    BY DEF Ready
  <1>2. /\ roots \subseteq DOMAIN old /\ \A r \in roots : old[r].parent = Top
        /\ \A id \in DOMAIN old : old[id].kind = "video" => id \in Reach(old, roots)
        /\ \A id \in ids : OneWord(id)
        /\ \A id \in DOMAIN old : id \in ids \/ Shelf(id, DOMAIN old)
    BY DEF Sound
  <1>3. {root} \in SUBSET DOMAIN cat /\ roots \in SUBSET DOMAIN old /\ roots \cup {root} \in SUBSET DOMAIN cat
    BY <1>1, <1>2
  <1>4. Reach(cat, {root}) \subseteq Reach(cat, roots \cup {root})
    BY <1>1, <1>3, ReachGrows
  <1>5. Reach(old, roots) \subseteq Reach(cat, roots \cup {root})
    <2>1. Reach(old, roots) \subseteq DOMAIN old
      BY <1>1, <1>3, ReachFacts
    <2>2. \A id \in DOMAIN old : ToSet(Children(old, id)) \subseteq ToSet(Children(cat, id))
      <3> TAKE id \in DOMAIN old
      <3>1. ToSet(Children(old, id)) = ToSet(old[id].children) \cap DOMAIN old
        BY <1>1, ChildrenFacts
      <3>2. id \in DOMAIN cat /\ ToSet(Children(cat, id)) = ToSet(cat[id].children) \cap DOMAIN cat
        BY <1>1, ChildrenFacts
      <3> QED
        BY <1>1, <3>1, <3>2
    <2> QED
      BY <1>1, <1>3, <2>1, <2>2, ReachGrows
  <1>6. \A id : Shelf(id, DOMAIN old) => Shelf(id, DOMAIN cat)
    BY <1>1 DEF Shelf
  <1>7. \A r \in roots \cup {root} : cat[r].parent = Top
    BY <1>1, <1>2
  <1>8. \A id \in DOMAIN cat : cat[id].kind = "video" => id \in Reach(cat, roots \cup {root})
    BY <1>1, <1>2, <1>4, <1>5
  <1>9. \A id \in DOMAIN cat : id \in ids \cup DOMAIN t \/ Shelf(id, DOMAIN cat)
    BY <1>1, <1>2, <1>6
  <1> QED
    BY <1>1, <1>2, <1>3, <1>7, <1>8, <1>9 DEF Sound

-----------------------------------------------------------------------------
(* Folders without a video are removed.                                    *)

\* Before the series are put in the list of the root.
Shelved(n, t, root, old, series) ==
  /\ WellFormed(n) /\ Titled(n, DOMAIN n) /\ Listed(n) /\ IsFiniteSet(series)
  /\ root \in DOMAIN t /\ DOMAIN old \cup series \cup {root} \subseteq DOMAIN n /\ DOMAIN t \cap DOMAIN old = {}
  /\ \A id \in DOMAIN old : Same(n[id], old[id])
  /\ n[root].parent = Top /\ ToSet(n[root].children) \subseteq DOMAIN t
  /\ \A id \in DOMAIN n : id \in DOMAIN t \/ id \in DOMAIN old \/ (Shelf(id, series) /\ n[id].kind = "folder")
  /\ \A id \in DOMAIN t : OneWord(id)
  /\ \A s \in series : /\ s \notin DOMAIN t \cup DOMAIN old /\ n[s].parent = root
                       /\ IsList(s) /\ ToSet(s) \subseteq ToSet(Alphabet)
  /\ \A id \in DOMAIN n \cap DOMAIN t : n[id].kind = "video" =>
        \/ id \in Reach(n, {root})
        \/ \E s \in series, z \in DOMAIN n : z \in ToSet(n[s].children) /\ id \in ToSet(n[z].children)

LEMMA MovedIsShelved ==
  ASSUME NEW m, NEW t, NEW root, NEW old, NEW gone, NEW series, Moved(m, t, root, old, gone, series)
  PROVE  Shelved(m, t, root, old, series)
  <1>1. \A id \in DOMAIN m \cap DOMAIN t :
           \/ id \in Reach(m, {root})
           \/ \E s \in series, z \in DOMAIN m : z \in ToSet(m[s].children) /\ id \in ToSet(m[z].children)
    BY DEF Moved
  <1>2. root \in DOMAIN m
    BY DEF Moved
  <1> QED
    BY <1>1, <1>2 DEF Moved, Shelved

\* What is below the root and lost has no video below it.
LEMMA PrunedReach ==
  ASSUME NEW m, WellFormed(m), NEW n, WellFormed(n), NEW root, root \in DOMAIN m, root \in DOMAIN n,
         DOMAIN n \subseteq DOMAIN m,
         \A x \in DOMAIN n : ToSet(Children(n, x)) = ToSet(Children(m, x)) \cap DOMAIN n,
         \A x \in Reach(m, {root}) : HasVideo(m, x) => x \in DOMAIN n,
         NEW id \in Reach(m, {root}), m[id].kind = "video"
  PROVE  id \in Reach(n, {root})
  <1>1. PICK now : now = Reach(n, {root})
    OBVIOUS
  <1>2. {root} \in SUBSET DOMAIN m /\ {root} \in SUBSET DOMAIN n
    OBVIOUS
  <1>3. root \in now /\ now \subseteq DOMAIN n /\ Closed(n, now)
    BY <1>1, <1>2, ReachFacts
  <1>4. PICK was : was = Reach(m, {root})
    OBVIOUS
  <1>5. root \in was /\ was \subseteq DOMAIN m /\ Closed(m, was)
    BY <1>2, <1>4, ReachFacts
  <1> DEFINE T == now \cup {x \in was : ~HasVideo(m, x)}
             S == T \cap was
  <1>6. ASSUME NEW x \in was, NEW y \in ToSet(Children(m, x)), HasVideo(m, y) PROVE HasVideo(m, x)
    <2>1. y \in was /\ {x} \in SUBSET DOMAIN m /\ {y} \in SUBSET DOMAIN m
      BY <1>5 DEF Closed
    <2>2. x \in Reach(m, {x}) /\ Closed(m, Reach(m, {x}))
      BY <2>1, ReachFacts
    <2>3. {y} \subseteq Reach(m, {x})
      BY <2>2 DEF Closed
    <2>4. Reach(m, {y}) \subseteq Reach(m, {x})
      BY <2>1, <2>2, <2>3, ReachFacts
    <2> QED
      BY <1>6, <2>4 DEF HasVideo
  <1>7. Closed(m, S)
    <2> SUFFICES ASSUME NEW x \in S, NEW y \in ToSet(Children(m, x)) PROVE y \in S
      BY DEF Closed
    <2>1. x \in was /\ y \in was
      BY <1>5 DEF Closed
    <2>2. CASE ~HasVideo(m, y)
      BY <2>1, <2>2
    <2>3. CASE HasVideo(m, y)
      <3>1. HasVideo(m, x)
        BY <1>6, <2>1, <2>3
      <3>2. x \in now /\ x \in DOMAIN n
        BY <1>3, <3>1
      <3>3. y \in DOMAIN n
        BY <1>4, <2>1, <2>3
      <3>4. y \in ToSet(Children(n, x))
        BY <3>2, <3>3
      <3>5. y \in now
        BY <1>3, <3>2, <3>4 DEF Closed
      <3> QED
        BY <2>1, <3>5
    <2> QED
      BY <2>2, <2>3
  <1>8. {root} \subseteq S
    BY <1>3, <1>5
  <1> HIDE DEF S
  <1>9. was \subseteq S
    BY <1>2, <1>4, <1>7, <1>8, ReachFacts
  <1>10. HasVideo(m, id)
    <2>1. {id} \in SUBSET DOMAIN m
      BY <1>4, <1>5
    <2>2. id \in Reach(m, {id})
      BY <2>1, ReachFacts
    <2> QED
      BY <2>2 DEF HasVideo
  <1> QED
    BY <1>1, <1>4, <1>9, <1>10 DEF S

LEMMA PrunedIsShelved ==
  ASSUME NEW m, NEW t, NEW root, NEW old, NEW gone, NEW series, Moved(m, t, root, old, gone, series)
  PROVE  Shelved(PruneEmpty(m, root), t, root, old, series)
  <1>1. PICK n : n = PruneEmpty(m, root)
    OBVIOUS
  <1>2. PICK empty : empty = {id \in Descendants(m, root) :
                                m[id].kind = "folder" /\ ~IsSynthetic(id) /\ ~HasVideo(m, id)}
    OBVIOUS
  <1>3. n = [id \in DOMAIN m \ empty |->
               [m[id] EXCEPT !.children = Among(m[id].children, ToSet(m[id].children) \ empty)]]
    BY <1>1, <1>2 DEF PruneEmpty
  <1>4. /\ WellFormed(m) /\ Titled(m, DOMAIN m) /\ Listed(m) /\ IsFiniteSet(series) /\ Top \notin DOMAIN m
        /\ WellFormed(old) /\ Listed(old) /\ DOMAIN t \cap DOMAIN old = {}
        /\ root \in DOMAIN t /\ gone \subseteq DOMAIN t \ {root} /\ \A id \in gone : m[id].kind = "video"
        /\ DOMAIN t \cup DOMAIN old \cup series \subseteq DOMAIN m
        /\ \A id \in DOMAIN old : Same(m[id], old[id])
        /\ m[root].parent = Top
        /\ \A id \in DOMAIN t : OneWord(id) /\ ToSet(m[id].children) \subseteq DOMAIN t \ gone
        /\ \A s \in series : /\ s \notin DOMAIN t \cup DOMAIN old /\ m[s].parent = root
                             /\ IsList(s) /\ ToSet(s) \subseteq ToSet(Alphabet)
        /\ \A id \in gone : \E s \in series, z \in DOMAIN m \ DOMAIN t :
              z \in ToSet(m[s].children) /\ id \in ToSet(m[z].children)
        /\ DOMAIN t \ gone \subseteq Reach(m, {root})
    BY DEF Moved
  <1>5. WellFormed(n)
    BY <1>1, <1>4, PruneIsWell
  <1>6. Descendants(m, root) \subseteq DOMAIN t \ {root}
    <2>1. PICK first : first = ToSet(Children(m, root))
      OBVIOUS
    <2>2. ToSet(Children(m, root)) = ToSet(m[root].children) \cap DOMAIN m
      BY <1>4, ChildrenFacts
    <2>3. first \in SUBSET DOMAIN t /\ first \in SUBSET DOMAIN m
      BY <1>4, <2>1, <2>2
    <2>4. Closed(m, DOMAIN t)
      <3> SUFFICES ASSUME NEW x \in DOMAIN t PROVE ToSet(Children(m, x)) \subseteq DOMAIN t
        BY DEF Closed
      <3>1. ToSet(Children(m, x)) = ToSet(m[x].children) \cap DOMAIN m
        BY <1>4, ChildrenFacts
      <3> QED
        BY <1>4, <3>1
    <2>5. Reach(m, first) \subseteq DOMAIN t
      BY <1>4, <2>3, <2>4, ReachFacts
    <2>6. ASSUME NEW up \in DOMAIN m, root \in ToSet(Children(m, up)) PROVE FALSE
      <3>1. root \in ToSet(m[up].children)
        BY <1>4, <2>6, ChildrenFacts
      <3>2. m[root].parent = up
        BY <1>4, <3>1 DEF Listed
      <3> QED
        BY <1>4, <3>2
    <2>7. root \notin first
      BY <1>4, <2>1, <2>6
    <2>8. root \notin Reach(m, first)
      <3> SUFFICES ASSUME root \in Reach(m, first) PROVE FALSE
        OBVIOUS
      <3>1. PICK up \in Reach(m, first) : root \in ToSet(Children(m, up))
        BY <1>4, <2>3, <2>7, ReachedIsListed
      <3> QED
        BY <1>4, <2>5, <2>6, <3>1
    <2> QED
      BY <2>1, <2>5, <2>8 DEF Descendants
  <1>7. empty \subseteq DOMAIN t \ {root} /\ empty \cap gone = {} /\ empty \cap DOMAIN old = {} /\ empty \cap series = {}
    <2>1. empty \subseteq DOMAIN t \ {root} /\ \A id \in empty : m[id].kind = "folder"
      BY <1>2, <1>6
    <2> QED
      BY <1>4, <2>1
  <1>8. DOMAIN n = DOMAIN m \ empty
    BY <1>3
  <1>9. ASSUME NEW id \in DOMAIN n
        PROVE  /\ n[id].parent = m[id].parent /\ n[id].kind = m[id].kind /\ n[id].title = m[id].title
               /\ n[id].children = Among(m[id].children, ToSet(m[id].children) \ empty)
               /\ ToSet(n[id].children) = ToSet(m[id].children) \ empty /\ IsInjective(n[id].children)
    <2>1. PICK s, S : s = m[id].children /\ S = ToSet(s) \ empty
      OBVIOUS
    <2>2. IsNode(m[id]) /\ IsList(s) /\ IsInjective(s)
      BY <1>4, <1>8, <2>1 DEF WellFormed, IsNode, Listed
    <2>3. n[id] = [m[id] EXCEPT !.children = Among(s, S)]
      BY <1>3, <1>8, <2>1
    <2>4. ToSet(Among(s, S)) = ToSet(s) \cap S /\ IsInjective(Among(s, S))
      BY <2>2, AmongFacts
    <2>5. /\ n[id].parent = m[id].parent /\ n[id].kind = m[id].kind /\ n[id].title = m[id].title
          /\ n[id].children = Among(s, S)
      BY <2>2, <2>3 DEF IsNode
    <2> QED
      BY <2>1, <2>4, <2>5
  <1>10. Titled(n, DOMAIN n)
    BY <1>4, <1>8, <1>9 DEF Titled
  <1>11. Listed(n)
    <2> SUFFICES ASSUME NEW up \in DOMAIN n, NEW id \in ToSet(n[up].children)
                 PROVE  id \in DOMAIN n /\ n[id].parent = up
      BY <1>9 DEF Listed
    <2>1. up \in DOMAIN m /\ id \in ToSet(m[up].children) /\ id \notin empty
      BY <1>8, <1>9
    <2>2. id \in DOMAIN m /\ m[id].parent = up
      BY <1>4, <2>1 DEF Listed
    <2> QED
      BY <1>8, <1>9, <2>1, <2>2
  <1>12. DOMAIN old \cup series \cup {root} \subseteq DOMAIN n
    BY <1>4, <1>7, <1>8
  <1>13. ASSUME NEW id \in DOMAIN old PROVE Same(n[id], old[id])
    <2>1. id \in DOMAIN n /\ Same(m[id], old[id])
      BY <1>4, <1>12
    <2>2. PICK s : s = old[id].children
      OBVIOUS
    <2>3. IsList(s) /\ ToSet(s) \subseteq DOMAIN old
      BY <1>4, <2>2 DEF WellFormed, IsNode, Listed
    <2>4. ToSet(s) \subseteq ToSet(s) \ empty
      BY <1>7, <2>3
    <2>5. Among(s, ToSet(s) \ empty) = s
      BY <2>3, <2>4, AllOfIt
    <2>6. m[id].children = s
      BY <2>1, <2>2 DEF Same
    <2>7. n[id].children = s
      BY <1>9, <2>1, <2>5, <2>6
    <2> QED
      BY <1>9, <2>1, <2>2, <2>7 DEF Same
  <1>14. /\ n[root].parent = Top /\ ToSet(n[root].children) \subseteq DOMAIN t
    BY <1>4, <1>9, <1>12
  <1>15. \A id \in DOMAIN n : id \in DOMAIN t \/ id \in DOMAIN old \/ (Shelf(id, series) /\ n[id].kind = "folder")
    BY <1>8, <1>9 DEF Moved
  <1>16. \A s \in series : /\ s \notin DOMAIN t \cup DOMAIN old /\ n[s].parent = root
                           /\ IsList(s) /\ ToSet(s) \subseteq ToSet(Alphabet)
    BY <1>4, <1>9, <1>12
  <1>17. \A x \in DOMAIN n : ToSet(Children(n, x)) = ToSet(Children(m, x)) \cap DOMAIN n
    <2> TAKE x \in DOMAIN n
    <2>1. ToSet(Children(n, x)) = ToSet(n[x].children) \cap DOMAIN n
      BY <1>5, ChildrenFacts
    <2>2. ToSet(Children(m, x)) = ToSet(m[x].children) \cap DOMAIN m
      BY <1>4, <1>8, ChildrenFacts
    <2> QED
      BY <1>8, <1>9, <2>1, <2>2
  <1>18. {root} \in SUBSET DOMAIN m
    BY <1>4
  <1>19. \A x \in Reach(m, {root}) : HasVideo(m, x) => x \in DOMAIN n
    <2> SUFFICES ASSUME NEW x \in Reach(m, {root}), HasVideo(m, x) PROVE x \in DOMAIN n
      OBVIOUS
    <2>1. x \in DOMAIN m
      BY <1>4, <1>18, ReachFacts
    <2>2. x \notin empty
      BY <1>2
    <2> QED
      BY <1>8, <2>1, <2>2
  <1>20. ASSUME NEW id \in DOMAIN n \cap DOMAIN t, n[id].kind = "video"
         PROVE  \/ id \in Reach(n, {root})
                \/ \E s \in series, z \in DOMAIN n : z \in ToSet(n[s].children) /\ id \in ToSet(n[z].children)
    <2>1. CASE id \in gone
      <3>1. PICK s \in series, z \in DOMAIN m \ DOMAIN t : z \in ToSet(m[s].children) /\ id \in ToSet(m[z].children)
        BY <1>4, <2>1
      <3>2. z \notin empty /\ id \notin empty /\ s \in DOMAIN n /\ z \in DOMAIN n
        BY <1>7, <1>8, <1>12, <2>1, <3>1
      <3> QED
        BY <1>9, <3>1, <3>2
    <2>2. CASE id \notin gone
      <3>1. id \in Reach(m, {root}) /\ m[id].kind = "video"
        BY <1>4, <1>9, <1>20, <2>2
      <3>2. DOMAIN n \subseteq DOMAIN m /\ root \in DOMAIN n /\ root \in DOMAIN m
        BY <1>8, <1>12
      <3> QED
        BY <1>4, <1>5, <1>17, <1>19, <3>1, <3>2, PrunedReach
    <2> QED
      BY <2>1, <2>2
  <1>21. \A id \in DOMAIN t : OneWord(id)
    BY <1>4
  <1>22. root \in DOMAIN t /\ IsFiniteSet(series) /\ DOMAIN t \cap DOMAIN old = {}
    BY <1>4
  <1> QED
    BY <1>1, <1>5, <1>10, <1>11, <1>12, <1>13, <1>14, <1>15, <1>16, <1>20, <1>21, <1>22 DEF Shelved

-----------------------------------------------------------------------------
(* The list of the root.                                                   *)

SeriesFirst(n, moved) == Alphabetical(n, InSequence(moved.series, Before))
FilmsThen(n, root, moved) == Alphabetical(n, Reverse(Among(Children(n, root), moved.films)))
TheRest(n, root, moved) ==
  InOrder(n, Among(Children(n, root), ToSet(Children(n, root)) \ (moved.films \cup moved.series)))

LEMMA TopList ==
  ASSUME NEW n, NEW t, NEW root, NEW old, NEW moved, Shelved(n, t, root, old, moved.series),
         NEW top, top = SeriesFirst(n, moved) \o FilmsThen(n, root, moved) \o TheRest(n, root, moved)
  PROVE  IsList(top) /\ ToSet(top) = moved.series \cup ToSet(n[root].children) /\ IsInjective(top)
  <1>1. PICK series, films : series = moved.series /\ films = moved.films
    OBVIOUS
  <1>0. PICK first, second, third :
           first = SeriesFirst(n, moved) /\ second = FilmsThen(n, root, moved) /\ third = TheRest(n, root, moved)
    OBVIOUS
  <1>2. /\ WellFormed(n) /\ Titled(n, DOMAIN n) /\ Listed(n) /\ IsFiniteSet(series) /\ root \in DOMAIN n
        /\ series \subseteq DOMAIN n /\ ToSet(n[root].children) \subseteq DOMAIN t
        /\ \A s \in series : s \notin DOMAIN t /\ IsList(s) /\ ToSet(s) \subseteq ToSet(Alphabet)
    BY <1>1 DEF Shelved
  <1>3. PICK was : was = Children(n, root)
    OBVIOUS
  <1>4. was = n[root].children /\ IsList(was) /\ IsInjective(was) /\ ToSet(was) \subseteq DOMAIN n
    <2>1. PICK s : s = n[root].children
      OBVIOUS
    <2>2. IsList(s) /\ IsInjective(s) /\ ToSet(s) \subseteq DOMAIN n
      BY <1>2, <2>1 DEF WellFormed, IsNode, Listed
    <2>3. was = Among(s, DOMAIN n)
      BY <1>2, <1>3, <2>1 DEF Children
    <2>4. was = s
      BY <2>2, <2>3, AllOfIt
    <2> QED
      BY <2>1, <2>2, <2>4
  <1>5. series \cap ToSet(was) = {}
    BY <1>2, <1>4
  <1>6. IsList(first) /\ ToSet(first) = series /\ IsInjective(first)
    <2>1. PICK ids : ids = InSequence(series, Before)
      OBVIOUS
    <2>2. IsList(ids) /\ ToSet(ids) = series /\ IsInjective(ids)
      BY <1>2, <2>1, InSequenceIsList, InAlphabet
    <2>3. Titled(n, ToSet(ids))
      BY <1>2, <2>2 DEF Titled
    <2>4. first = Alphabetical(n, ids)
      BY <1>0, <1>1, <2>1 DEF SeriesFirst
    <2> QED
      BY <2>2, <2>3, <2>4, ByTitleKeeps
  <1>7. IsList(second) /\ ToSet(second) = ToSet(was) \cap films /\ IsInjective(second)
    <2>1. PICK some, ids : some = Among(was, films) /\ ids = Reverse(some)
      OBVIOUS
    <2>2. IsList(some) /\ ToSet(some) = ToSet(was) \cap films /\ IsInjective(some)
      BY <1>4, <2>1, AmongIsList, AmongFacts
    <2>3. IsList(ids) /\ ToSet(ids) = ToSet(some) /\ IsInjective(ids)
      BY <2>1, <2>2, ReverseIsList, ReverseFacts
    <2>4. Titled(n, ToSet(ids))
      BY <1>2, <1>4, <2>2, <2>3 DEF Titled
    <2>5. second = Alphabetical(n, ids)
      BY <1>0, <1>1, <1>3, <2>1 DEF FilmsThen
    <2>6. IsList(second) /\ ToSet(second) = ToSet(ids) /\ IsInjective(second)
      BY <2>3, <2>4, <2>5, ByTitleKeeps
    <2> QED
      BY <2>2, <2>3, <2>6
  <1>8. IsList(third) /\ ToSet(third) = ToSet(was) \ (films \cup series) /\ IsInjective(third)
    <2>1. PICK S, ids : S = ToSet(was) \ (films \cup series) /\ ids = Among(was, S)
      OBVIOUS
    <2>2. IsList(ids) /\ ToSet(ids) = ToSet(was) \cap S /\ IsInjective(ids)
      BY <1>4, <2>1, AmongIsList, AmongFacts
    <2>3. Titled(n, ToSet(ids))
      BY <1>2, <1>4, <2>2 DEF Titled
    <2>4. third = InOrder(n, ids)
      BY <1>0, <1>1, <1>3, <2>1 DEF TheRest
    <2>5. IsList(third) /\ ToSet(third) = ToSet(ids) /\ IsInjective(third)
      BY <2>2, <2>3, <2>4, InOrderKeeps
    <2> QED
      BY <2>1, <2>2, <2>5
  <1>9. PICK two : two = first \o second
    OBVIOUS
  <1>10. IsList(two) /\ ToSet(two) = series \cup (ToSet(was) \cap films) /\ IsInjective(two)
    <2>1. ToSet(first) \cap ToSet(second) = {}
      BY <1>5, <1>6, <1>7
    <2> QED
      BY <1>6, <1>7, <1>9, <2>1, JoinIsList, JoinFacts
  <1>11. top = two \o third
    BY <1>0, <1>9
  <1>12. ToSet(two) \cap ToSet(third) = {}
    BY <1>8, <1>10
  <1>13. IsList(top) /\ ToSet(top) = ToSet(two) \cup ToSet(third) /\ IsInjective(top)
    <2>1. IsList(two \o third)
      BY <1>8, <1>10, JoinIsList
    <2>2. ToSet(two \o third) = ToSet(two) \cup ToSet(third) /\ IsInjective(two \o third)
      BY <1>8, <1>10, <1>12, JoinFacts
    <2> QED
      BY <1>11, <2>1, <2>2
  <1>14. ToSet(two) \cup ToSet(third) = series \cup ToSet(was)
    BY <1>8, <1>10
  <1> QED
    BY <1>1, <1>4, <1>13, <1>14

LEMMA TopIsSound ==
  ASSUME NEW n, NEW t, NEW root, NEW old, NEW moved, Shelved(n, t, root, old, moved.series),
         NEW roots, NEW ids, Sound(old, roots, ids)
  PROVE  Sound(TopInOrder(n, root, moved), roots \cup {root}, ids \cup DOMAIN t)
  <1>1. PICK series : series = moved.series
    OBVIOUS
  <1>2. PICK top : top = SeriesFirst(n, moved) \o FilmsThen(n, root, moved) \o TheRest(n, root, moved)
    OBVIOUS
  <1>3. PICK cat : cat = [n EXCEPT ![root].children = top]
    OBVIOUS
  <1>4. TopInOrder(n, root, moved) = FoldersInOrder(cat, root)
    BY <1>2, <1>3 DEF TopInOrder, SeriesFirst, FilmsThen, TheRest
  <1>5. IsList(top) /\ ToSet(top) = series \cup ToSet(n[root].children) /\ IsInjective(top)
    BY <1>1, <1>2, TopList
  <1>6. /\ WellFormed(n) /\ Titled(n, DOMAIN n) /\ Listed(n)
        /\ root \in DOMAIN t /\ DOMAIN old \cup series \cup {root} \subseteq DOMAIN n /\ DOMAIN t \cap DOMAIN old = {}
        /\ \A id \in DOMAIN old : Same(n[id], old[id])
        /\ n[root].parent = Top
        /\ \A id \in DOMAIN n : id \in DOMAIN t \/ id \in DOMAIN old \/ (Shelf(id, series) /\ n[id].kind = "folder")
        /\ \A id \in DOMAIN t : OneWord(id)
        /\ \A s \in series : n[s].parent = root
        /\ \A id \in DOMAIN n \cap DOMAIN t : n[id].kind = "video" =>
              \/ id \in Reach(n, {root})
              \/ \E s \in series, z \in DOMAIN n : z \in ToSet(n[s].children) /\ id \in ToSet(n[z].children)
    BY <1>1 DEF Shelved
  <1>7. /\ WellFormed(old)
        /\ roots \subseteq DOMAIN old /\ \A r \in roots : old[r].parent = Top
        /\ \A id \in DOMAIN old : old[id].kind = "video" => id \in Reach(old, roots)
        /\ \A id \in ids : OneWord(id)
        /\ \A id \in DOMAIN old : id \in ids \/ Shelf(id, DOMAIN old)
    BY DEF Sound
  <1>8. IsNode(n[root])
    BY <1>6 DEF WellFormed
  <1>9. /\ DOMAIN cat = DOMAIN n /\ \A id \in DOMAIN n \ {root} : cat[id] = n[id]
        /\ cat[root] = [n[root] EXCEPT !.children = top]
    BY <1>3, <1>6
  <1>10. /\ cat[root].parent = n[root].parent /\ cat[root].kind = n[root].kind /\ cat[root].title = n[root].title
         /\ cat[root].children = top /\ IsNode(cat[root])
    BY <1>5, <1>8, <1>9, ChangedNode DEF IsNode
  <1>11. WellFormed(cat)
    BY <1>6, <1>9, <1>10 DEF WellFormed
  <1>12. \A id \in DOMAIN n : /\ cat[id].parent = n[id].parent /\ cat[id].kind = n[id].kind /\ cat[id].title = n[id].title
                              /\ ToSet(n[id].children) \subseteq ToSet(cat[id].children)
    <2> TAKE id \in DOMAIN n
    <2>1. CASE id = root
      BY <1>5, <1>10, <2>1
    <2>2. CASE id # root
      BY <1>9, <2>2
    <2> QED
      BY <2>1, <2>2
  <1>13. Titled(cat, DOMAIN cat)
    BY <1>6, <1>9, <1>12 DEF Titled
  <1>14. Listed(cat)
    <2> SUFFICES ASSUME NEW up \in DOMAIN cat
                 PROVE  /\ IsInjective(cat[up].children)
                        /\ \A id \in ToSet(cat[up].children) : id \in DOMAIN cat /\ cat[id].parent = up
      BY DEF Listed
    <2>1. \A x \in DOMAIN n : /\ IsInjective(n[x].children)
                              /\ \A id \in ToSet(n[x].children) : id \in DOMAIN n /\ n[id].parent = x
      BY <1>6 DEF Listed
    <2>2. CASE up = root
      <3>1. \A id \in series : id \in DOMAIN cat /\ cat[id].parent = up
        BY <1>6, <1>9, <1>12, <2>2
      <3>2. \A id \in ToSet(n[root].children) : id \in DOMAIN cat /\ cat[id].parent = up
        BY <1>6, <1>9, <1>12, <2>1, <2>2
      <3> QED
        BY <1>5, <1>10, <2>2, <3>1, <3>2
    <2>3. CASE up # root
      BY <1>9, <1>12, <2>1, <2>3
    <2> QED
      BY <2>2, <2>3
  <1>15. \A x \in DOMAIN n : ToSet(Children(n, x)) \subseteq ToSet(Children(cat, x)) /\ ToSet(Children(cat, x)) = ToSet(cat[x].children)
    <2> TAKE x \in DOMAIN n
    <2>1. ToSet(Children(n, x)) = ToSet(n[x].children) \cap DOMAIN n
      BY <1>6, ChildrenFacts
    <2>2. ToSet(Children(cat, x)) = ToSet(cat[x].children) \cap DOMAIN cat
      BY <1>9, <1>11, ChildrenFacts
    <2>3. ToSet(cat[x].children) \subseteq DOMAIN cat
      BY <1>9, <1>14 DEF Listed
    <2> QED
      BY <1>9, <1>12, <2>1, <2>2, <2>3
  <1>16. PICK all, now : all = roots \cup {root} /\ now = Reach(cat, all)
    OBVIOUS
  <1>17. all \in SUBSET DOMAIN cat /\ {root} \in SUBSET DOMAIN n /\ roots \in SUBSET DOMAIN old
    BY <1>6, <1>7, <1>9, <1>16
  <1>18. all \subseteq now /\ Closed(cat, now)
    BY <1>11, <1>16, <1>17, ReachFacts
  <1>19. Reach(n, {root}) \subseteq now
    <2>1. Reach(n, {root}) \subseteq DOMAIN n
      BY <1>6, <1>17, ReachFacts
    <2>2. {root} \subseteq all
      BY <1>16
    <2>3. \A x \in Reach(n, {root}) : ToSet(Children(n, x)) \subseteq ToSet(Children(cat, x))
      BY <1>15, <2>1
    <2> QED
      BY <1>6, <1>11, <1>16, <1>17, <2>2, <2>3, ReachGrows
  <1>20. Reach(old, roots) \subseteq now
    <2>1. Reach(old, roots) \subseteq DOMAIN old
      BY <1>7, <1>17, ReachFacts
    <2>2. \A x \in DOMAIN old : ToSet(Children(old, x)) \subseteq ToSet(Children(cat, x))
      <3> TAKE x \in DOMAIN old
      <3>1. x \in DOMAIN n /\ x # root /\ n[x].children = old[x].children
        BY <1>6 DEF Same
      <3>2. ToSet(Children(old, x)) = ToSet(old[x].children) \cap DOMAIN old
        BY <1>7, ChildrenFacts
      <3> QED
        BY <1>9, <1>15, <3>1, <3>2
    <2>3. roots \subseteq all
      BY <1>16
    <2> QED
      BY <1>7, <1>11, <1>16, <1>17, <2>1, <2>2, <2>3, ReachGrows
  <1>21. ASSUME NEW id \in DOMAIN cat, cat[id].kind = "video" PROVE id \in now
    <2>1. id \in DOMAIN n /\ n[id].kind = "video"
      BY <1>9, <1>12, <1>21
    <2>2. CASE id \in DOMAIN old
      BY <1>6, <1>7, <1>20, <2>1, <2>2 DEF Same
    <2>3. CASE id \in DOMAIN t
      <3>1. CASE id \in Reach(n, {root})
        BY <1>19, <3>1
      <3>2. CASE \E s \in series, z \in DOMAIN n : z \in ToSet(n[s].children) /\ id \in ToSet(n[z].children)
        <4>1. PICK s \in series, z \in DOMAIN n : z \in ToSet(n[s].children) /\ id \in ToSet(n[z].children)
          BY <3>2
        <4>2. s \in DOMAIN n /\ s \in ToSet(Children(cat, root))
          BY <1>5, <1>6, <1>10, <1>15
        <4>3. s \in now
          BY <1>16, <1>18, <4>2 DEF Closed
        <4>4. z \in ToSet(Children(cat, s))
          BY <1>12, <1>15, <4>1, <4>2
        <4>5. z \in now
          BY <1>18, <4>3, <4>4 DEF Closed
        <4>6. id \in ToSet(Children(cat, z))
          BY <1>12, <1>15, <4>1
        <4> QED
          BY <1>18, <4>5, <4>6 DEF Closed
      <3> QED
        BY <1>6, <2>1, <2>3, <3>1, <3>2
    <2> QED
      BY <1>6, <2>1, <2>2, <2>3
  <1>22. \A id \in DOMAIN cat : id \in ids \cup DOMAIN t \/ Shelf(id, DOMAIN cat)
    <2> TAKE id \in DOMAIN cat
    <2>1. Shelf(id, series) \/ Shelf(id, DOMAIN old) => Shelf(id, DOMAIN cat)
      BY <1>6, <1>9 DEF Shelf
    <2> QED
      BY <1>6, <1>7, <1>9, <2>1
  <1>23. \A r \in all : cat[r].parent = Top
    BY <1>6, <1>7, <1>12, <1>16 DEF Same
  <1>24. \A id \in ids \cup DOMAIN t : OneWord(id)
    BY <1>6, <1>7
  <1>25. Sound(cat, all, ids \cup DOMAIN t)
    BY <1>11, <1>13, <1>14, <1>16, <1>17, <1>21, <1>22, <1>23, <1>24 DEF Sound
  <1>26. PICK new : new = FoldersInOrder(cat, root)
    OBVIOUS
  <1>27. WellFormed(new)
    BY <1>11, <1>26, FoldersAreWell
  <1>28. Resorted(new, cat)
    <2>1. PICK S : S = {id \in Descendants(cat, root) : cat[id].kind = "folder" /\ ~IsSynthetic(id)}
      OBVIOUS
    <2>2. new = [id \in DOMAIN cat |->
                   IF id \in S THEN [cat[id] EXCEPT !.children = InOrder(cat, Children(cat, id))] ELSE cat[id]]
      BY <1>26, <2>1 DEF FoldersInOrder
    <2> QED
      BY <1>11, <1>13, <1>14, <2>2, SomeSorted
  <1>29. Sound(new, all, ids \cup DOMAIN t)
    BY <1>25, <1>27, <1>28, ResortedIsSound
  <1> QED
    BY <1>4, <1>16, <1>26, <1>29

-----------------------------------------------------------------------------
(* Root after root.                                                        *)

LEMMA ArrangeIsSound ==
  ASSUME NEW t, NEW root, NEW names, Tree(t, root, names),
         NEW old, NEW roots, NEW ids, Sound(old, roots, ids), DOMAIN t \cap ids = {},
         NEW cat, cat = Over(t, old), MovedUp(cat, root, names).series \cap DOMAIN old = {},
         NEW kind
  PROVE  Sound(Arrange(cat, root, kind, names), roots \cup {root}, ids \cup DOMAIN t)
  <1>1. Ready(cat, t, root, old)
    BY ReadIsReady
  <1>2. WellFormed(cat) /\ Listed(cat) /\ Titled(cat, DOMAIN cat)
    BY <1>1 DEF Ready
  <1>3. CASE kind \notin {"video", "mixed"}
    <2>1. PICK new : new = SortOnly(cat, root)
      OBVIOUS
    <2>2. PICK S : S = {root} \cup {id \in ToSet(Children(cat, root)) : cat[id].kind = "folder" /\ ~IsSynthetic(id)}
      OBVIOUS
    <2>3. new = [id \in DOMAIN cat |->
                   IF id \in S THEN [cat[id] EXCEPT !.children = InOrder(cat, Children(cat, id))] ELSE cat[id]]
      BY <2>1, <2>2 DEF SortOnly
    <2>4. Resorted(new, cat)
      BY <1>2, <2>3, SomeSorted
    <2>5. WellFormed(new)
      BY <1>2, <2>1, FoldersAreWell
    <2>6. Sound(cat, roots \cup {root}, ids \cup DOMAIN t)
      BY <1>1, ReadyIsSound
    <2>7. Sound(new, roots \cup {root}, ids \cup DOMAIN t)
      BY <2>4, <2>5, <2>6, ResortedIsSound
    <2>8. Arrange(cat, root, kind, names) = new
      BY <1>3, <2>1 DEF Arrange
    <2> QED
      BY <2>7, <2>8
  <1>4. CASE kind \in {"video", "mixed"}
    <2>1. PICK place : place = [id \in {x \in DOMAIN cat \cap Descendants(cat, root) : cat[x].kind = "video"} |->
                                   Place(cat, id, names)]
      OBVIOUS
    <2>2. Places(place, cat, t, root)
      <3>1. ASSUME NEW id \in DOMAIN place
            PROVE  /\ id \in DOMAIN t \ {root} /\ cat[id].kind = "video" /\ KnownName(NameOf(cat[id]))
                   /\ \A p \in place[id] : GoodPlace(p)
        <4>1. id \in Descendants(cat, root) /\ cat[id].kind = "video" /\ place[id] = Place(cat, id, names)
          BY <2>1
        <4> QED
          BY <1>1, <4>1, PlaceFacts
      <3> QED
        BY <3>1 DEF Places
    <2>3. PICK moved : moved = MoveUp(cat, root, place)
      OBVIOUS
    <2>4. MovedUp(cat, root, names) = moved
      BY <2>1, <2>3 DEF MovedUp
    <2>5. \A id \in DOMAIN old : OneWord(id) \/ Shelf(id, DOMAIN old)
      BY DEF Sound
    <2>6. Moved(moved.nodes, t, root, old, Episodes(place), moved.series)
      BY <1>1, <2>2, <2>3, <2>4, <2>5, MoveUpMoves
    <2>7. PICK n : n = IF kind = "video" THEN PruneEmpty(moved.nodes, root) ELSE moved.nodes
      OBVIOUS
    <2>8. Shelved(n, t, root, old, moved.series)
      <3>1. CASE kind = "video"
        BY <2>6, <2>7, <3>1, PrunedIsShelved
      <3>2. CASE kind # "video"
        BY <2>6, <2>7, <3>2, MovedIsShelved
      <3> QED
        BY <3>1, <3>2
    <2>9. Sound(TopInOrder(n, root, moved), roots \cup {root}, ids \cup DOMAIN t)
      BY <2>8, TopIsSound
    <2>10. Arrange(cat, root, kind, names) = TopInOrder(n, root, moved)
      BY <1>4, <2>4, <2>7 DEF Arrange, ArrangeVideo, Shelve
    <2> QED
      BY <2>9, <2>10
  <1> QED
    BY <1>3, <1>4

RootsUpTo(d, k) == {IdOf(There(d)[j]) : j \in 1 .. k}
IdsUpTo(d, k) == UNION {DOMAIN ScanDir(d, There(d)[j]) : j \in 1 .. k}

LEMMA ThereFacts ==
  ASSUME NEW d \in Disks
  PROVE  /\ \A j \in 1 .. Len(There(d)) : There(d)[j] \in ToSet(d.roots)
         /\ \A i, j \in 1 .. Len(There(d)) : There(d)[i].id = There(d)[j].id => i = j
  <1>1. PICK s : s = There(d)
    OBVIOUS
  <1>2. IsList(d.roots) /\ IsInjective(d.roots)
    BY EntryFacts
  <1>3. PICK S : S = {r \in ToSet(d.roots) : r.there}
    OBVIOUS
  <1>4. s = Among(d.roots, S)
    BY <1>1, <1>3 DEF There
  <1>5. ToSet(s) = ToSet(d.roots) \cap S /\ IsInjective(s)
    BY <1>2, <1>4, AmongFacts
  <1>6. DOMAIN s = 1 .. Len(s)
    BY <1>1, AfterRoots
  <1>7. \A j \in 1 .. Len(s) : s[j] \in ToSet(d.roots)
    BY <1>5, <1>6 DEF ToSet
  <1>8. \A q, r \in ToSet(d.roots) : q.id = r.id => q = r
    BY EntryFacts
  <1> QED
    BY <1>1, <1>5, <1>6, <1>7, <1>8 DEF IsInjective

LEMMA AfterIsSound ==
  ASSUME NEW d \in Disks
  PROVE  \A k \in 0 .. Len(There(d)) : Sound(After(d)[k], RootsUpTo(d, k), IdsUpTo(d, k))
  <1>1. PICK last : last = Len(There(d))
    OBVIOUS
  <1>2. last \in Nat
    BY <1>1, AfterRoots
  <1> DEFINE IsSound(k) == Sound(After(d)[k], RootsUpTo(d, k), IdsUpTo(d, k))
             S == {k \in 0 .. last : ~IsSound(k)}
  <1>3. S = {}
    <2> SUFFICES ASSUME S # {} PROVE FALSE
      OBVIOUS
    <2>1. S \in SUBSET Nat
      BY <1>2
    <2> HIDE DEF S
    <2>2. PICK k \in S : \A i \in S : ~(i < k)
      BY <2>1, LeastNumber
    <2>3. k \in 0 .. last /\ ~IsSound(k)
      BY <2>2 DEF S
    <2>4. CASE k = 0
      <3>1. After(d)[0] = <<>>
        BY AfterRoots
      <3>2. RootsUpTo(d, 0) = {} /\ IdsUpTo(d, 0) = {}
        BY DEF RootsUpTo, IdsUpTo
      <3>3. DOMAIN <<>> = {} /\ IsFiniteSet({})
        BY FS_EmptySet
      <3>4. Sound(<<>>, {}, {})
        BY <3>3 DEF Sound, WellFormed, Titled, Listed
      <3> QED
        BY <2>3, <2>4, <3>1, <3>2, <3>4
    <2>5. CASE k # 0
      <3>1. k \in 1 .. last /\ k - 1 \in 0 .. last /\ k - 1 < k
        BY <1>2, <2>3, <2>5
      <3>2. IsSound(k - 1)
        BY <2>2, <3>1 DEF S
      <3>3. PICK old, roots, ids : old = After(d)[k - 1] /\ roots = RootsUpTo(d, k - 1) /\ ids = IdsUpTo(d, k - 1)
        OBVIOUS
      <3>4. Sound(old, roots, ids)
        BY <3>2, <3>3
      <3>5. PICK r : r = There(d)[k]
        OBVIOUS
      <3>6. PICK t, root, names : t = ScanDir(d, r) /\ root = IdOf(r) /\ names = NamesOf(d)
        OBVIOUS
      <3>7. r \in ToSet(d.roots) /\ \A j \in 1 .. (k - 1) : There(d)[j] \in ToSet(d.roots) /\ There(d)[j] # r
        <4>1. \A j \in 1 .. (k - 1) : j \in 1 .. last /\ j # k
          BY <1>2, <3>1
        <4> QED
          BY <1>1, <3>1, <3>5, <4>1, ThereFacts
      <3>8. Tree(t, root, names)
        BY <3>6, <3>7, TreeIsTree
      <3>9. DOMAIN t \cap ids = {}
        <4>1. \A j \in 1 .. (k - 1) : DOMAIN t \cap DOMAIN ScanDir(d, There(d)[j]) = {}
          BY <3>6, <3>7, TreesApart
        <4> QED
          BY <3>3, <4>1 DEF IdsUpTo
      <3>10. PICK cat : cat = Read(d, k, old)
        OBVIOUS
      <3>11. cat = Over(t, old)
        BY <3>5, <3>6, <3>10 DEF Read
      <3>12. root = <<There(d)[k].id>>
        BY <3>5, <3>6 DEF IdOf
      <3>13. MovedUp(cat, root, names).series \cap DOMAIN old = {}
        <4>1. k \in DOMAIN There(d)
          BY <1>1, <3>1, AfterRoots
        <4> QED
          BY <3>3, <3>6, <3>10, <3>12, <4>1, SeriesAssumption
      <3>14. Sound(Arrange(cat, root, r.kind, names), roots \cup {root}, ids \cup DOMAIN t)
        BY <3>4, <3>8, <3>9, <3>11, <3>13, ArrangeIsSound
      <3>15. After(d)[k] = Arrange(cat, root, r.kind, names)
        BY <1>1, <3>1, <3>3, <3>5, <3>6, <3>10, <3>12, AfterRoots
      <3>16. 1 .. k = (1 .. (k - 1)) \cup {k}
        BY <3>1
      <3>17. RootsUpTo(d, k) = roots \cup {root}
        BY <3>3, <3>5, <3>6, <3>16 DEF RootsUpTo
      <3>18. IdsUpTo(d, k) = ids \cup DOMAIN t
        BY <3>3, <3>5, <3>6, <3>16 DEF IdsUpTo
      <3> QED
        BY <2>3, <3>14, <3>15, <3>17, <3>18
    <2> QED
      BY <2>4, <2>5
  <1> QED
    BY <1>1, <1>3

-----------------------------------------------------------------------------
(* The whole catalog: the roots below the top.                             *)

\* Everything that is listed is there, and every video lies below the top.
Whole(cat) ==
  /\ WellFormed(cat) /\ Titled(cat, DOMAIN cat) /\ Listed(cat)
  /\ Top \in DOMAIN cat /\ cat[Top].kind = "folder"
  /\ \A id \in DOMAIN cat : cat[id].kind = "video" => id \in Flatten(cat)
  /\ \A id \in DOMAIN cat : id = Top \/ OneWord(id) \/ IsSynthetic(id)

LEMMA ScanIsWhole ==
  ASSUME NEW d \in Disks
  PROVE  Whole(Scan(d))
  <1>1. PICK last : last = Len(There(d))
    OBVIOUS
  <1>2. last \in Nat /\ DOMAIN There(d) = 1 .. last
    BY <1>1, AfterRoots
  <1>3. PICK C, roots, ids : C = After(d)[last] /\ roots = RootsUpTo(d, last) /\ ids = IdsUpTo(d, last)
    OBVIOUS
  <1>4. Sound(C, roots, ids)
    <2>1. last \in 0 .. Len(There(d))
      BY <1>1, <1>2
    <2> QED
      BY <1>3, <2>1, AfterIsSound
  <1>5. PICK under : under = [k \in DOMAIN There(d) |-> <<There(d)[k].id>>]
    OBVIOUS
  <1>6. IsList(under) /\ ToSet(under) = roots /\ IsInjective(under)
    <2>1. under = [k \in 1 .. last |-> under[k]] /\ DOMAIN under = 1 .. last
      BY <1>2, <1>5
    <2>2. IsList(under)
      BY <1>2, <2>1, ListIntro
    <2>3. \A k \in 1 .. last : under[k] = IdOf(There(d)[k])
      BY <1>2, <1>5 DEF IdOf
    <2>4. ToSet(under) = roots
      BY <1>3, <2>1, <2>3 DEF ToSet, RootsUpTo
    <2>5. \A i, j \in 1 .. last : There(d)[i].id = There(d)[j].id => i = j
      BY <1>1, ThereFacts
    <2>6. IsInjective(under)
      BY <2>1, <2>3, <2>5 DEF IsInjective, IdOf
    <2> QED
      BY <2>2, <2>4, <2>6
  <1>7. PICK n : n = Node(<<"-1">>, <<"rustiio">>, "folder", under)
    OBVIOUS
  <1>8. IsNode(n) /\ n.children = under /\ n.kind = "folder" /\ n.title = <<"rustiio">>
    <2>1. n.children = under /\ n.kind = "folder" /\ n.title = <<"rustiio">>
      BY <1>7 DEF Node
    <2>2. "folder" \in Kinds
      BY DEF Kinds
    <2> QED
      BY <1>6, <1>7, <2>1, <2>2, NewNode
  <1>9. PICK cat : cat = Scan(d)
    OBVIOUS
  <1>10. WellFormed(cat)
    BY <1>9, ScanIsWell
  <1>11. \A id \in DOMAIN C : OneWord(id) \/ IsSynthetic(id)
    BY <1>4, ShelfIsNoWord DEF Sound
  <1>12. Top \notin DOMAIN C
    <2>1. ~IsSynthetic(Top)
      BY DEF Top, IsSynthetic
    <2> QED
      BY <1>11, <2>1, WordFacts
  <1>13. DOMAIN cat = DOMAIN C \cup {Top} /\ cat[Top] = n /\ \A id \in DOMAIN C : cat[id] = C[id]
    <2>1. cat = Over(C, [id \in {Top} |-> n])
      BY <1>1, <1>3, <1>5, <1>7, <1>9 DEF Scan
    <2> QED
      BY <1>12, <2>1 DEF Over
  <1>14. Titled(cat, DOMAIN cat)
    <2>1. IsList(<<"rustiio">>)
      BY DEF IsList, ToSet
    <2>2. Titled(C, DOMAIN C)
      BY <1>4 DEF Sound
    <2> QED
      BY <1>8, <1>13, <2>1, <2>2 DEF Titled
  <1>15. WellFormed(C) /\ Listed(C) /\ roots \subseteq DOMAIN C /\ \A r \in roots : C[r].parent = Top
    BY <1>4 DEF Sound
  <1>16. Listed(cat)
    <2>1. ASSUME NEW up \in DOMAIN cat
          PROVE  /\ IsInjective(cat[up].children)
                 /\ \A id \in ToSet(cat[up].children) : id \in DOMAIN cat /\ cat[id].parent = up
      <3>1. CASE up \in DOMAIN C
        BY <1>13, <1>15, <3>1 DEF Listed
      <3>2. CASE up = Top
        BY <1>6, <1>8, <1>13, <1>15, <3>2
      <3> QED
        BY <1>13, <3>1, <3>2
    <2> QED
      BY <2>1 DEF Listed
  <1>17. ASSUME NEW id \in DOMAIN cat, cat[id].kind = "video"
         PROVE  id \in Flatten(cat)
    <2>1. id # Top /\ id \in DOMAIN C
      BY <1>8, <1>13, <1>17
    <2>2. id \in Reach(C, roots)
      BY <1>4, <1>13, <1>17, <2>1 DEF Sound
    <2>3. \A x \in Reach(C, roots) : ToSet(Children(C, x)) \subseteq ToSet(Children(cat, x))
      <3>1. Reach(C, roots) \subseteq DOMAIN C
        BY <1>15, ReachFacts
      <3>2. ASSUME NEW x \in DOMAIN C
            PROVE  ToSet(Children(C, x)) \subseteq ToSet(Children(cat, x))
        <4>1. ToSet(Children(C, x)) = ToSet(C[x].children) \cap DOMAIN C
          BY <1>15, ChildrenFacts
        <4>2. x \in DOMAIN cat /\ ToSet(Children(cat, x)) = ToSet(cat[x].children) \cap DOMAIN cat
          BY <1>10, <1>13, ChildrenFacts
        <4> QED
          BY <1>13, <4>1, <4>2
      <3> QED
        BY <3>1, <3>2
    <2>4. roots \in SUBSET DOMAIN C /\ roots \in SUBSET DOMAIN cat /\ {Top} \in SUBSET DOMAIN cat
      BY <1>13, <1>15
    <2>5. Reach(C, roots) \subseteq Reach(cat, roots)
      BY <1>10, <1>15, <2>3, <2>4, ReachGrows
    <2>6. {Top} \subseteq Reach(cat, {Top}) /\ Closed(cat, Reach(cat, {Top}))
      BY <1>10, <2>4, ReachFacts
    <2>7. roots \subseteq Reach(cat, {Top})
      <3>1. ToSet(Children(cat, Top)) = ToSet(cat[Top].children) \cap DOMAIN cat
        BY <1>10, <1>13, ChildrenFacts
      <3> QED
        BY <1>6, <1>8, <1>13, <2>4, <2>6, <3>1 DEF Closed
    <2>8. Reach(cat, roots) \subseteq Reach(cat, {Top})
      BY <1>10, <2>4, <2>6, <2>7, ReachFacts
    <2> QED
      BY <2>1, <2>2, <2>5, <2>8 DEF Flatten
  <1>18. \A id \in DOMAIN cat : id = Top \/ OneWord(id) \/ IsSynthetic(id)
    BY <1>11, <1>13
  <1> QED
    BY <1>8, <1>9, <1>10, <1>13, <1>14, <1>16, <1>17, <1>18 DEF Whole

\* A node stands in the list of its parent, once, and in no other.
LEMMA ListedOnce ==
  ASSUME NEW cat, Whole(cat), NEW id \in Flatten(cat), NEW up \in DOMAIN cat
  PROVE  LET places == {k \in DOMAIN cat[up].children : cat[up].children[k] = id}
         IN  Cardinality(places) = (IF up = cat[id].parent THEN 1 ELSE 0)
  <1>1. WellFormed(cat) /\ Listed(cat) /\ Top \in DOMAIN cat
    BY DEF Whole
  <1>2. PICK list : list = cat[up].children
    OBVIOUS
  <1>3. PICK places : places = {k \in DOMAIN list : list[k] = id}
    OBVIOUS
  <1>4. IsInjective(list) /\ \A x \in ToSet(list) : cat[x].parent = up
    BY <1>1, <1>2 DEF Listed
  <1>5. Cardinality({}) = 0
    BY FS_EmptySet
  <1>6. CASE up = cat[id].parent
    <2>1. id \in Reach(cat, {Top}) /\ id \notin {Top} /\ {Top} \in SUBSET DOMAIN cat
      BY <1>1 DEF Flatten
    <2>2. PICK by \in Reach(cat, {Top}) : id \in ToSet(Children(cat, by))
      BY <1>1, <2>1, ReachedIsListed
    <2>3. by \in DOMAIN cat /\ id \in ToSet(cat[by].children)
      BY <1>1, <2>2, ChildrenFacts
    <2>4. by = up
      BY <1>1, <1>6, <2>3 DEF Listed
    <2>5. PICK k \in DOMAIN list : list[k] = id
      BY <1>2, <2>3, <2>4 DEF ToSet
    <2>6. places = {k}
      BY <1>3, <1>4, <2>5 DEF IsInjective
    <2>7. Cardinality({k}) = 1
      BY FS_Singleton
    <2> QED
      BY <1>2, <1>3, <1>6, <2>6, <2>7
  <1>7. CASE up # cat[id].parent
    <2>1. \A k \in DOMAIN list : list[k] # id
      BY <1>4, <1>7 DEF ToSet
    <2>2. places = {}
      BY <1>3, <2>1
    <2> QED
      BY <1>2, <1>3, <1>5, <1>7, <2>2
  <1> QED
    BY <1>6, <1>7

LEMMA WholeShowsAll ==
  ASSUME \A d \in Disks : Whole(Scan(d)), Scans
  PROVE  EveryVideoOnce
  <1>1. Whole(catalog)
    BY DEF Scans
  <1>2. \A id \in DOMAIN catalog : catalog[id].kind = "video" => id \in Flatten(catalog)
    BY <1>1 DEF Whole
  <1>3. \A id \in Flatten(catalog), up \in DOMAIN catalog :
           LET places == {k \in DOMAIN catalog[up].children : catalog[up].children[k] = id}
           IN  Cardinality(places) = (IF up = catalog[id].parent THEN 1 ELSE 0)
    BY <1>1, ListedOnce
  <1> QED
    BY <1>2, <1>3 DEF EveryVideoOnce

\* Changes are counted, one scan runs, and a television is done or is not.
Counted ==
  /\ changes \in 0 .. MaxChanges
  /\ fresh = {} \/ \E new : fresh = {new}
  /\ \A t \in tv : t.done \in BOOLEAN

LEMMA CountedInit == CdsInit => Counted
  BY ContentAssumption DEF CdsInit, Counted

LEMMA CountedStep == Pages /\ Counted /\ [CdsNext]_cdsVars => Counted'
  <1> SUFFICES ASSUME Pages, Counted, [CdsNext]_cdsVars PROVE Counted'
    OBVIOUS
  <1>1. CASE FoldersChange
    BY <1>1, ContentAssumption DEF FoldersChange, Counted
  <1>2. CASE ScanRuns
    BY <1>2 DEF ScanRuns, Counted
  <1>3. CASE Swap
    BY <1>3 DEF Swap, Counted
  <1>4. CASE ServerRestarts
    BY <1>4, ContentAssumption DEF ServerRestarts, Counted
  <1>5. CASE NextPage
    <2>1. UNCHANGED <<changes, fresh>>
      BY <1>5 DEF NextPage
    <2>2. PICK t \in tv : \E seen, told : \E done \in BOOLEAN :
             tv' = {[t EXCEPT !.seen = seen, !.told = told, !.done = done]}
      BY <1>5 DEF NextPage
    <2> PICK seen, told, done : done \in BOOLEAN /\ tv' = {[t EXCEPT !.seen = seen, !.told = told, !.done = done]}
      BY <2>2
    <2>3. DOMAIN t = {"id", "sort", "count", "seen", "told", "done"}
      BY <2>2 DEF Pages, Television
    <2>4. [t EXCEPT !.seen = seen, !.told = told, !.done = done].done = done
      BY <2>3
    <2>5. \A u \in tv' : u.done = done
      BY <2>4
    <2>6. changes' \in 0 .. MaxChanges /\ (fresh' = {} \/ \E new : fresh' = {new})
      BY <2>1 DEF Counted
    <2> QED
      BY <2>5, <2>6 DEF Counted
  <1>6. CASE Leaves \/ UNCHANGED cdsVars
    BY <1>6 DEF Leaves, cdsVars, Counted
  <1>7. CASE \E id, sort, count : Opens(id, sort, count)
    <2>1. UNCHANGED <<changes, fresh>>
      BY <1>7 DEF Opens
    <2>2. PICK t : t.done = FALSE /\ tv' = {t}
      <3>1. PICK id, sort, count : Opens(id, sort, count)
        BY <1>7
      <3> DEFINE t == [id |-> id, sort |-> sort, count |-> count, seen |-> <<>>, told |-> {}, done |-> FALSE]
      <3>2. t.done = FALSE
        OBVIOUS
      <3>3. tv' = {t}
        BY <3>1 DEF Opens
      <3> HIDE DEF t
      <3> QED
        BY <3>2, <3>3
    <2> QED
      BY <2>1, <2>2 DEF Counted
  <1> QED
    BY <1>1, <1>2, <1>3, <1>4, <1>5, <1>6, <1>7 DEF CdsNext

LEMMA CdsIsTyped ==
  ASSUME Scans, Pages, Counted
  PROVE  CdsTypeOK
  <1>1. disk \in Disks /\ changes \in 0 .. MaxChanges /\ updateId \in Nat \ {0}
    BY DEF Scans, Counted
  <1>2. ToSet(order) = DOMAIN catalog
    BY OrdersAssumption DEF Scans
  <1>3. Cardinality(fresh) <= 1
    <2>1. Cardinality({}) = 0 /\ \A new : Cardinality({new}) = 1
      BY FS_EmptySet, FS_Singleton
    <2>2. CASE fresh = {}
      BY <2>1, <2>2
    <2>3. CASE \E new : fresh = {new}
      <3>1. PICK new : fresh = {new}
        BY <2>3
      <3>2. Cardinality(fresh) = 1
        BY <2>1, <3>1
      <3> QED
        BY <3>2
    <2> QED
      BY <2>2, <2>3 DEF Counted
  <1>4. \A t \in tv : t.told \subseteq 1 .. updateId /\ t.done \in BOOLEAN
    BY DEF Pages, Television, Counted
  <1> QED
    BY <1>1, <1>2, <1>3, <1>4 DEF CdsTypeOK

(***************************************************************************)
(* Whatever the folders hold and however often they are scanned, every     *)
(* video that was read can be reached from the top, and each node stands   *)
(* in the list of its parent, once, and in no other (grouping.rs: moving   *)
(* episodes to their seasons, removing empty folders, sorting the top).    *)
(***************************************************************************)
THEOREM EveryVideoIsShelved == CdsSpec => []CdsInv
  <1>1. \A d \in Disks : WellFormed(Scan(d))
    BY ScanIsWell
  <1>2. \A d \in Disks : Whole(Scan(d))
    BY ScanIsWhole
  <1>3. CdsInit => Scans /\ Pages /\ Counted
    BY ScansInit, CountedInit DEF CdsInit, Pages
  <1>4. Scans /\ Pages /\ Counted /\ [CdsNext]_cdsVars => Scans' /\ Pages' /\ Counted'
    BY <1>1, ScansStep, PagesStep, CountedStep
  <1>5. Scans /\ Pages /\ Counted => CdsInv
    BY <1>2, WholeShowsAll, CdsIsTyped DEF CdsInv
  <1> QED
    BY <1>3, <1>4, <1>5, PTL DEF CdsSpec

-----------------------------------------------------------------------------
(* What is counted is what is listed.                                      *)

\* The web sorts a folder of the catalog as the televisions have it.
LEMMA OneOrder ==
  ASSUME NEW cat, NEW ids, IsList(ids), \A id \in ToSet(ids) : ~IsView(id)
  PROVE  InOrder(cat, ids) = SortNodes(cat, ids, "")
  <1>1. PICK n : n = Len(ids)
    OBVIOUS
  <1>2. n \in Nat /\ DOMAIN ids = 1 .. n
    BY <1>1, ListFacts
  <1> DEFINE dir(i) == cat[ids[i]].kind = "folder"
             title(i, j) == Before(cat[ids[i]].title, cat[ids[j]].title)
             before(i, j) == (dir(i) /\ ~dir(j)) \/ (dir(i) = dir(j) /\ title(i, j))
             folder(i) == Folder(cat, ids[i])
             earlier(i, j) == Earlier(cat, ids[i], ids[j])
             sooner(i, j) == (folder(i) /\ ~folder(j)) \/ (folder(i) = folder(j) /\ earlier(i, j))
             place(i) == Cardinality({j \in 1 .. n : before(j, i) \/ (~before(i, j) /\ j <= i)})
             spot(i) == Cardinality({j \in 1 .. n : sooner(j, i) \/ (~sooner(i, j) /\ j <= i)})
  <1>3. InOrder(cat, ids) = [k \in 1 .. n |-> ids[CHOOSE i \in 1 .. n : place(i) = k]]
    BY <1>2 DEF InOrder, StableSort
  <1>4. SortNodes(cat, ids, "") = [k \in 1 .. n |-> ids[CHOOSE i \in 1 .. n : spot(i) = k]]
    BY <1>2 DEF SortNodes, StableSort
  <1>5. \A i \in 1 .. n : NodeOf(cat, ids[i]) = cat[ids[i]]
    BY <1>2 DEF NodeOf, ToSet
  <1>6. \A i, j \in 1 .. n : before(i, j) <=> sooner(i, j)
    BY <1>5 DEF Folder, Earlier
  <1> HIDE DEF before, sooner
  <1>7. \A i \in 1 .. n : place(i) = spot(i)
    <2> TAKE i \in 1 .. n
    <2>1. {j \in 1 .. n : before(j, i) \/ (~before(i, j) /\ j <= i)}
             = {j \in 1 .. n : sooner(j, i) \/ (~sooner(i, j) /\ j <= i)}
      BY <1>6
    <2> QED
      BY <2>1
  <1> HIDE DEF place, spot
  <1>8. \A k \in 1 .. n : (CHOOSE i \in 1 .. n : place(i) = k) = (CHOOSE i \in 1 .. n : spot(i) = k)
    <2> TAKE k \in 1 .. n
    <2>1. \A i : (i \in 1 .. n /\ place(i) = k) <=> (i \in 1 .. n /\ spot(i) = k)
      BY <1>7
    <2> QED
      BY <2>1, Zenon
  <1> QED
    BY <1>3, <1>4, <1>8

\* Each of a set, once, if the sequence has them once.
LEMMA AmongCounts ==
  ASSUME NEW ord, IsList(ord), IsInjective(ord), NEW S, S \subseteq ToSet(ord)
  PROVE  Len(Among(ord, S)) = Cardinality(S)
  <1>1. PICK places : places = {i \in DOMAIN ord : ord[i] \in S}
    OBVIOUS
  <1>2. IsFiniteSet(places)
    BY <1>1, ListFacts, FS_Subset
  <1>3. Len(Among(ord, S)) = Cardinality(places)
    BY <1>1, <1>2, AtIsList DEF Among
  <1>4. PICK f : f = [i \in places |-> ord[i]]
    OBVIOUS
  <1>5. f \in Bijection(places, S)
    <2>1. f \in [places -> S]
      BY <1>1, <1>4
    <2>2. \A i, j \in places : f[i] = f[j] => i = j
      BY <1>1, <1>4 DEF IsInjective
    <2>3. \A x \in S : \E i \in places : f[i] = x
      BY <1>1, <1>4 DEF ToSet
    <2>4. f \in Injection(places, S)
      BY <2>1, <2>2 DEF Injection, IsInjective
    <2>5. f \in Surjection(places, S)
      BY <2>1, <2>3 DEF Surjection
    <2> QED
      BY <2>4, <2>5 DEF Bijection
  <1>6. ExistsBijection(places, S)
    BY <1>5 DEF ExistsBijection
  <1> QED
    BY <1>2, <1>3, <1>6, FS_Bijection

\* The categories of series, of films and of all videos.
LEMMA ViewsCount ==
  ASSUME NEW cat, Whole(cat), NEW ord, IsList(ord), IsInjective(ord), ToSet(ord) = DOMAIN cat,
         NEW v \in {"movies", "series", "video"}
  PROVE  ViewCount(cat, ord, v) = Len(ViewItems(cat, ord, v))
  <1>1. CASE v \in {"movies", "series"}
    BY <1>1 DEF ViewCount
  <1>2. CASE v = "video"
    <2>1. KindsOf(v) = {"video"}
      BY <1>2 DEF KindsOf
    <2>2. ViewCount(cat, ord, v) = CountOfKinds(cat, {"video"})
      BY <1>2, <2>1 DEF ViewCount
    <2>3. ViewItems(cat, ord, v) = Among(ord, OfKinds(cat, {"video"}))
      BY <1>2, <2>1 DEF ViewItems
    <2>4. Reach(cat, {Top}) \subseteq DOMAIN cat
      BY ReachFacts DEF Whole
    <2>5. OfKinds(cat, {"video"}) = {id \in DOMAIN cat : cat[id].kind \in {"video"}}
      BY <2>4 DEF OfKinds, Flatten, Whole
    <2>6. PICK S : S = {id \in DOMAIN cat : cat[id].kind \in {"video"}}
      OBVIOUS
    <2>7. Len(Among(ord, S)) = Cardinality(S)
      BY <2>6, AmongCounts
    <2> QED
      BY <2>2, <2>3, <2>5, <2>6, <2>7 DEF CountOfKinds
  <1> QED
    BY <1>1, <1>2

LEMMA FoldersAndViewsCount ==
  ASSUME NEW cat, Whole(cat), NEW ord, IsList(ord), IsInjective(ord), ToSet(ord) = DOMAIN cat
  PROVE  /\ \A id \in {x \in Flatten(cat) : Folder(cat, x)} :
               /\ ChildCount(cat, ord, id) = Len(Listing(cat, ord, id, ""))
               /\ WebListing(cat, id, {"folder", "video", "audio", "image"}) = Listing(cat, ord, id, "")
         /\ \A id \in {ViewId(v) : v \in {"movies", "series", "video"}} :
               ChildCount(cat, ord, id) = Len(Listing(cat, ord, id, ""))
  <1>1. \A x \in DOMAIN cat : ~IsView(x)
    <2>1. ~IsView(Top)
      BY DEF IsView, Top
    <2>2. \A x : IsSynthetic(x) => ~IsView(x)
      BY DEF IsView, IsSynthetic
    <2>3. \A x : OneWord(x) => ~IsView(x)
      BY DEF IsView, OneWord
    <2> QED
      BY <2>1, <2>2, <2>3 DEF Whole
  <1>2. WellFormed(cat) /\ Top \in DOMAIN cat
    BY DEF Whole
  <1>3. ASSUME NEW id \in Flatten(cat)
        PROVE  /\ ChildCount(cat, ord, id) = Len(Listing(cat, ord, id, ""))
               /\ WebListing(cat, id, {"folder", "video", "audio", "image"}) = Listing(cat, ord, id, "")
    <2>1. Reach(cat, {Top}) \subseteq DOMAIN cat
      BY <1>2, ReachFacts
    <2>2. id \in DOMAIN cat /\ id # Top /\ ~IsView(id)
      BY <1>1, <2>1 DEF Flatten
    <2>3. PICK ids : ids = Children(cat, id)
      OBVIOUS
    <2>4. IsList(ids) /\ ToSet(ids) \subseteq DOMAIN cat
      BY <1>2, <2>3, ChildrenAreListed, ChildrenFacts
    <2>5. Listing(cat, ord, id, "") = SortNodes(cat, ids, "")
      BY <2>2, <2>3 DEF Listing
    <2>6. ChildCount(cat, ord, id) = Len(ids)
      BY <2>2, <2>3 DEF ChildCount
    <2>7. PICK found : found = {child \in DOMAIN cat : cat[child].kind \in {"folder", "video", "audio", "image"}}
      OBVIOUS
    <2>8. found = DOMAIN cat
      BY <1>2, <2>7 DEF WellFormed, IsNode, Kinds
    <2>9. Among(ids, found) = ids
      BY <2>4, <2>8, AllOfIt
    <2>10. WebListing(cat, id, {"folder", "video", "audio", "image"}) = InOrder(cat, ids)
      BY <2>3, <2>7, <2>9 DEF WebListing
    <2>11. InOrder(cat, ids) = SortNodes(cat, ids, "")
      BY <1>1, <2>4, OneOrder
    <2> QED
      BY <2>4, <2>5, <2>6, <2>10, <2>11, SortedIsList
  <1>4. ASSUME NEW v \in {"movies", "series", "video"}
        PROVE  ChildCount(cat, ord, ViewId(v)) = Len(Listing(cat, ord, ViewId(v), ""))
    <2>1. IsView(ViewId(v)) /\ ViewId(v)[2] = v
      BY DEF IsView, ViewId
    <2>2. PICK ids : ids = ViewItems(cat, ord, v)
      OBVIOUS
    <2>3. Listing(cat, ord, ViewId(v), "") = SortNodes(cat, ids, "")
      BY <2>1, <2>2 DEF Listing
    <2>4. IsList(ids)
      BY <2>2, ViewItemsAreListed
    <2>5. ChildCount(cat, ord, ViewId(v)) = Len(ids)
      BY <2>1, <2>2, ViewsCount DEF ChildCount
    <2> QED
      BY <2>3, <2>4, <2>5, SortedIsList
  <1> QED
    BY <1>3, <1>4

(***************************************************************************)
(* The number of children that is told for a folder, and for the           *)
(* categories of series, films and videos, is the number that is listed,   *)
(* whatever order the map of the catalog has, and the web lists a folder   *)
(* as the televisions do (browse.rs, views.rs, api/browse.rs).             *)
(***************************************************************************)
THEOREM CountsAreOfLists == CdsSpec => []CountsAndListsAgree
  <1>1. \A d \in Disks : Whole(Scan(d))
    BY ScanIsWhole
  <1>2. CdsInit => Scans
    BY ScansInit
  <1>3. Scans /\ [CdsNext]_cdsVars => Scans'
    BY ScansStep
  <1>4. Scans => CountsAndListsAgree
    <2> SUFFICES ASSUME Scans PROVE CountsAndListsAgree
      OBVIOUS
    <2>1. Whole(catalog)
      BY <1>1 DEF Scans
    <2>2. IsList(order) /\ IsInjective(order) /\ ToSet(order) = DOMAIN catalog
      BY OrdersAssumption DEF Scans, IsList
    <2> QED
      BY <2>1, <2>2, FoldersAndViewsCount DEF CountsAndListsAgree
  <1> QED
    BY <1>2, <1>3, <1>4, PTL DEF CdsSpec

-----------------------------------------------------------------------------
(* Search.                                                                 *)

\* The one class that is named is the first of the four that is named.
LEMMA ClassIsRead ==
  ASSUME NEW c \in Criteria, NEW x \in c.clauses, x.field = "class"
  PROVE  ParseCriteria(c).kind = ClassKind(x.value) /\ ClassKind(x.value) # {}
  <1> DEFINE isNamed(k) == [field |-> "class", value |-> <<Classes[k]>>] \in c.clauses
             named == {k \in DOMAIN Classes : isNamed(k)}
  <1>1. PICK k \in DOMAIN Classes : x.value = <<Classes[k]>>
    BY CriteriaAssumption
  <1>2. DOMAIN Classes = 1 .. 4
    BY DEF Classes
  <1>3. x = [field |-> "class", value |-> <<Classes[k]>>]
    BY <1>1, CriteriaAssumption
  <1>4. ASSUME NEW j \in named PROVE j = k
    <2>1. [field |-> "class", value |-> <<Classes[j]>>] = x
      BY <1>3, <1>4, CriteriaAssumption
    <2>2. <<Classes[j]>> = <<Classes[k]>>
      BY <1>3, <2>1
    <2>3. Classes[j] = Classes[k] /\ j \in 1 .. 4 /\ k \in 1 .. 4
      BY <1>2, <2>2
    <2> QED
      BY <2>3 DEF Classes
  <1>5. named = {k}
    BY <1>1, <1>3, <1>4
  <1>6. FirstOf(named) = k
    <2>1. \A j \in {k} : k \leq j
      BY <1>1, <1>2
    <2> HIDE DEF named
    <2> QED
      BY <1>5, <2>1 DEF FirstOf
  <1>7. ParseCriteria(c).kind = ClassKind(<<Classes[k]>>)
    <2>1. ParseCriteria(c).kind = IF named = {} THEN {} ELSE ClassKind(<<Classes[FirstOf(named)]>>)
      BY DEF ParseCriteria
    <2> HIDE DEF named
    <2> QED
      BY <1>5, <1>6, <2>1
  <1>8. ClassKind(<<Classes[k]>>) # {}
    <2>1. k = 1 \/ k = 2 \/ k = 3 \/ k = 4
      BY <1>2
    <2> QED
      BY <2>1 DEF ClassKind, Classes
  <1> QED
    BY <1>1, <1>7, <1>8

LEMMA NoClassIsRead ==
  ASSUME NEW c, \A x \in c.clauses : x.field # "class"
  PROVE  ParseCriteria(c).kind = {}
  <1> DEFINE named == {k \in DOMAIN Classes : [field |-> "class", value |-> <<Classes[k]>>] \in c.clauses}
  <1>1. named = {}
    OBVIOUS
  <1>2. ParseCriteria(c).kind = IF named = {} THEN {} ELSE ClassKind(<<Classes[FirstOf(named)]>>)
    BY DEF ParseCriteria
  <1> HIDE DEF named
  <1> QED
    BY <1>1, <1>2

\* The phrases are the values of the clauses about the title.
LEMMA PhrasesAreRead ==
  ASSUME NEW c \in Criteria
  PROVE  /\ ParseCriteria(c).refIds = {}
         /\ ParseCriteria(c).anyOf = ("or" \in c.joined)
         /\ ParseCriteria(c).phrases = {x.value : x \in {y \in c.clauses : y.field = "title"}}
  <1> DEFINE ids == {x.value : x \in {y \in c.clauses : y.field \in {"refid", "id"}}}
             titles == {y \in c.clauses : y.field = "title"}
             phrases == {x.value : x \in Spoken(c)}
  <1>1. ids = {}
    BY CriteriaAssumption
  <1>2. Spoken(c) = titles
    BY CriteriaAssumption DEF Spoken
  <1>3. c.loose # <<>> => titles # {}
    BY CriteriaAssumption
  <1>4. phrases = {} => titles = {}
    BY <1>2
  <1>5. /\ ParseCriteria(c).refIds = ids
        /\ ParseCriteria(c).phrases = IF phrases = {} /\ ids = {} /\ c.loose # <<>> THEN {c.loose} ELSE phrases
    BY DEF ParseCriteria
  <1>6. ParseCriteria(c).anyOf = ("or" \in c.joined)
    BY DEF ParseCriteria
  <1>7. phrases = {x.value : x \in titles}
    BY <1>2
  <1> QED
    BY <1>1, <1>3, <1>4, <1>5, <1>6, <1>7

\* Rows of one kind, if one is said.
LEMMA RowsOfKind ==
  ASSUME NEW c \in Criteria, NEW r
  PROVE  (ParseCriteria(c).kind = {} \/ r.kind \in ParseCriteria(c).kind)
           <=> \A x \in {y \in c.clauses : y.field = "class"} : r.kind \in ClassKind(x.value)
  <1>1. CASE \A x \in c.clauses : x.field # "class"
    BY <1>1, NoClassIsRead
  <1>2. ASSUME NEW x \in c.clauses, x.field = "class"
        PROVE  (ParseCriteria(c).kind = {} \/ r.kind \in ParseCriteria(c).kind)
                 <=> \A y \in {y \in c.clauses : y.field = "class"} : r.kind \in ClassKind(y.value)
    <2>1. {y \in c.clauses : y.field = "class"} = {x}
      BY <1>2, CriteriaAssumption
    <2> QED
      BY <1>2, <2>1, ClassIsRead
  <1> QED
    BY <1>1, <1>2

\* Whatever the index holds.
LEMMA SearchesMeanWhatTheySay == SearchMeansWhatItSays
  <1> SUFFICES ASSUME NEW c \in Criteria
               PROVE  LET class == {x \in c.clauses : x.field = "class"}
                          titles == {x \in c.clauses : x.field = "title"}
                          ofClass(r) == \A x \in class : r.kind \in ClassKind(x.value)
                          has(r, x) == MatchesPhrase(r, x.value)
                          wanted(r) == /\ ofClass(r)
                                       /\ IF "or" \in c.joined THEN \E x \in titles : has(r, x)
                                          ELSE \A x \in titles : has(r, x)
                      IN  Hits(c) = {r.id : r \in {x \in rows : wanted(x)}}
    BY DEF SearchMeansWhatItSays
  <1> DEFINE class == {x \in c.clauses : x.field = "class"}
             titles == {x \in c.clauses : x.field = "title"}
             ofClass(r) == \A x \in class : r.kind \in ClassKind(x.value)
             has(r, x) == MatchesPhrase(r, x.value)
             wanted(r) == /\ ofClass(r)
                          /\ IF "or" \in c.joined THEN \E x \in titles : has(r, x)
                             ELSE \A x \in titles : has(r, x)
             said == {p \in ParseCriteria(c).phrases : p # <<>>}
             ofKind == {r \in rows : ParseCriteria(c).kind = {} \/ r.kind \in ParseCriteria(c).kind}
             one == {r.id : r \in {x \in ofKind : \E p \in said : MatchesPhrase(x, p)}}
             every == {r.id : r \in {x \in ofKind : said # {} /\ \A p \in said : MatchesPhrase(x, p)}}
  <1> SUFFICES Hits(c) = {r.id : r \in {x \in rows : wanted(x)}}
    OBVIOUS
  <1>1. ofKind = {r \in rows : ofClass(r)}
    BY RowsOfKind
  <1>2. /\ ParseCriteria(c).refIds = {} /\ ParseCriteria(c).anyOf = ("or" \in c.joined)
        /\ ParseCriteria(c).phrases = {x.value : x \in titles}
    BY PhrasesAreRead
  <1>3. said = {x.value : x \in titles}
    BY <1>2, CriteriaAssumption
  <1>4. "or" \in c.joined => titles # {}
    BY CriteriaAssumption
  <1>5. Hits(c) = IF ParseCriteria(c).phrases = {} THEN {r.id : r \in ofKind}
                  ELSE IF ParseCriteria(c).anyOf THEN one ELSE every
    BY <1>2 DEF Hits
  <1> HIDE DEF ofClass, ofKind, said
  <1>6. CASE titles = {}
    <2>1. ParseCriteria(c).phrases = {} /\ \A r : wanted(r) <=> ofClass(r)
      BY <1>2, <1>4, <1>6
    <2>2. {x \in rows : wanted(x)} = ofKind
      BY <1>1, <2>1
    <2> QED
      BY <1>5, <2>1, <2>2
  <1>7. CASE titles # {}
    <2>1. ParseCriteria(c).phrases # {} /\ said # {}
      BY <1>2, <1>3, <1>7
    <2>2. \A r : (\E p \in said : MatchesPhrase(r, p)) <=> (\E x \in titles : has(r, x))
      BY <1>3
    <2>3. \A r : (\A p \in said : MatchesPhrase(r, p)) <=> (\A x \in titles : has(r, x))
      BY <1>3
    <2>4. CASE "or" \in c.joined
      <3>1. {x \in rows : wanted(x)} = {x \in ofKind : \E p \in said : MatchesPhrase(x, p)}
        BY <1>1, <2>2, <2>4
      <3> QED
        BY <1>2, <1>5, <2>1, <2>4, <3>1
    <2>5. CASE "or" \notin c.joined
      <3>1. {x \in rows : wanted(x)} = {x \in ofKind : said # {} /\ \A p \in said : MatchesPhrase(x, p)}
        BY <1>1, <2>1, <2>3, <2>5
      <3> QED
        BY <1>2, <1>5, <2>1, <2>5, <3>1
    <2> QED
      BY <2>4, <2>5
  <1> QED
    BY <1>6, <1>7

(***************************************************************************)
(* A search finds the rows that its criteria describe and no others, in    *)
(* every state and whatever has been indexed (search.rs parse_criteria,    *)
(* search_catalog).                                                        *)
(***************************************************************************)
THEOREM SearchesFindWhatTheySay == CdsSpec => []SearchMeansWhatItSays
  <1>1. SearchMeansWhatItSays
    BY SearchesMeanWhatTheySay
  <1> QED
    BY <1>1, PTL

-----------------------------------------------------------------------------
(* An episode is found where its name says it belongs.                     *)

\* What FoundWhereItBelongs says of one node, and where the node is from.
Filed(n) ==
  LET name == NameOf(n)
  IN  /\ n.kind = "video" =>
            /\ name.meant = {} => ~IsSynthetic(n.parent)
            /\ \A m \in name.meant :
                  /\ n.parent = SeasonId(m.series, m.season)
                  /\ SubSeq(n.title, 1, 4) = <<"S", ToString(m.season), "E", ToString(m.number)>>
      /\ n.file # {} /\ IsSynthetic(n.parent)
            => \A s \in SeriesInfo(name) : n.parent = SeasonId(s.series, s.season)
FromDisk(d, id, n) == n.file = {} \/ \E e \in ToSet(d.entries) : id = IdOf(e) /\ n.file = {e.name}
Filing(d, cat) == \A id \in DOMAIN cat : Filed(cat[id]) /\ FromDisk(d, id, cat[id])

Alike(n, o) == n.parent = o.parent /\ n.kind = o.kind /\ n.title = o.title /\ n.file = o.file

LEMMA AlikeIsFiled ==
  ASSUME NEW o, Filed(o), NEW n, Alike(n, o)
  PROVE  Filed(n)
  <1>1. NameOf(n) = NameOf(o)
    BY DEF Alike, NameOf
  <1> QED
    BY <1>1 DEF Filed, Alike

\* Lists in another order, and fewer nodes, file as before.
LEMMA AlikeIsFiling ==
  ASSUME NEW d, NEW cat, Filing(d, cat), NEW new, DOMAIN new \subseteq DOMAIN cat,
         \A id \in DOMAIN new : Alike(new[id], cat[id])
  PROVE  Filing(d, new)
  <1> SUFFICES ASSUME NEW id \in DOMAIN new PROVE Filed(new[id]) /\ FromDisk(d, id, new[id])
    BY DEF Filing
  <1>1. Filed(cat[id]) /\ FromDisk(d, id, cat[id]) /\ Alike(new[id], cat[id])
    BY DEF Filing
  <1>2. Filed(new[id])
    BY <1>1, AlikeIsFiled
  <1> QED
    BY <1>1, <1>2 DEF FromDisk, Alike

LEMMA OtherChildren ==
  ASSUME NEW o, IsNode(o), NEW children
  PROVE  Alike([o EXCEPT !.children = children], o)
  BY DEF IsNode, Alike

LEMMA SortsAreFiling ==
  ASSUME NEW d, NEW cat, WellFormed(cat), Filing(d, cat), NEW root
  PROVE  Filing(d, FoldersInOrder(cat, root)) /\ Filing(d, SortOnly(cat, root))
  <1> DEFINE sorted(id) == [cat[id] EXCEPT !.children = InOrder(cat, Children(cat, id))]
             folders == {id \in Descendants(cat, root) : cat[id].kind = "folder" /\ ~IsSynthetic(id)}
             near == {root} \cup {id \in ToSet(Children(cat, root)) :
                                     cat[id].kind = "folder" /\ ~IsSynthetic(id)}
  <1>1. \A id \in DOMAIN cat : Alike(sorted(id), cat[id]) /\ Alike(cat[id], cat[id])
    <2> TAKE id \in DOMAIN cat
    <2>1. IsNode(cat[id])
      BY DEF WellFormed
    <2>2. Alike(sorted(id), cat[id])
      BY <2>1, OtherChildren
    <2> QED
      BY <2>2 DEF Alike
  <1>2. /\ FoldersInOrder(cat, root) = [id \in DOMAIN cat |-> IF id \in folders THEN sorted(id) ELSE cat[id]]
        /\ SortOnly(cat, root) = [id \in DOMAIN cat |-> IF id \in near THEN sorted(id) ELSE cat[id]]
    BY DEF FoldersInOrder, SortOnly
  <1> HIDE DEF sorted, folders, near
  <1>3. PICK one, two : one = FoldersInOrder(cat, root) /\ two = SortOnly(cat, root)
    OBVIOUS
  <1>4. DOMAIN one = DOMAIN cat /\ \A id \in DOMAIN one : Alike(one[id], cat[id])
    BY <1>1, <1>2, <1>3
  <1>5. DOMAIN two = DOMAIN cat /\ \A id \in DOMAIN two : Alike(two[id], cat[id])
    BY <1>1, <1>2, <1>3
  <1>6. Filing(d, one)
    BY <1>4, AlikeIsFiling
  <1>7. Filing(d, two)
    BY <1>5, AlikeIsFiling
  <1> QED
    BY <1>3, <1>6, <1>7

LEMMA PruneIsFiling ==
  ASSUME NEW d, NEW cat, WellFormed(cat), Filing(d, cat), NEW root
  PROVE  Filing(d, PruneEmpty(cat, root))
  <1> DEFINE gone == {id \in Descendants(cat, root) :
                        cat[id].kind = "folder" /\ ~IsSynthetic(id) /\ ~HasVideo(cat, id)}
             left(id) == [cat[id] EXCEPT !.children = Among(@, ToSet(@) \ gone)]
  <1>1. PruneEmpty(cat, root) = [id \in DOMAIN cat \ gone |-> left(id)]
    BY DEF PruneEmpty
  <1>2. \A id \in DOMAIN cat : Alike(left(id), cat[id])
    <2> TAKE id \in DOMAIN cat
    <2>1. IsNode(cat[id])
      BY DEF WellFormed
    <2> QED
      BY <2>1, OtherChildren
  <1> HIDE DEF gone, left
  <1>3. PICK new : new = PruneEmpty(cat, root)
    OBVIOUS
  <1>4. DOMAIN new \subseteq DOMAIN cat /\ \A id \in DOMAIN new : Alike(new[id], cat[id])
    BY <1>1, <1>2, <1>3
  <1> QED
    BY <1>3, <1>4, AlikeIsFiling

LEMMA TopIsFiling ==
  ASSUME NEW d, NEW cat, WellFormed(cat), Filing(d, cat), NEW root, NEW moved, IsFiniteSet(moved.series)
  PROVE  Filing(d, TopInOrder(cat, root, moved))
  <1>1. PICK top : top = SeriesFirst(cat, moved) \o FilmsThen(cat, root, moved) \o TheRest(cat, root, moved)
    OBVIOUS
  <1>2. PICK new : new = [cat EXCEPT ![root].children = top]
    OBVIOUS
  <1>3. TopInOrder(cat, root, moved) = FoldersInOrder(new, root)
    BY <1>1, <1>2 DEF TopInOrder, SeriesFirst, FilmsThen, TheRest
  <1>4. IsList(top)
    <2>1. /\ IsList(Children(cat, root)) /\ IsList(InSequence(moved.series, Before))
          /\ IsList(Reverse(Among(Children(cat, root), moved.films)))
          /\ IsList(TheRest(cat, root, moved))
      BY ChildrenAreListed, InSequenceIsList, AmongIsList, ReverseIsList, NodesInOrder DEF TheRest
    <2>2. ASSUME NEW ids, IsList(ids) PROVE IsList(Alphabetical(cat, ids))
      <3>1. Len(ids) \in Nat /\ DOMAIN ids = 1 .. Len(ids)
        BY <2>2, ListFacts
      <3>2. Alphabetical(cat, ids) = [k \in 1 .. Len(ids) |-> Alphabetical(cat, ids)[k]]
        BY <3>1 DEF StableSort, Alphabetical
      <3> QED
        BY <3>1, <3>2, ListIntro
    <2>3. IsList(SeriesFirst(cat, moved)) /\ IsList(FilmsThen(cat, root, moved))
      BY <2>1, <2>2 DEF SeriesFirst, FilmsThen
    <2> QED
      BY <1>1, <2>1, <2>3, JoinIsList
  <1>5. WellFormed(new)
    BY <1>2, <1>4, ChangedNode DEF WellFormed
  <1>6. \A id \in DOMAIN new : Alike(new[id], cat[id])
    <2> TAKE id \in DOMAIN new
    <2>1. id \in DOMAIN cat /\ IsNode(cat[id])
      BY <1>2 DEF WellFormed
    <2>2. CASE id = root
      <3>1. new[id] = [cat[id] EXCEPT !.children = top]
        BY <1>2, <2>1, <2>2
      <3> QED
        BY <2>1, <3>1, OtherChildren
    <2>3. CASE id # root
      BY <1>2, <2>1, <2>3 DEF Alike
    <2> QED
      BY <2>2, <2>3
  <1>7. DOMAIN new = DOMAIN cat
    BY <1>2
  <1>8. Filing(d, new)
    BY <1>6, <1>7, AlikeIsFiling
  <1> QED
    BY <1>3, <1>5, <1>8, SortsAreFiling

\* Whose folders are the same has the same folders above.
LEMMA AboveAgree ==
  ASSUME NEW cat, NEW t, NEW id \in DOMAIN t, DOMAIN t \subseteq DOMAIN cat, Top \notin DOMAIN cat,
         \A x \in DOMAIN t : cat[x].parent = t[x].parent /\ t[x].parent \in DOMAIN t \cup {Top}
  PROVE  FoldersAbove(cat, id) = FoldersAbove(t, id)
  <1> DEFINE V == DOMAIN t \cup {Top}
             above(c, x) == IF x \in DOMAIN c THEN c[x].parent ELSE Top
             next == [x \in V |-> above(t, x)]
             IsUp(c, f) == f = [k \in 0 .. 6 |-> IF k = 0 THEN id ELSE above(c, f[k - 1])]
             hops(c, g) == {k \in 1 .. 6 : \A j \in 1 .. k : g[j] \in DOMAIN c}
  <1>1. next \in [V -> V] /\ id \in V
    OBVIOUS
  <1>2. PICK f \in [0 .. 6 -> V] : f[0] = id /\ \A k \in 1 .. 6 : f[k] = next[f[k - 1]]
    <2> HIDE DEF V, next
    <2> QED
      BY <1>1, SixSteps
  <1>3. \A x \in V : above(cat, x) = next[x] /\ above(t, x) = next[x]
    OBVIOUS
  <1>4. \A k \in 0 .. 6 : f[k] \in V
    BY <1>2
  <1>5. ASSUME NEW c, \A x \in V : above(c, x) = next[x] PROVE IsUp(c, f) /\ \A g : IsUp(c, g) => g = f
    <2> HIDE DEF V, above, next
    <2>1. IsUp(c, f)
      <3>1. ASSUME NEW k \in 0 .. 6 PROVE f[k] = IF k = 0 THEN id ELSE above(c, f[k - 1])
        <4>1. CASE k = 0
          BY <1>2, <4>1
        <4>2. CASE k # 0
          <5>1. k \in 1 .. 6 /\ k - 1 \in 0 .. 6
            BY <4>2
          <5>2. f[k] = next[f[k - 1]] /\ f[k - 1] \in V
            BY <1>2, <1>4, <5>1
          <5> QED
            BY <1>5, <4>2, <5>2
        <4> QED
          BY <4>1, <4>2
      <3> QED
        BY <1>2, <3>1
    <2>2. ASSUME NEW g, IsUp(c, g) PROVE g = f
      <3>1. g[0] = id /\ \A k \in 1 .. 6 : g[k] = above(c, g[k - 1])
        BY <2>2
      <3>2. ASSUME NEW k \in 1 .. 6, g[k - 1] = f[k - 1] PROVE g[k] = f[k]
        <4>1. k - 1 \in 0 .. 6
          OBVIOUS
        <4> QED
          BY <1>2, <1>4, <1>5, <3>1, <3>2, <4>1
      <3>3. g[0] = f[0]
        BY <1>2, <3>1
      <3>4. g[1] = f[1]
        BY <3>2, <3>3
      <3>5. g[2] = f[2]
        BY <3>2, <3>4
      <3>6. g[3] = f[3]
        BY <3>2, <3>5
      <3>7. g[4] = f[4]
        BY <3>2, <3>6
      <3>8. g[5] = f[5]
        BY <3>2, <3>7
      <3>9. g[6] = f[6]
        BY <3>2, <3>8
      <3>10. \A k \in 0 .. 6 : g[k] = f[k]
        BY <3>3, <3>4, <3>5, <3>6, <3>7, <3>8, <3>9
      <3>11. PICK e : e = [k \in 0 .. 6 |-> IF k = 0 THEN id ELSE above(c, g[k - 1])]
        OBVIOUS
      <3>12. g = e
        BY <2>2, <3>11
      <3>13. g = [k \in 0 .. 6 |-> g[k]] /\ f = [k \in 0 .. 6 |-> f[k]]
        BY <1>2, <3>11, <3>12
      <3> HIDE DEF IsUp
      <3> QED
        BY <3>10, <3>13
    <2> QED
      BY <2>1, <2>2
  <1>6. (CHOOSE g : IsUp(cat, g)) = f /\ (CHOOSE g : IsUp(t, g)) = f
    <2>1. IsUp(cat, f) /\ \A g : IsUp(cat, g) => g = f
      BY <1>3, <1>5
    <2>2. IsUp(t, f) /\ \A g : IsUp(t, g) => g = f
      BY <1>3, <1>5
    <2> HIDE DEF IsUp
    <2> QED
      BY <2>1, <2>2
  <1>7. FoldersAbove(cat, id) = [k \in hops(cat, f) |-> f[k]]
    <2>1. PICK g : g = CHOOSE h : IsUp(cat, h)
      OBVIOUS
    <2>2. FoldersAbove(cat, id) = [k \in hops(cat, g) |-> g[k]]
      BY <2>1 DEF FoldersAbove
    <2>3. g = f
      BY <1>6, <2>1
    <2> QED
      BY <2>2, <2>3
  <1>8. FoldersAbove(t, id) = [k \in hops(t, f) |-> f[k]]
    <2>1. PICK g : g = CHOOSE h : IsUp(t, h)
      OBVIOUS
    <2>2. FoldersAbove(t, id) = [k \in hops(t, g) |-> g[k]]
      BY <2>1 DEF FoldersAbove
    <2>3. g = f
      BY <1>6, <2>1
    <2> QED
      BY <2>2, <2>3
  <1>9. \A k \in 0 .. 6 : f[k] \in DOMAIN cat <=> f[k] \in DOMAIN t
    BY <1>4
  <1>10. hops(cat, f) = hops(t, f)
    <2>1. \A k \in 1 .. 6 : \A j \in 1 .. k : j \in 0 .. 6
      OBVIOUS
    <2> QED
      BY <1>9, <2>1
  <1> HIDE DEF hops
  <1> QED
    BY <1>7, <1>8, <1>10

\* Where a video belongs depends on the tree of its root.
LEMMA PlaceAgrees ==
  ASSUME NEW cat, NEW t, NEW root, NEW old, Ready(cat, t, root, old), t[root].parent = Top,
         NEW id \in DOMAIN t \ {root}, NEW names
  PROVE  Place(cat, id, names) = Place(t, id, names)
  <1>1. \A x \in DOMAIN t : cat[x] = t[x] /\ t[x].parent \in DOMAIN t \cup {Top}
    BY DEF Ready
  <1>2. DOMAIN t \subseteq DOMAIN cat /\ Top \notin DOMAIN cat
    BY DEF Ready
  <1>3. FoldersAbove(cat, id) = FoldersAbove(t, id)
    BY <1>1, <1>2, AboveAgree
  <1>4. t[id].parent \in DOMAIN t
    BY <1>1 DEF Ready
  <1>5. cat[id] = t[id] /\ cat[t[id].parent] = t[t[id].parent]
    BY <1>1, <1>4
  <1>6. ContextOf(cat, id, names) = ContextOf(t, id, names)
    BY <1>3, <1>5 DEF ContextOf
  <1> QED
    BY <1>5, <1>6 DEF Place

\* Everything of a tree lies below its root.
LEMMA AllBelow ==
  ASSUME NEW cat, NEW t, NEW root, NEW old, Ready(cat, t, root, old)
  PROVE  DOMAIN t \ {root} \subseteq Descendants(cat, root)
  <1>1. WellFormed(cat) /\ root \in DOMAIN cat /\ DOMAIN t \subseteq Reach(cat, {root})
    BY DEF Ready
  <1>2. PICK first : first = ToSet(Children(cat, root))
    OBVIOUS
  <1>3. first \in SUBSET DOMAIN cat
    BY <1>1, <1>2, ChildrenFacts
  <1>4. PICK below : below = Descendants(cat, root)
    OBVIOUS
  <1>5. below = Reach(cat, first)
    BY <1>2, <1>4 DEF Descendants
  <1>6. first \subseteq below /\ Closed(cat, below)
    BY <1>1, <1>3, <1>5, ReachFacts
  <1>7. Closed(cat, below \cup {root})
    BY <1>2, <1>6 DEF Closed
  <1>8. Reach(cat, {root}) \subseteq below \cup {root}
    <2>1. {root} \in SUBSET DOMAIN cat /\ {root} \subseteq below \cup {root}
      BY <1>1
    <2> QED
      BY <1>1, <1>7, <2>1, ReachFacts
  <1> QED
    BY <1>1, <1>4, <1>8

\* The title of an episode begins with its season and its number.
LEMMA TitleBegins ==
  ASSUME NEW p, IsFiniteSet(p.quality), p.number > 0
  PROVE  SubSeq(EpisodeTitle(p), 1, 4) = <<"S", ToString(p.season), "E", ToString(p.number)>>
  <1> DEFINE tail == [k \in 1 .. Cardinality(p.quality) |-> CHOOSE q \in p.quality : TRUE]
  <1>1. PICK a, b : a = ToString(p.season) /\ b = ToString(p.number)
    OBVIOUS
  <1>2. EpisodeTitle(p) = (<<"S", a>> \o <<"E", b>>) \o tail
    BY <1>1 DEF EpisodeTitle
  <1>3. IsList(tail)
    <2>1. Cardinality(p.quality) \in Nat
      BY FS_CardinalityType
    <2> QED
      BY <2>1, ListIntro
  <1> HIDE DEF tail
  <1>4. PICK V : V = {"S", "E", a, b} \cup ToSet(tail)
    OBVIOUS
  <1>5. PICK one, two : one = <<"S", a>> /\ two = <<"E", b>>
    OBVIOUS
  <1>6. /\ one \in Seq(V) /\ Len(one) = 2 /\ one[1] = "S" /\ one[2] = a
        /\ two \in Seq(V) /\ Len(two) = 2 /\ two[1] = "E" /\ two[2] = b
        /\ tail \in Seq(V)
    BY <1>3, <1>4, <1>5 DEF IsList
  <1>7. PICK four : four = one \o two
    OBVIOUS
  <1>8. /\ four \in Seq(V) /\ Len(four) = 4
        /\ four[1] = "S" /\ four[2] = a /\ four[3] = "E" /\ four[4] = b
    <2>1. /\ four \in Seq(V) /\ Len(four) = Len(one) + Len(two)
          /\ \A i \in 1 .. Len(one) + Len(two) : four[i] = IF i <= Len(one) THEN one[i] ELSE two[i - Len(one)]
      BY <1>6, <1>7, ConcatProperties
    <2> QED
      BY <1>6, <2>1
  <1>10. PICK all : all = four \o tail
    OBVIOUS
  <1>11. \A i \in 1 .. 4 : all[i] = four[i]
    <2>1. \A i \in 1 .. Len(four) + Len(tail) : all[i] = IF i <= Len(four) THEN four[i] ELSE tail[i - Len(four)]
      BY <1>6, <1>8, <1>10, ConcatProperties
    <2>2. Len(tail) \in Nat
      BY <1>6
    <2> QED
      BY <1>8, <2>1, <2>2
  <1>12. PICK begin : begin = SubSeq(all, 1, 4)
    OBVIOUS
  <1>13. begin = [i \in 1 .. 4 |-> all[i]]
    BY <1>11, <1>12
  <1>14. begin = <<"S", a, "E", b>>
    BY <1>8, <1>11, <1>13
  <1>15. EpisodeTitle(p) = all
    BY <1>2, <1>5, <1>7, <1>10
  <1> QED
    BY <1>1, <1>12, <1>14, <1>15

LEMMA ElsewhereIsFiled ==
  ASSUME NEW n, ~IsSynthetic(n.parent), n.kind = "video" => NameOf(n).meant = {}
  PROVE  Filed(n)
  BY DEF Filed

LEMMA EpisodeIsFiled ==
  ASSUME NEW o, IsNode(o), NEW p, IsFiniteSet(p.quality), Says(NameOf(o), {p}),
         NEW n, n = [o EXCEPT !.parent = SeasonId(p.slug, p.season), !.title = EpisodeTitle(p)]
  PROVE  Filed(n)
  <1>1. PICK name : name = NameOf(o)
    OBVIOUS
  <1>2. /\ n.parent = SeasonId(p.slug, p.season) /\ n.title = EpisodeTitle(p)
        /\ n.kind = o.kind /\ n.file = o.file
    BY DEF IsNode
  <1>3. NameOf(n) = name
    BY <1>1, <1>2 DEF NameOf
  <1>4. name.meant = {[series |-> p.slug, season |-> p.season, number |-> p.number]}
    BY <1>1 DEF Says
  <1>5. p.number > 0 /\ \A s \in SeriesInfo(name) : s.series = p.slug /\ s.season = p.season
    BY <1>1 DEF Says
  <1>6. SubSeq(n.title, 1, 4) = <<"S", ToString(p.season), "E", ToString(p.number)>>
    BY <1>2, <1>5, TitleBegins
  <1>7. \A s \in SeriesInfo(name) : n.parent = SeasonId(s.series, s.season)
    BY <1>2, <1>5
  <1>8. \A m \in name.meant : m.series = p.slug /\ m.season = p.season /\ m.number = p.number
    BY <1>4
  <1>9. \A m \in name.meant :
           /\ n.parent = SeasonId(m.series, m.season)
           /\ SubSeq(n.title, 1, 4) = <<"S", ToString(m.season), "E", ToString(m.number)>>
    BY <1>2, <1>6, <1>8
  <1>10. name.meant # {}
    BY <1>4
  <1> QED
    BY <1>3, <1>7, <1>9, <1>10 DEF Filed

LEMMA OnePlace ==
  ASSUME NEW cat, NEW id, NEW names, NEW p \in Place(cat, id, names)
  PROVE  Place(cat, id, names) = {p}
  <1>1. PICK name, parsed, context : Place(cat, id, names) = PlaceBy(name, parsed, context)
    BY DEF Place
  <1>2. PICK q : PlaceBy(name, parsed, context) \in {{}, {q}}
    BY DEF PlaceBy
  <1> QED
    BY <1>1, <1>2

\* A node of the tree, where MoveUp puts it.
LEMMA KeptIsFiled ==
  ASSUME NEW t, NEW root, NEW names, Tree(t, root, names), NEW cat, NEW old, Ready(cat, t, root, old),
         NEW place, Places(place, cat, t, root),
         \A id \in DOMAIN place : place[id] = Place(cat, id, names),
         \A id \in DOMAIN t : t[id].kind = "video" =>
            id \in DOMAIN place /\ Says(NameOf(t[id]), place[id]),
         NEW id \in DOMAIN t, NEW n, n = KeptNode(cat, place, id)
  PROVE  Filed(n) /\ n.file = t[id].file
  <1>1. PICK o : o = cat[id]
    OBVIOUS
  <1>2. IsNode(o) /\ o = t[id] /\ ~IsSynthetic(id)
    BY <1>1, WordFacts DEF Ready, WellFormed
  <1>3. ~IsSynthetic(o.parent)
    <2>1. o.parent \in DOMAIN t \/ o.parent = Top
      BY <1>1, <1>2 DEF Ready, Tree
    <2>2. \A x \in DOMAIN t : OneWord(x)
      BY DEF Ready
    <2>3. ~IsSynthetic(Top)
      BY DEF Top, IsSynthetic
    <2> QED
      BY <2>1, <2>2, <2>3, WordFacts
  <1>4. CASE id \in Episodes(place)
    <2>1. PICK p : p = PlaceOf(place, id)
      OBVIOUS
    <2>2. p \in place[id] /\ GoodPlace(p) /\ id \in DOMAIN place /\ o.kind = "video"
      BY <1>1, <1>4, <2>1, EpisodeFacts DEF Ready, Places
    <2>3. place[id] = {p}
      BY <2>2, OnePlace
    <2>4. Says(NameOf(o), {p})
      BY <1>2, <2>2, <2>3
    <2>5. n = [o EXCEPT !.parent = SeasonId(p.slug, p.season), !.title = EpisodeTitle(p)]
      BY <1>1, <1>4, <2>1 DEF KeptNode, ShelfOf
    <2>6. Filed(n)
      BY <1>2, <2>2, <2>4, <2>5, EpisodeIsFiled DEF GoodPlace
    <2>7. n.file = o.file
      BY <1>2, <2>5 DEF IsNode
    <2> QED
      BY <1>2, <2>6, <2>7
  <1>5. CASE id \notin Episodes(place)
    <2>1. n.parent = o.parent /\ n.kind = o.kind /\ n.file = o.file
      <3>1. CASE id \in DOMAIN place
        <4>1. PICK title : n = [o EXCEPT !.title = title]
          BY <1>1, <1>5, <3>1 DEF KeptNode
        <4> QED
          BY <1>2, <4>1 DEF IsNode
      <3>2. CASE id \notin DOMAIN place
        <4>1. PICK children : n = [o EXCEPT !.children = children]
          BY <1>1, <1>2, <1>5, <3>2 DEF KeptNode
        <4> QED
          BY <1>2, <4>1 DEF IsNode
      <3> QED
        BY <3>1, <3>2
    <2>2. NameOf(n) = NameOf(o)
      BY <2>1 DEF NameOf
    <2>3. n.kind = "video" => NameOf(n).meant = {}
      <3> SUFFICES ASSUME n.kind = "video" PROVE NameOf(n).meant = {}
        OBVIOUS
      <3>1. id \in DOMAIN place /\ Says(NameOf(o), place[id])
        BY <1>2, <2>1
      <3>2. place[id] = {}
        BY <1>5, <3>1 DEF Episodes
      <3> QED
        BY <2>2, <3>1, <3>2 DEF Says
    <2>4. Filed(n)
      BY <1>3, <2>1, <2>3, ElsewhereIsFiled
    <2> QED
      BY <1>2, <2>1, <2>4
  <1> QED
    BY <1>4, <1>5

LEMMA RootIsNoFile ==
  ASSUME NEW d \in Disks, NEW root \in ToSet(d.roots)
  PROVE  ScanDir(d, root)[IdOf(root)].file = {}
  <1>1. PICK children : ScanDir(d, root)[IdOf(root)] = Node(Top, root.name.words, "folder", children)
    BY DEF ScanDir, IdOf
  <1> QED
    BY <1>1 DEF Node

LEMMA TreeIsFromDisk ==
  ASSUME NEW d \in Disks, NEW root \in ToSet(d.roots), NEW id \in DOMAIN ScanDir(d, root)
  PROVE  FromDisk(d, id, ScanDir(d, root)[id])
  <1>1. CASE id = IdOf(root)
    BY <1>1, RootIsNoFile DEF FromDisk
  <1>2. CASE id # IdOf(root)
    <2> DEFINE read == {IdOf(d.entries[i]) : i \in TakenFrom(d, root)}
    <2>4. DOMAIN ScanDir(d, root) = read \cup {IdOf(root)}
      BY TreeNodes
    <2>5. id \in read
      BY <1>2, <2>4
    <2>1. PICK i \in TakenFrom(d, root) : id = IdOf(d.entries[i])
      BY <2>5
    <2>2. d.entries[i] \in ToSet(d.entries)
      BY EntryFacts DEF TakenFrom
    <2>3. ScanDir(d, root)[id].file = {d.entries[i].name}
      BY <2>1, TreeNodes
    <2> QED
      BY <2>1, <2>2, <2>3 DEF FromDisk
  <1> QED
    BY <1>1, <1>2

\* A new shelf is no file.
LEMMA ShelfIsFiled ==
  ASSUME NEW parent, NEW title, NEW children, NEW n, n = Node(parent, title, "folder", children), NEW d, NEW id
  PROVE  Filed(n) /\ FromDisk(d, id, n)
  <1>1. n.kind = "folder" /\ n.file = {}
    BY DEF Node
  <1> QED
    BY <1>1 DEF Filed, FromDisk

LEMMA MoveUpIsFiling ==
  ASSUME NEW d, NEW t, NEW root, NEW names, Tree(t, root, names), NEW cat, NEW old, Ready(cat, t, root, old),
         Filing(d, old), \A id \in DOMAIN t : FromDisk(d, id, t[id]),
         NEW place, Places(place, cat, t, root),
         \A id \in DOMAIN place : place[id] = Place(cat, id, names),
         \A id \in DOMAIN t : t[id].kind = "video" =>
            id \in DOMAIN place /\ Says(NameOf(t[id]), place[id])
  PROVE  Filing(d, MoveUp(cat, root, place).nodes)
  <1>1. PICK shelves, seasons, kept :
           shelves = NewSeries(root, place) /\ seasons = NewSeasons(place)
           /\ kept = [id \in DOMAIN cat |-> KeptNode(cat, place, id)]
    OBVIOUS
  <1>2. PICK m : m = MoveUp(cat, root, place).nodes
    OBVIOUS
  <1>3. m = Over(shelves, Over(seasons, kept))
    BY <1>1, <1>2, MoveUpShelves
  <1> SUFFICES ASSUME NEW id \in DOMAIN m PROVE Filed(m[id]) /\ FromDisk(d, id, m[id])
    BY <1>2 DEF Filing
  <1>4. \/ id \in DOMAIN shelves /\ m[id] = shelves[id]
        \/ id \in DOMAIN seasons /\ m[id] = seasons[id]
        \/ id \in DOMAIN cat /\ m[id] = KeptNode(cat, place, id)
    BY <1>1, <1>3 DEF Over
  <1>5. CASE id \in DOMAIN shelves /\ m[id] = shelves[id]
    <2>1. PICK g : m[id] = SeriesNode(root, place, g)
      BY <1>1, <1>5 DEF NewSeries
    <2> QED
      BY <2>1, ShelfIsFiled DEF SeriesNode
  <1>6. CASE id \in DOMAIN seasons /\ m[id] = seasons[id]
    <2>1. PICK g, k : m[id] = SeasonNode(place, g, k)
      BY <1>1, <1>6 DEF NewSeasons
    <2> QED
      BY <2>1, ShelfIsFiled DEF SeasonNode
  <1>7. CASE id \in DOMAIN t /\ m[id] = KeptNode(cat, place, id)
    <2>1. PICK n : n = KeptNode(cat, place, id)
      OBVIOUS
    <2>2. Filed(n) /\ n.file = t[id].file
      BY <1>7, <2>1, KeptIsFiled
    <2>3. FromDisk(d, id, n)
      BY <1>7, <2>2 DEF FromDisk
    <2> QED
      BY <1>7, <2>1, <2>2, <2>3
  <1>8. CASE id \in DOMAIN old /\ m[id] = KeptNode(cat, place, id)
    <2>1. id \notin DOMAIN t /\ cat[id] = old[id] /\ IsNode(old[id])
      BY <1>8 DEF Ready, WellFormed
    <2>2. id \notin Episodes(place) /\ id \notin DOMAIN place
      BY <2>1 DEF Episodes, Places
    <2>3. Filed(old[id]) /\ FromDisk(d, id, old[id])
      BY <1>8 DEF Filing
    <2>4. Alike(m[id], old[id])
      <3>1. CASE IsSynthetic(id)
        BY <1>8, <2>1, <2>2, <3>1 DEF KeptNode, Alike
      <3>2. CASE ~IsSynthetic(id)
        <4>1. PICK children : m[id] = [old[id] EXCEPT !.children = children]
          BY <1>8, <2>1, <2>2, <3>2 DEF KeptNode
        <4> QED
          BY <2>1, <4>1, OtherChildren
      <3> QED
        BY <3>1, <3>2
    <2>5. Filed(m[id])
      BY <2>3, <2>4, AlikeIsFiled
    <2> QED
      BY <2>3, <2>4, <2>5 DEF Alike, FromDisk
  <1>9. DOMAIN cat = DOMAIN t \cup DOMAIN old
    BY DEF Ready
  <1> QED
    BY <1>4, <1>5, <1>6, <1>7, <1>8, <1>9

LEMMA ArrangeIsFiling ==
  ASSUME NEW d, NEW t, NEW root, NEW names, Tree(t, root, names),
         NEW old, NEW roots, NEW ids, Sound(old, roots, ids), DOMAIN t \cap ids = {},
         Filing(d, old), \A id \in DOMAIN t : FromDisk(d, id, t[id]),
         NEW cat, cat = Over(t, old), NEW kind,
         \A id \in DOMAIN t : t[id].kind = "video" =>
            Says(NameOf(t[id]), IF kind \in {"video", "mixed"} THEN Place(t, id, names) ELSE {})
  PROVE  Filing(d, Arrange(cat, root, kind, names))
  <1>1. Ready(cat, t, root, old)
    BY ReadIsReady
  <1>2. WellFormed(cat) /\ DOMAIN cat = DOMAIN t \cup DOMAIN old
    BY <1>1 DEF Ready
  <1>3. CASE kind \notin {"video", "mixed"}
    <2>1. Filing(d, cat)
      <3> SUFFICES ASSUME NEW id \in DOMAIN cat PROVE Filed(cat[id]) /\ FromDisk(d, id, cat[id])
        BY DEF Filing
      <3>1. CASE id \in DOMAIN old
        BY <1>1, <3>1 DEF Ready, Filing
      <3>2. CASE id \in DOMAIN t
        <4>1. cat[id] = t[id]
          BY <1>1, <3>2 DEF Ready
        <4>2. ~IsSynthetic(t[id].parent)
          <5>1. t[id].parent \in DOMAIN t \/ t[id].parent = Top
            BY <1>1, <3>2, <4>1 DEF Ready, Tree
          <5>2. \A x \in DOMAIN t : OneWord(x)
            BY <1>1 DEF Ready
          <5>3. ~IsSynthetic(Top)
            BY DEF Top, IsSynthetic
          <5> QED
            BY <5>1, <5>2, <5>3, WordFacts
        <4>3. t[id].kind = "video" => NameOf(t[id]).meant = {}
          <5>1. t[id].kind = "video" => Says(NameOf(t[id]), {})
            BY <1>3, <3>2
          <5> QED
            BY <5>1 DEF Says
        <4>4. Filed(t[id])
          BY <4>2, <4>3, ElsewhereIsFiled
        <4> QED
          BY <3>2, <4>1, <4>4
      <3> QED
        BY <1>2, <3>1, <3>2
    <2>2. Arrange(cat, root, kind, names) = SortOnly(cat, root)
      BY <1>3 DEF Arrange
    <2> QED
      BY <1>2, <2>1, <2>2, SortsAreFiling
  <1>4. CASE kind \in {"video", "mixed"}
    <2>1. PICK place : place = [id \in {x \in DOMAIN cat \cap Descendants(cat, root) : cat[x].kind = "video"} |->
                                   Place(cat, id, names)]
      OBVIOUS
    <2>2. Places(place, cat, t, root)
      <3>1. ASSUME NEW id \in DOMAIN place
            PROVE  /\ id \in DOMAIN t \ {root} /\ cat[id].kind = "video" /\ KnownName(NameOf(cat[id]))
                   /\ \A p \in place[id] : GoodPlace(p)
        <4>1. id \in Descendants(cat, root) /\ cat[id].kind = "video" /\ place[id] = Place(cat, id, names)
          BY <2>1
        <4> QED
          BY <1>1, <4>1, PlaceFacts
      <3> QED
        BY <3>1 DEF Places
    <2>3. \A id \in DOMAIN place : place[id] = Place(cat, id, names)
      BY <2>1
    <2>4. ASSUME NEW id \in DOMAIN t, t[id].kind = "video"
          PROVE  id \in DOMAIN place /\ Says(NameOf(t[id]), place[id])
      <3>1. cat[id] = t[id] /\ t[root].kind = "folder" /\ t[root].parent = Top
        BY <1>1 DEF Ready, Tree
      <3>2. id \in DOMAIN t \ {root}
        BY <2>4, <3>1
      <3>3. id \in Descendants(cat, root)
        BY <1>1, <3>2, AllBelow
      <3>4. id \in DOMAIN place
        BY <1>2, <2>1, <2>4, <3>1, <3>3
      <3>5. Place(cat, id, names) = Place(t, id, names)
        BY <1>1, <3>1, <3>2, PlaceAgrees
      <3>6. Says(NameOf(t[id]), Place(t, id, names))
        BY <1>4, <2>4
      <3> QED
        BY <2>3, <3>4, <3>5, <3>6
    <2>5. PICK moved : moved = MoveUp(cat, root, place)
      OBVIOUS
    <2>6. MovedUp(cat, root, names) = moved
      BY <2>1, <2>5 DEF MovedUp
    <2>7. Filing(d, moved.nodes)
      BY <1>1, <2>2, <2>3, <2>4, <2>5, MoveUpIsFiling
    <2>8. WellFormed(moved.nodes) /\ IsFiniteSet(moved.series)
      <3>1. DOMAIN place \subseteq DOMAIN cat
        BY <2>1
      <3> QED
        BY <1>2, <2>5, <3>1, MoveUpIsWell
    <2>9. PICK n : n = IF kind = "video" THEN PruneEmpty(moved.nodes, root) ELSE moved.nodes
      OBVIOUS
    <2>10. WellFormed(n) /\ Filing(d, n)
      BY <2>7, <2>8, <2>9, PruneIsWell, PruneIsFiling
    <2>11. Arrange(cat, root, kind, names) = TopInOrder(n, root, moved)
      BY <1>4, <2>6, <2>9 DEF Arrange, ArrangeVideo, Shelve
    <2> QED
      BY <2>8, <2>10, <2>11, TopIsFiling
  <1> QED
    BY <1>3, <1>4

LEMMA AfterIsFiling ==
  ASSUME NamesSayWhatIsMeant, NEW d \in Disks
  PROVE  \A k \in 0 .. Len(There(d)) : Filing(d, After(d)[k])
  <1>1. PICK last : last = Len(There(d))
    OBVIOUS
  <1>2. last \in Nat /\ DOMAIN There(d) = 1 .. last
    BY <1>1, AfterRoots
  <1> DEFINE S == {k \in 0 .. last : ~Filing(d, After(d)[k])}
  <1>3. S = {}
    <2> SUFFICES ASSUME S # {} PROVE FALSE
      OBVIOUS
    <2>1. S \in SUBSET Nat
      BY <1>2
    <2> HIDE DEF S
    <2>2. PICK k \in S : \A i \in S : ~(i < k)
      BY <2>1, LeastNumber
    <2>3. k \in 0 .. last /\ ~Filing(d, After(d)[k])
      BY <2>2 DEF S
    <2>4. CASE k = 0
      <3>1. After(d)[0] = <<>> /\ DOMAIN <<>> = {}
        BY AfterRoots
      <3> QED
        BY <2>3, <2>4, <3>1 DEF Filing
    <2>5. CASE k # 0
      <3>1. k \in 1 .. last /\ k - 1 \in 0 .. last /\ k - 1 < k
        BY <1>2, <2>3, <2>5
      <3>2. PICK old, roots, ids : old = After(d)[k - 1] /\ roots = RootsUpTo(d, k - 1) /\ ids = IdsUpTo(d, k - 1)
        OBVIOUS
      <3>3. Filing(d, old)
        BY <2>2, <3>1, <3>2 DEF S
      <3>4. Sound(old, roots, ids)
        BY <1>1, <3>1, <3>2, AfterIsSound
      <3>5. PICK r : r = There(d)[k]
        OBVIOUS
      <3>6. PICK t, root, names : t = ScanDir(d, r) /\ root = IdOf(r) /\ names = NamesOf(d)
        OBVIOUS
      <3>7. r \in ToSet(d.roots) /\ \A j \in 1 .. (k - 1) : There(d)[j] \in ToSet(d.roots) /\ There(d)[j] # r
        <4>1. \A j \in 1 .. (k - 1) : j \in 1 .. last /\ j # k
          BY <1>2, <3>1
        <4> QED
          BY <1>1, <3>1, <3>5, <4>1, ThereFacts
      <3>8. Tree(t, root, names) /\ \A id \in DOMAIN t : FromDisk(d, id, t[id])
        BY <3>6, <3>7, TreeIsTree, TreeIsFromDisk
      <3>9. DOMAIN t \cap ids = {}
        <4>1. \A j \in 1 .. (k - 1) : DOMAIN t \cap DOMAIN ScanDir(d, There(d)[j]) = {}
          BY <3>6, <3>7, TreesApart
        <4> QED
          BY <3>2, <4>1 DEF IdsUpTo
      <3>10. PICK cat : cat = Read(d, k, old)
        OBVIOUS
      <3>11. cat = Over(t, old)
        BY <3>5, <3>6, <3>10 DEF Read
      <3>12. root = <<There(d)[k].id>>
        BY <3>5, <3>6 DEF IdOf
      <3>13. \A id \in DOMAIN t : t[id].kind = "video" =>
                Says(NameOf(t[id]), IF r.kind \in {"video", "mixed"} THEN Place(t, id, names) ELSE {})
        <4>1. r \in ToSet(There(d))
          BY <1>2, <3>1, <3>5 DEF ToSet
        <4> QED
          BY <3>6, <4>1 DEF NamesSayWhatIsMeant
      <3>14. Filing(d, Arrange(cat, root, r.kind, names))
        BY <3>3, <3>4, <3>8, <3>9, <3>11, <3>13, ArrangeIsFiling
      <3>15. After(d)[k] = Arrange(cat, root, r.kind, names)
        BY <1>1, <3>1, <3>2, <3>5, <3>6, <3>10, <3>12, AfterRoots
      <3> QED
        BY <2>3, <3>14, <3>15
    <2> QED
      BY <2>4, <2>5
  <1> QED
    BY <1>1, <1>3

LEMMA ScanIsFiling ==
  ASSUME NamesSayWhatIsMeant, NEW d \in Disks
  PROVE  Filing(d, Scan(d))
  <1>1. PICK last : last = Len(There(d))
    OBVIOUS
  <1>2. PICK cat : cat = After(d)[last]
    OBVIOUS
  <1>3. Filing(d, cat)
    <2>1. last \in 0 .. Len(There(d))
      BY <1>1, AfterRoots
    <2> QED
      BY <1>2, <2>1, AfterIsFiling
  <1>4. PICK under : under = [k \in DOMAIN There(d) |-> <<There(d)[k].id>>]
    OBVIOUS
  <1>5. PICK n : n = Node(<<"-1">>, <<"rustiio">>, "folder", under)
    OBVIOUS
  <1>6. PICK all : all = Scan(d)
    OBVIOUS
  <1>7. all = Over(cat, [id \in {Top} |-> n])
    BY <1>1, <1>2, <1>4, <1>5, <1>6 DEF Scan
  <1>8. Filed(n) /\ FromDisk(d, Top, n)
    BY <1>5, ShelfIsFiled
  <1>9. \A id \in DOMAIN all : Filed(all[id]) /\ FromDisk(d, id, all[id])
    BY <1>3, <1>7, <1>8 DEF Over, Filing
  <1> QED
    BY <1>6, <1>9 DEF Filing

\* A row of the index tells of its node what the name of its file tells.
LEMMA RowTells ==
  ASSUME NEW d \in Disks, NEW cat, Filing(d, cat), NEW r \in RowsOf(cat, d)
  PROVE  r.id \in DOMAIN cat /\ cat[r.id].file # {} /\ r.series = SeriesInfo(NameOf(cat[r.id]))
  <1>1. PICK id \in DOMAIN cat : cat[id].file # {} /\ r = Row(cat, d, id)
    BY DEF RowsOf
  <1>2. PICK e \in ToSet(d.entries) : id = IdOf(e) /\ cat[id].file = {e.name}
    BY <1>1 DEF Filing, FromDisk
  <1>3. NameOf(cat[id]) = e.name
    BY <1>2 DEF NameOf
  <1>4. PICK j \in DOMAIN d.entries : d.entries[j] = e
    BY DEF ToSet
  <1>5. PICK i : i = CHOOSE j0 \in DOMAIN d.entries : <<d.entries[j0].id>> = id
    OBVIOUS
  <1>6. i \in DOMAIN d.entries /\ <<d.entries[i].id>> = id
    BY <1>2, <1>4, <1>5 DEF IdOf
  <1>7. d.entries[i] = e
    <2>1. d.entries[i] \in ToSet(d.entries) /\ d.entries[i].id = e.id
      BY <1>2, <1>6 DEF ToSet, IdOf
    <2> QED
      BY <2>1, EntryFacts
  <1>8. r.id = id /\ r.series = SeriesInfo(d.entries[i].name)
    BY <1>1, <1>5 DEF Row
  <1> QED
    BY <1>1, <1>3, <1>7, <1>8

\* The index is of the catalog that is shown, or of the one that comes next.
Matched ==
  /\ fresh = {} => \E d \in Disks : catalog = Scan(d) /\ rows = RowsOf(Scan(d), d)
  /\ \A new \in fresh : \E d \in Disks : new = Scan(d) /\ rows = RowsOf(Scan(d), d)

LEMMA MatchedInit == CdsInit => Matched
  BY DEF CdsInit, Matched, Scanned, Indexed

LEMMA MatchedStep == Scans /\ Matched /\ [CdsNext]_cdsVars => Matched'
  <1> SUFFICES ASSUME Scans, Matched, [CdsNext]_cdsVars PROVE Matched'
    OBVIOUS
  <1>1. CASE FoldersChange
    BY <1>1 DEF FoldersChange, Matched
  <1>2. CASE ScanRuns
    BY <1>2 DEF ScanRuns, Matched, Scans, Scanned, Indexed
  <1>3. CASE Swap
    BY <1>3 DEF Swap, Matched
  <1>4. CASE ServerRestarts
    BY <1>4 DEF ServerRestarts, Matched, Scans, Scanned, Indexed
  <1>5. CASE NextPage \/ Leaves \/ UNCHANGED cdsVars
    BY <1>5 DEF NextPage, Leaves, cdsVars, Matched
  <1>6. CASE \E id, sort, count : Opens(id, sort, count)
    BY <1>6 DEF Opens, Matched
  <1> QED
    BY <1>1, <1>2, <1>3, <1>4, <1>5, <1>6 DEF CdsNext

LEMMA FilingIsFound ==
  ASSUME NamesSayWhatIsMeant, Scans, Matched
  PROVE  FoundWhereItBelongs
  <1>1. PICK d \in Disks : catalog = Scan(d)
    BY DEF Scans
  <1>2. \A id \in DOMAIN catalog : Filed(catalog[id])
    BY <1>1, ScanIsFiling DEF Filing
  <1>3. ASSUME NEW id \in DOMAIN catalog, catalog[id].kind = "video"
        PROVE  LET meant == NameOf(catalog[id]).meant
               IN  /\ meant = {} => ~IsSynthetic(catalog[id].parent)
                   /\ \A m \in meant :
                         /\ catalog[id].parent = SeasonId(m.series, m.season)
                         /\ SubSeq(catalog[id].title, 1, 4) = <<"S", ToString(m.season), "E", ToString(m.number)>>
    BY <1>2, <1>3 DEF Filed
  <1>4. ASSUME fresh = {}, NEW r \in rows, r.series # {}, IsSynthetic(catalog[r.id].parent)
        PROVE  LET s == CHOOSE s \in r.series : TRUE
               IN  catalog[r.id].parent = SeasonId(s.series, s.season)
    <2>1. PICK e \in Disks : catalog = Scan(e) /\ rows = RowsOf(Scan(e), e)
      BY <1>4 DEF Matched
    <2>2. Filing(e, catalog)
      BY <2>1, ScanIsFiling
    <2>3. r.id \in DOMAIN catalog /\ catalog[r.id].file # {} /\ r.series = SeriesInfo(NameOf(catalog[r.id]))
      BY <2>1, <2>2, RowTells
    <2>4. \A s \in r.series : catalog[r.id].parent = SeasonId(s.series, s.season)
      BY <1>2, <1>4, <2>3 DEF Filed
    <2> QED
      BY <1>4, <2>4
  <1> QED
    BY <1>3, <1>4 DEF FoundWhereItBelongs

(***************************************************************************)
(* Where names say what is meant, an episode is shelved under the series   *)
(* and the season that are meant, with its number, a film is not, and a    *)
(* search calls an episode by the series it is shelved under; whatever     *)
(* else the roots hold, whichever order they are read in, whatever is      *)
(* moved, removed and sorted, and however often the folders are scanned    *)
(* (grouping.rs, search.rs).                                               *)
(***************************************************************************)
THEOREM EpisodesAreWhereTheyBelong ==
  ASSUME NamesSayWhatIsMeant PROVE CdsSpec => []FoundWhereItBelongs
  <1>1. CdsInit => Scans /\ Matched
    BY ScansInit, MatchedInit
  <1>2. Scans /\ Matched /\ [CdsNext]_cdsVars => Scans' /\ Matched'
    BY ScansStep, MatchedStep
  <1>3. Scans /\ Matched => FoundWhereItBelongs
    BY FilingIsFound
  <1> QED
    BY <1>1, <1>2, <1>3, PTL DEF CdsSpec

=============================================================================
