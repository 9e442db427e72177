------------------------- MODULE TableBrowserProofs -------------------------
(***************************************************************************)
(* Theorems about TableBrowser, for any tables, rows, filters and bounds.  *)
(***************************************************************************)
EXTENDS TableBrowser, FiniteSetTheorems, SequenceTheorems, TLAPS

-----------------------------------------------------------------------------
(* The selection.                                                          *)

\* ChecksAgree says nothing of a selection that a deletion emptied while the
\* check marks stayed.  What is still true then is what makes it true again
\* when the table is built: the selection was checked, and whatever lost its
\* mark is selected.
SelectionInv ==
  /\ selected \subseteq checked \cup hidden
  /\ hidden \subseteq selected
  /\ cleared \/ checked \subseteq selected

LEMMA RebuildsKeeps ==
  ASSUME SelectionInv, Rebuilds
  PROVE  SelectionInv'
  BY DEF SelectionInv, Rebuilds

LEMMA UnmountsKeeps ==
  ASSUME Unmounts
  PROVE  SelectionInv'
  BY DEF SelectionInv, Unmounts

LEMMA UnchangedKeeps ==
  ASSUME SelectionInv, UNCHANGED selecting
  PROVE  SelectionInv'
  BY DEF SelectionInv, selecting

LEMMA MoveKeeps ==
  ASSUME SelectionInv, NEW v, NEW p, Move(v, p)
  PROVE  SelectionInv'
  BY RebuildsKeeps DEF Move

LEMMA CheckKeeps ==
  ASSUME SelectionInv, NEW ks, NEW value \in BOOLEAN, Check(ks, value)
  PROVE  SelectionInv'
<1>1. onRowSelection(ks, value)
  BY DEF Check
<1>2. CASE value
  BY <1>1, <1>2 DEF onRowSelection, SelectionInv
<1>3. CASE ~value
  BY <1>1, <1>3 DEF onRowSelection, SelectionInv
<1> QED
  BY <1>2, <1>3

LEMMA SelectionStep ==
  ASSUME SelectionInv, [Next]_vars
  PROVE  SelectionInv'
<1>1. CASE Browse
  <2>1. ASSUME NEW p, NEW size, setPagination(p, size) PROVE SelectionInv'
    BY <2>1, MoveKeeps DEF setPagination
  <2>2. ASSUME NEW filter, setFilter(filter) PROVE SelectionInv'
    BY <2>2, MoveKeeps DEF setFilter
  <2>3. CASE setSorting
    BY <2>3, MoveKeeps DEF setSorting
  <2>4. ASSUME NEW t, navigateToTable(t) PROVE SelectionInv'
    BY <2>4, MoveKeeps DEF navigateToTable
  <2>5. CASE rowsRefetch
    BY <2>5, UnchangedKeeps DEF rowsRefetch
  <2>6. CASE Reload
    BY <2>6 DEF Reload, SelectionInv
  <2> QED
    BY <1>1, <2>1, <2>2, <2>3, <2>4, <2>5, <2>6 DEF Browse
<1>2. CASE Select
  <2>1. CASE SelectRow
    BY <2>1, CheckKeeps DEF SelectRow
  <2>2. CASE SelectAll
    BY <2>2, CheckKeeps DEF SelectAll
  <2>3. CASE setBlobEncoding
    BY <2>3, RebuildsKeeps DEF setBlobEncoding
  <2> QED
    BY <1>2, <2>1, <2>2, <2>3 DEF Select
<1>3. CASE DeleteRows
  BY <1>3, UnchangedKeeps DEF DeleteRows
<1>4. ASSUME NEW f \in fetches, Answered(f) PROVE SelectionInv'
  BY <1>4, RebuildsKeeps, UnchangedKeeps DEF Answered
<1>5. ASSUME NEW f \in fetches, Failed(f) PROVE SelectionInv'
  BY <1>5, RebuildsKeeps, UnmountsKeeps, UnchangedKeeps DEF Failed
<1>6. ASSUME NEW d \in deletions, delete_row(d) PROVE SelectionInv'
  BY <1>6, UnchangedKeeps DEF delete_row
<1>7. ASSUME NEW d \in deletions, Deleted(d) PROVE SelectionInv'
  <2>1. CASE d.mounted /\ ~d.failed
    BY <1>7, <2>1 DEF Deleted, SelectionInv
  <2>2. CASE ~(d.mounted /\ ~d.failed)
    BY <1>7, <2>2, UnchangedKeeps DEF Deleted
  <2> QED
    BY <2>1, <2>2
<1>8. CASE UNCHANGED vars
  BY <1>8, UnchangedKeeps DEF vars
<1> QED
  BY <1>1, <1>2, <1>3, <1>4, <1>5, <1>6, <1>7, <1>8 DEF Next

\* RecordTable's selection and the table's check boxes, which nothing keeps
\* together, agree: "Delete rows" deletes what is checked or was checked when
\* the table was last built.
THEOREM SelectionIsChecked == Spec => []ChecksAgree
<1>1. Init => SelectionInv
  BY DEF Init, SelectionInv
<1>2. SelectionInv /\ [Next]_vars => SelectionInv'
  BY SelectionStep
<1>3. SelectionInv => ChecksAgree
  BY DEF SelectionInv, ChecksAgree
<1> QED
  BY <1>1, <1>2, <1>3, PTL DEF Spec

-----------------------------------------------------------------------------
(* The cursors.                                                            *)

\* A cursor that is this view's own is the end of an answer of this view.
CursorInv ==
  /\ FetchedFromAnEnd
  /\ \A f \in fetches : DOMAIN f = {"view", "page", "live", "cursor", "own"}
  /\ \A p \in DOMAIN cursors : cursors[p].own => <<view, p, cursors[p].at>> \in bottoms

LEMMA StartedContinues ==
  ASSUME NEW fs, NEW v, NEW p, NEW cs, NEW B,
         \A f \in fs : f.own /\ f.cursor # None => <<f.view, f.page - 1, f.cursor>> \in B,
         \A q \in DOMAIN cs : cs[q].own => <<v, q, cs[q].at>> \in B
  PROVE  \A f \in Started(fs, v, p, cs) :
           f.own /\ f.cursor # None => <<f.view, f.page - 1, f.cursor>> \in B
<1>1. Fetch(v, p, cs).own /\ Fetch(v, p, cs).cursor # None
        => <<Fetch(v, p, cs).view, Fetch(v, p, cs).page - 1, Fetch(v, p, cs).cursor>> \in B
  BY DEF Fetch
<1> QED
  BY <1>1 DEF Started

LEMMA StartedRecords ==
  ASSUME NEW fs, NEW v, NEW p, NEW cs,
         \A f \in fs : DOMAIN f = {"view", "page", "live", "cursor", "own"}
  PROVE  \A f \in Started(fs, v, p, cs) : DOMAIN f = {"view", "page", "live", "cursor", "own"}
  BY DEF Started, Fetch

LEMMA ShowsContinues ==
  ASSUME CursorInv, NEW v, NEW p, NEW fs \in SUBSET fetches, Shows(v, p, fs),
         UNCHANGED bottoms
  PROVE  CursorInv'
<1>1. \A q \in DOMAIN Reset(v) : Reset(v)[q].own => <<v, q, Reset(v)[q].at>> \in bottoms
  <2>1. CASE v = view
    BY <2>1 DEF CursorInv, Reset
  <2>2. CASE v # view
    BY <2>2 DEF Reset, NoCursors
  <2> QED
    BY <2>1, <2>2
<1>2. \A f \in fs : f.own /\ f.cursor # None => <<f.view, f.page - 1, f.cursor>> \in bottoms
  BY DEF CursorInv, FetchedFromAnEnd
<1>3. \A f \in Started(fs, v, p, Reset(v)) :
        f.own /\ f.cursor # None => <<f.view, f.page - 1, f.cursor>> \in bottoms
  BY <1>1, <1>2, StartedContinues
<1>4. \A f \in Started(fs, v, p, Reset(v)) : DOMAIN f = {"view", "page", "live", "cursor", "own"}
  BY StartedRecords DEF CursorInv
<1> QED
  BY <1>1, <1>3, <1>4 DEF Shows, CursorInv, FetchedFromAnEnd

LEMMA RefetchedContinues ==
  ASSUME CursorInv
  PROVE  /\ \A f \in Refetched : DOMAIN f = {"view", "page", "live", "cursor", "own"}
         /\ \A f \in Refetched :
              f.own /\ f.cursor # None => <<f.view, f.page - 1, f.cursor>> \in bottoms
<1> DEFINE current(f) == f.live /\ f.view = view /\ f.page = page
           fs == IF Records(view, page) = {} THEN fetches
                 ELSE {IF current(f) THEN [f EXCEPT !.live = FALSE] ELSE f : f \in fetches}
<1>0. ASSUME NEW f \in fetches
      PROVE  LET g == [f EXCEPT !.live = FALSE] IN
             DOMAIN g = DOMAIN f /\ g.own = f.own /\ g.cursor = f.cursor
                                 /\ g.view = f.view /\ g.page = f.page
  BY DEF CursorInv
<1>1. /\ \A f \in fs : DOMAIN f = {"view", "page", "live", "cursor", "own"}
      /\ \A f \in fs : f.own /\ f.cursor # None => <<f.view, f.page - 1, f.cursor>> \in bottoms
  BY <1>0 DEF CursorInv, FetchedFromAnEnd
<1>2. \A q \in DOMAIN cursors : cursors[q].own => <<view, q, cursors[q].at>> \in bottoms
  BY DEF CursorInv
<1>3. Refetched = Started(fs, view, page, cursors)
  BY DEF Refetched
<1> HIDE DEF fs
<1> QED
  BY <1>1, <1>2, <1>3, StartedContinues, StartedRecords

LEMMA CursorStep ==
  ASSUME CursorInv, [Next]_vars
  PROVE  CursorInv'
<1>1. ASSUME NEW v, NEW p, Move(v, p) PROVE CursorInv'
  BY <1>1, ShowsContinues DEF Move
<1>2. ASSUME Refetches, UNCHANGED bottoms PROVE CursorInv'
  BY <1>2, RefetchedContinues DEF Refetches, CursorInv, FetchedFromAnEnd
<1>3. ASSUME UNCHANGED <<paging, bottoms>> PROVE CursorInv'
  BY <1>3 DEF paging, CursorInv, FetchedFromAnEnd
<1>4. CASE Browse
  <2>1. ASSUME NEW p, NEW size, setPagination(p, size) PROVE CursorInv'
    BY <2>1, <1>1 DEF setPagination
  <2>2. ASSUME NEW filter, setFilter(filter) PROVE CursorInv'
    BY <2>2, <1>1 DEF setFilter
  <2>3. CASE setSorting
    BY <2>3, <1>1 DEF setSorting
  <2>4. ASSUME NEW t, navigateToTable(t) PROVE CursorInv'
    BY <2>4, <1>1 DEF navigateToTable
  <2>5. CASE rowsRefetch
    BY <2>5, <1>2 DEF rowsRefetch
  <2>6. CASE Reload
    <3> DEFINE f == Fetch([view EXCEPT !.sorted = FALSE], page, NoCursors)
    <3>1. cursors' = NoCursors /\ fetches' = {f}
      BY <2>6 DEF Reload
    <3>2. DOMAIN NoCursors = {}
      BY DEF NoCursors
    <3>3. f.cursor = None
      BY <3>2 DEF Fetch
    <3>4. DOMAIN f = {"view", "page", "live", "cursor", "own"}
      BY DEF Fetch
    <3> HIDE DEF f
    <3> QED
      BY <3>1, <3>2, <3>3, <3>4 DEF CursorInv, FetchedFromAnEnd
  <2> QED
    BY <1>4, <2>1, <2>2, <2>3, <2>4, <2>5, <2>6 DEF Browse
<1>5. CASE Select
  BY <1>5, <1>3 DEF Select, SelectRow, SelectAll, setBlobEncoding, Check
<1>6. CASE DeleteRows
  BY <1>6, <1>3 DEF DeleteRows
<1>7. ASSUME NEW f \in fetches, Answered(f) PROVE CursorInv'
  <2> DEFINE end == NextCursor(f, fetch_rows(f))
  <2>1. UNCHANGED view /\ fetches' \subseteq fetches /\ bottoms \subseteq bottoms'
    BY <1>7 DEF Answered
  <2>2. FetchedFromAnEnd'
    BY <2>1 DEF CursorInv, FetchedFromAnEnd
  <2>3. CASE view.sorted \/ end = None
    BY <1>7, <2>1, <2>2, <2>3 DEF Answered, CursorInv
  <2>4. CASE ~(view.sorted \/ end = None)
    <3> HIDE DEF end
    <3>1. <<f.view, f.page, end>> \in bottoms'
      BY <1>7, <2>4 DEF Answered, end
    <3>2. cursors' = [p \in DOMAIN cursors \cup {f.page} |->
                        IF p = f.page THEN [at |-> end, own |-> f.own /\ f.view = view]
                        ELSE cursors[p]]
      BY <1>7, <2>4 DEF Answered, end
    <3>3. ASSUME NEW p \in DOMAIN cursors', cursors'[p].own
          PROVE  <<view', p, cursors'[p].at>> \in bottoms'
      <4>1. CASE p = f.page
        BY <2>1, <3>1, <3>2, <3>3, <4>1
      <4>2. CASE p # f.page
        BY <2>1, <3>2, <3>3, <4>2 DEF CursorInv
      <4> QED
        BY <4>1, <4>2
    <3> QED
      BY <2>1, <2>2, <3>3 DEF CursorInv
  <2> QED
    BY <2>3, <2>4
<1>8. ASSUME NEW f \in fetches, Failed(f) PROVE CursorInv'
  <2> DEFINE v == View(view.table, NoFilter, DefaultPageSize, view.sorted)
  <2>1. CASE Shows(v, 0, fetches \ {f})
    BY <1>8, <2>1, ShowsContinues DEF Failed
  <2>2. CASE ~Shows(v, 0, fetches \ {f})
    BY <1>8, <2>2 DEF Failed, CursorInv, FetchedFromAnEnd
  <2> QED
    BY <2>1, <2>2
<1>9. ASSUME NEW d \in deletions, delete_row(d) PROVE CursorInv'
  BY <1>9, <1>3 DEF delete_row
<1>10. ASSUME NEW d \in deletions, Deleted(d) PROVE CursorInv'
  BY <1>10, <1>2, <1>3 DEF Deleted
<1>11. CASE UNCHANGED vars
  BY <1>11, <1>3 DEF vars
<1> QED
  BY <1>4, <1>5, <1>6, <1>7, <1>8, <1>9, <1>10, <1>11 DEF Next

LEMMA CursorInit ==
  ASSUME Init
  PROVE  CursorInv
<1> DEFINE f == Fetch(view, 0, NoCursors)
<1>1. cursors = NoCursors /\ fetches = {f}
  BY DEF Init
<1>2. DOMAIN NoCursors = {}
  BY DEF NoCursors
<1>3. f.cursor = None
  BY <1>2 DEF Fetch
<1>4. DOMAIN f = {"view", "page", "live", "cursor", "own"}
  BY DEF Fetch
<1> HIDE DEF f
<1> QED
  BY <1>1, <1>2, <1>3, <1>4 DEF CursorInv, FetchedFromAnEnd

\* The pages of a view are fetched from where its own pages ended, however
\* answers, failures and refetches overlap, unless an answer came after its
\* view had been left.
THEOREM PagesStartAtEnds == Spec => []FetchedFromAnEnd
<1>1. Init => CursorInv
  BY CursorInit
<1>2. CursorInv /\ [Next]_vars => CursorInv'
  BY CursorStep
<1>3. CursorInv => FetchedFromAnEnd
  BY DEF CursorInv
<1> QED
  BY <1>1, <1>2, <1>3, PTL DEF Spec

-----------------------------------------------------------------------------
(* Lists in order.                                                         *)

\* Rows have one order or the other.
LEMMA BeforeOrders ==
  ASSUME NEW sorted \in BOOLEAN
  PROVE  /\ \A j, k \in Nat : Before(j, k, sorted) => j # k /\ ~Before(k, j, sorted)
         /\ \A j, k \in Nat : j # k => Before(j, k, sorted) \/ Before(k, j, sorted)
         /\ \A i, j, k \in Nat :
              Before(i, j, sorted) /\ Before(j, k, sorted) => Before(i, k, sorted)
<1>1. CASE sorted
  BY <1>1 DEF Before
<1>2. CASE ~sorted
  BY <1>2 DEF Before
<1> QED
  BY <1>1, <1>2

\* A list of the elements of S, in order.
Lists(s, S, sorted) ==
  /\ \E n \in Nat : s \in [1 .. n -> S]
  /\ \A i, j \in DOMAIN s : i < j => Before(s[i], s[j], sorted)
  /\ \A k \in S : \E i \in DOMAIN s : s[i] = k

\* Those that come no later than k: their number is k's place.
UpTo(k, S, sorted) == {j \in S : j = k \/ Before(j, k, sorted)}
Place(k, S, sorted) == Cardinality(UpTo(k, S, sorted))

LEMMA PlaceGrows ==
  ASSUME NEW S \in SUBSET Nat, IsFiniteSet(S), NEW sorted \in BOOLEAN,
         NEW j \in S, NEW k \in S, Before(j, k, sorted)
  PROVE  Place(j, S, sorted) < Place(k, S, sorted)
<1> DEFINE J == UpTo(j, S, sorted)
           K == UpTo(k, S, sorted)
<1>1. J \subseteq K /\ k \in K /\ k \notin J
  BY BeforeOrders DEF UpTo
<1>2. IsFiniteSet(K)
  BY FS_Subset DEF UpTo
<1>3. Cardinality(K) \in Nat
  BY <1>2, FS_CardinalityType
<1> HIDE DEF J, K
<1>4. IsFiniteSet(J) /\ Cardinality(J) <= Cardinality(K) /\ Cardinality(J) # Cardinality(K)
  BY <1>1, <1>2, FS_Subset
<1>5. Cardinality(J) \in Nat
  BY <1>4, FS_CardinalityType
<1> QED
  BY <1>3, <1>4, <1>5 DEF Place, J, K

LEMMA PlaceIn ==
  ASSUME NEW S \in SUBSET Nat, IsFiniteSet(S), NEW sorted \in BOOLEAN, NEW k \in S
  PROVE  Place(k, S, sorted) \in 1 .. Cardinality(S)
<1> DEFINE K == UpTo(k, S, sorted)
<1>1. K \subseteq S /\ k \in K
  BY DEF UpTo
<1> HIDE DEF K
<1>2. IsFiniteSet(K) /\ Cardinality(K) <= Cardinality(S)
  BY <1>1, FS_Subset
<1>3. Cardinality(K) \in Nat /\ Cardinality(S) \in Nat
  BY <1>2, FS_CardinalityType
<1>4. Cardinality(K) # 0
  BY <1>1, <1>2, FS_EmptySet
<1> QED
  BY <1>2, <1>3, <1>4 DEF Place, K

\* Ordered is such a list.
LEMMA OrderedLists ==
  ASSUME NEW S \in SUBSET Nat, IsFiniteSet(S), NEW sorted \in BOOLEAN
  PROVE  /\ Ordered(S, sorted) \in [1 .. Cardinality(S) -> S]
         /\ Lists(Ordered(S, sorted), S, sorted)
<1> DEFINE n == Cardinality(S)
           place == [k \in S |-> Place(k, S, sorted)]
<1>1. n \in Nat
  BY FS_CardinalityType
<1>2. place \in [S -> 1 .. n]
  BY PlaceIn
<1>3. ASSUME NEW j \in S, NEW k \in S, j # k PROVE place[j] # place[k]
  <2>1. Before(j, k, sorted) \/ Before(k, j, sorted)
    BY <1>3, BeforeOrders
  <2>2. Place(j, S, sorted) \in Nat /\ Place(k, S, sorted) \in Nat
    BY <1>1, PlaceIn
  <2> QED
    BY <2>1, <2>2, PlaceGrows
<1>4. place \in Injection(S, 1 .. n)
  BY <1>2, <1>3 DEF Injection, IsInjective
<1>5. IsFiniteSet(1 .. n) /\ Cardinality(1 .. n) = n
  BY <1>1, FS_Interval
<1>6. place \in Surjection(S, 1 .. n)
  BY <1>4, <1>5, FS_Injection
<1>7. \A i \in 1 .. n : \E k \in S : place[k] = i
  BY <1>6 DEF Surjection
<1> DEFINE t == [i \in 1 .. n |-> CHOOSE k \in S : place[k] = i]
<1> HIDE DEF n, place
<1>8. t \in [1 .. n -> S] /\ \A i \in 1 .. n : place[t[i]] = i
  BY <1>7
<1>9. ASSUME NEW i \in 1 .. n, NEW j \in 1 .. n, i < j PROVE Before(t[i], t[j], sorted)
  <2>1. t[i] \in S /\ t[j] \in S /\ place[t[i]] = i /\ place[t[j]] = j
    BY <1>8
  <2>2. t[i] # t[j]
    BY <1>9, <2>1
  <2>3. Before(t[i], t[j], sorted) \/ Before(t[j], t[i], sorted)
    BY <2>1, <2>2, BeforeOrders, ZenonT(60)
  <2>4. ASSUME Before(t[j], t[i], sorted) PROVE FALSE
    <3>1. Place(t[j], S, sorted) < Place(t[i], S, sorted)
      BY <2>1, <2>4, PlaceGrows
    <3> QED
      BY <1>1, <1>9, <2>1, <3>1 DEF place
  <2> QED
    BY <2>3, <2>4
<1> DEFINE s == Ordered(S, sorted)
<1>10. s \in [1 .. n -> S] /\ \A i, j \in 1 .. n : i < j => Before(s[i], s[j], sorted)
  <2> DEFINE Good(u) == \A i, j \in DOMAIN u : i < j => Before(u[i], u[j], sorted)
  <2>1. s = CHOOSE u \in [1 .. n -> S] : Good(u)
    BY DEF Ordered, n
  <2>2. Good(t) /\ t \in [1 .. n -> S]
    BY <1>8, <1>9
  <2> HIDE DEF Good, s, t
  <2>3. s \in [1 .. n -> S] /\ Good(s)
    BY <2>1, <2>2
  <2> QED
    BY <2>3 DEF Good
<1> HIDE DEF s, t
<1>11. s \in Injection(1 .. n, S)
  <2>1. ASSUME NEW i \in 1 .. n, NEW j \in 1 .. n, i < j PROVE s[i] # s[j]
    <3>1. Before(s[i], s[j], sorted) /\ s[i] \in Nat /\ s[j] \in Nat
      BY <1>10, <2>1
    <3> QED
      BY <3>1, BeforeOrders
  <2> QED
    BY <1>1, <1>10, <2>1 DEF Injection, IsInjective
<1>12. s \in Surjection(1 .. n, S)
  BY <1>5, <1>11, FS_Injection DEF n
<1>13. \A k \in S : \E i \in DOMAIN s : s[i] = k
  BY <1>10, <1>12 DEF Surjection
<1>14. Lists(s, S, sorted)
  BY <1>1, <1>10, <1>13 DEF Lists
<1> QED
  BY <1>10, <1>14 DEF s, n

\* Every element of such a list is at its place.
LEMMA ListPlaces ==
  ASSUME NEW S \in SUBSET Nat, NEW sorted \in BOOLEAN,
         NEW n \in Nat, NEW t \in [1 .. n -> S],
         \A i, j \in 1 .. n : i < j => Before(t[i], t[j], sorted),
         \A k \in S : \E i \in 1 .. n : t[i] = k,
         NEW i \in 1 .. n
  PROVE  Place(t[i], S, sorted) = i
<1> DEFINE K == UpTo(t[i], S, sorted)
           f == [j \in 1 .. i |-> t[j]]
<1>0. \A j \in 1 .. i : j \in 1 .. n
  OBVIOUS
<1>1. ASSUME NEW j \in 1 .. i PROVE t[j] \in K
  <2>1. t[j] \in S /\ (j = i \/ j < i)
    BY <1>0
  <2> QED
    BY <1>0, <2>1 DEF UpTo
<1>2. ASSUME NEW k \in K PROVE \E j \in 1 .. i : t[j] = k
  <2>1. k \in S /\ (k = t[i] \/ Before(k, t[i], sorted))
    BY DEF UpTo
  <2>2. PICK j \in 1 .. n : t[j] = k
    BY <2>1
  <2>3. ~(i < j)
    <3>1. SUFFICES ASSUME i < j PROVE FALSE
      OBVIOUS
    <3>2. Before(t[i], k, sorted) /\ t[i] \in Nat /\ k \in Nat
      BY <2>1, <2>2, <3>1
    <3> QED
      BY <2>1, <3>2, BeforeOrders
  <2> QED
    BY <2>2, <2>3
<1>3. ASSUME NEW j \in 1 .. i, NEW k \in 1 .. i, t[j] = t[k] PROVE j = k
  <2>1. ASSUME NEW a \in 1 .. n, NEW b \in 1 .. n, a < b PROVE t[a] # t[b]
    <3>1. Before(t[a], t[b], sorted) /\ t[a] \in Nat /\ t[b] \in Nat
      BY <2>1
    <3> QED
      BY <3>1, BeforeOrders
  <2> QED
    BY <1>0, <1>3, <2>1
<1> HIDE DEF K
<1>4. f \in Bijection(1 .. i, K)
  BY <1>1, <1>2, <1>3 DEF Bijection, Injection, Surjection, IsInjective
<1>5. ExistsBijection(1 .. i, K)
  BY <1>4 DEF ExistsBijection
<1>6. IsFiniteSet(1 .. i) /\ Cardinality(1 .. i) = i
  BY FS_Interval
<1>7. Cardinality(K) = i
  BY <1>5, <1>6, FS_Bijection
<1> QED
  BY <1>7 DEF Place, K

\* There is only one list in order.
LEMMA OnlyOrdered ==
  ASSUME NEW S \in SUBSET Nat, IsFiniteSet(S), NEW sorted \in BOOLEAN,
         NEW n \in Nat, NEW t \in [1 .. n -> S],
         \A i, j \in 1 .. n : i < j => Before(t[i], t[j], sorted),
         \A k \in S : \E i \in 1 .. n : t[i] = k
  PROVE  t = Ordered(S, sorted) /\ n = Cardinality(S)
<1> DEFINE s == Ordered(S, sorted)
           m == Cardinality(S)
<1>1. m \in Nat
  BY FS_CardinalityType
<1>2. s \in [1 .. m -> S] /\ Lists(s, S, sorted)
  BY OrderedLists
<1> HIDE DEF s, m
<1>3. /\ \A i, j \in 1 .. m : i < j => Before(s[i], s[j], sorted)
      /\ \A k \in S : \E i \in 1 .. m : s[i] = k
  BY <1>2 DEF Lists
<1>4. \A i \in 1 .. n : Place(t[i], S, sorted) = i
  BY ListPlaces, ZenonT(60)
<1>5. ASSUME NEW i \in 1 .. m PROVE Place(s[i], S, sorted) = i
  <2>1. m \in Nat /\ s \in [1 .. m -> S]
    BY <1>1, <1>2
  <2> QED
    BY <1>3, <2>1, ListPlaces, SMTT(30)
<1>6. ASSUME NEW i \in 1 .. n PROVE i \in 1 .. m /\ t[i] = s[i]
  <2>1. PICK j \in 1 .. m : s[j] = t[i]
    BY <1>3
  <2> QED
    BY <1>4, <1>5, <2>1
<1>7. ASSUME NEW i \in 1 .. m PROVE i \in 1 .. n
  <2>1. PICK j \in 1 .. n : t[j] = s[i]
    BY <1>2
  <2> QED
    BY <1>4, <1>5, <2>1
<1>8. n = m
  <2>1. CASE n = 0
    <3>1. 1 \notin 1 .. m
      BY <1>1, <1>7, <2>1
    <3> QED
      BY <1>1, <2>1, <3>1
  <2>2. CASE n # 0
    <3>1. n \in 1 .. m
      BY <1>6, <2>2
    <3>2. m \in 1 .. n
      BY <1>1, <1>7, <3>1
    <3> QED
      BY <1>1, <3>1, <3>2
  <2> QED
    BY <2>1, <2>2
<1>9. t = s
  BY <1>2, <1>6, <1>8
<1> QED
  BY <1>8, <1>9 DEF s, m

\* How much is left of a list of n after an offset, and fits.
Fits(n, offset, size) ==
  IF offset >= n THEN 0 ELSE IF offset + size > n THEN n - offset ELSE size

\* What a page takes from a list.
LEMMA LimitIs ==
  ASSUME NEW T, NEW n \in Nat, NEW s \in [1 .. n -> T], NEW offset \in Nat, NEW size \in Nat
  PROVE  /\ Limit(s, offset, size) \in [1 .. Fits(n, offset, size) -> T]
         /\ \A i \in 1 .. Fits(n, offset, size) : Limit(s, offset, size)[i] = s[offset + i]
         /\ Limit(s, offset, size) \in Seq(T)
         /\ Len(Limit(s, offset, size)) = Fits(n, offset, size)
         /\ Fits(n, offset, size) \in Nat /\ Fits(n, offset, size) <= size
<1> DEFINE m == Fits(n, offset, size)
           e == IF offset + size > n THEN n ELSE offset + size
           a == [i \in 1 .. m |-> s[offset + i]]
<1>1. m \in Nat /\ m <= size /\ \A i \in 1 .. m : offset + i \in 1 .. n
  BY DEF Fits
<1>2. s \in Seq(T) /\ Len(s) = n
  OBVIOUS
<1>3. Limit(s, offset, size) = SubSeq(s, offset + 1, e)
  BY <1>2 DEF Limit
<1>4. 1 .. (1 + e - (offset + 1)) = 1 .. m
  BY DEF Fits
<1>5. SubSeq(s, offset + 1, e) = [i \in 1 .. (1 + e - (offset + 1)) |-> s[i + (offset + 1) - 1]]
  BY <1>2
<1>6. SubSeq(s, offset + 1, e) = a
  BY <1>1, <1>4, <1>5
<1>7. a \in [1 .. m -> T]
  BY <1>1
<1>8. a \in Seq(T) /\ Len(a) = m
  BY <1>1, <1>7
<1> QED
  BY <1>1, <1>3, <1>6, <1>7, <1>8

\* The rows below the end of a page of the newest first, from the first of
\* them: the page after it.
LEMMA NextPage ==
  ASSUME NEW S \in SUBSET Nat, IsFiniteSet(S), NEW size \in Nat, NEW offset \in Nat,
         Limit(Ordered(S, FALSE), offset, size) # <<>>
  PROVE  LET end == Last(Limit(Ordered(S, FALSE), offset, size))
         IN Limit(Ordered({k \in S : k < end}, FALSE), 0, size)
              = Limit(Ordered(S, FALSE), offset + size, size)
<1> DEFINE n == Cardinality(S)
           s == Ordered(S, FALSE)
           a == Limit(s, offset, size)
           m == Fits(n, offset, size)
           e == offset + m
           end == Last(a)
           R == {k \in S : k < end}
<1>1. n \in Nat /\ s \in [1 .. n -> S]
  BY FS_CardinalityType, OrderedLists
<1>2. /\ \A i, j \in 1 .. n : i < j => s[i] > s[j]
      /\ \A k \in S : \E i \in 1 .. n : s[i] = k
  <2>1. Lists(s, S, FALSE)
    BY OrderedLists
  <2> HIDE DEF s, n
  <2> QED
    BY <1>1, <2>1 DEF Lists, Before
<1>3. /\ a \in [1 .. m -> S] /\ a \in Seq(S) /\ \A i \in 1 .. m : a[i] = s[offset + i]
      /\ Len(a) = m /\ m \in Nat /\ m <= size
  <2> HIDE DEF s, n, m, a
  <2>1. offset \in Nat /\ size \in Nat /\ n \in Nat /\ s \in [1 .. n -> S]
    BY <1>1
  <2>2. /\ Limit(s, offset, size) \in [1 .. Fits(n, offset, size) -> S]
        /\ \A i \in 1 .. Fits(n, offset, size) : Limit(s, offset, size)[i] = s[offset + i]
        /\ Limit(s, offset, size) \in Seq(S)
        /\ Len(Limit(s, offset, size)) = Fits(n, offset, size)
        /\ Fits(n, offset, size) \in Nat /\ Fits(n, offset, size) <= size
    BY <2>1, LimitIs, Zenon
  <2> QED
    BY <2>2 DEF a, m
<1>4. m # 0
  <2>1. a # <<>>
    OBVIOUS
  <2> HIDE DEF a, m
  <2> QED
    BY <1>3, <2>1
<1>5. e \in 1 .. n /\ end = s[e]
  <2>1. offset < n /\ e <= n
    BY <1>1, <1>4 DEF Fits
  <2>2. end = a[m]
    BY <1>3 DEF Last
  <2> HIDE DEF a, m, s, n, end
  <2> QED
    BY <1>1, <1>3, <1>4, <2>1, <2>2
<1> HIDE DEF n, s, a, end
<1> DEFINE t == [i \in 1 .. (n - e) |-> s[e + i]]
<1>6. e \in Nat /\ n - e \in Nat /\ \A i \in 1 .. (n - e) : e + i \in 1 .. n
  BY <1>1, <1>5
<1> HIDE DEF m, e
<1>7. t \in [1 .. (n - e) -> R]
  <2>1. ASSUME NEW i \in 1 .. (n - e) PROVE s[e + i] \in R
    <3>1. e + i \in 1 .. n /\ e < e + i /\ e \in 1 .. n
      BY <1>5, <1>6
    <3>2. s[e] > s[e + i] /\ s[e + i] \in S /\ s[e] \in Nat
      BY <1>1, <1>2, <3>1
    <3> QED
      BY <1>5, <3>2
  <2> QED
    BY <2>1
<1>8. \A i, j \in 1 .. (n - e) : i < j => Before(t[i], t[j], FALSE)
  BY <1>2, <1>5, <1>6 DEF Before
<1>9. ASSUME NEW k \in R PROVE \E i \in 1 .. (n - e) : t[i] = k
  <2>1. PICK j \in 1 .. n : s[j] = k
    BY <1>2
  <2>2. k < s[e] /\ k \in Nat /\ s[e] \in Nat
    BY <1>1, <1>5
  <2>3. j > e
    <3>1. CASE j = e
      BY <2>1, <2>2, <3>1
    <3>2. CASE j < e
      <4>1. s[j] > s[e]
        BY <1>2, <1>5, <3>2
      <4> QED
        BY <2>1, <2>2, <4>1
    <3> QED
      BY <1>5, <3>1, <3>2
  <2>4. j - e \in 1 .. (n - e) /\ e + (j - e) = j
    BY <1>1, <1>5, <1>6, <2>3
  <2> QED
    BY <2>1, <2>4
<1> HIDE DEF t, R
<1>10. R \in SUBSET Nat /\ IsFiniteSet(R)
  BY FS_Subset DEF R
<1>11. t = Ordered(R, FALSE)
  BY <1>6, <1>7, <1>8, <1>9, <1>10, OnlyOrdered
<1>12. /\ Limit(t, 0, size) \in [1 .. Fits(n - e, 0, size) -> R]
       /\ \A i \in 1 .. Fits(n - e, 0, size) : Limit(t, 0, size)[i] = t[0 + i]
  <2>1. PICK l \in Nat : l = n - e
    BY <1>6
  <2>2. t \in [1 .. l -> R] /\ 0 \in Nat
    BY <1>7, <2>1
  <2>3. /\ Limit(t, 0, size) \in [1 .. Fits(l, 0, size) -> R]
        /\ \A i \in 1 .. Fits(l, 0, size) : Limit(t, 0, size)[i] = t[0 + i]
        /\ Limit(t, 0, size) \in Seq(R)
        /\ Len(Limit(t, 0, size)) = Fits(l, 0, size)
        /\ Fits(l, 0, size) \in Nat /\ Fits(l, 0, size) <= size
    BY <2>2, LimitIs, Zenon
  <2> QED
    BY <2>1, <2>3
<1>13. /\ Limit(s, offset + size, size) \in [1 .. Fits(n, offset + size, size) -> S]
       /\ \A i \in 1 .. Fits(n, offset + size, size) :
            Limit(s, offset + size, size)[i] = s[(offset + size) + i]
  <2>1. PICK o \in Nat : o = offset + size
    OBVIOUS
  <2>2. /\ Limit(s, o, size) \in [1 .. Fits(n, o, size) -> S]
        /\ \A i \in 1 .. Fits(n, o, size) : Limit(s, o, size)[i] = s[o + i]
        /\ Limit(s, o, size) \in Seq(S)
        /\ Len(Limit(s, o, size)) = Fits(n, o, size)
        /\ Fits(n, o, size) \in Nat /\ Fits(n, o, size) <= size
    BY <1>1, LimitIs, Zenon
  <2> QED
    BY <2>1, <2>2
<1>14. /\ Fits(n - e, 0, size) = Fits(n, offset + size, size)
       /\ Fits(n, offset + size, size) # 0 => e = offset + size
       /\ Fits(n, offset + size, size) \in Nat
       /\ Fits(n - e, 0, size) <= n - e
  BY <1>1, <1>6 DEF e, m, Fits
<1>15. ASSUME NEW i \in 1 .. Fits(n, offset + size, size)
       PROVE  t[0 + i] = s[(offset + size) + i]
  <2>1. Fits(n, offset + size, size) # 0 /\ i \in 1 .. (n - e) /\ 0 + i = i
    BY <1>6, <1>14
  <2> QED
    BY <1>14, <2>1 DEF t
<1>16. Limit(t, 0, size) = Limit(s, offset + size, size)
  BY <1>12, <1>13, <1>14, <1>15
<1> QED
  BY <1>11, <1>16 DEF s, a, end, R

-----------------------------------------------------------------------------
(* The state is well formed.                                               *)

Fetches == [view : Views, page : Pages, live : BOOLEAN, cursor : Keys \cup {None}, own : BOOLEAN]
Deletions == [id : Nat, table : Tables, left : SUBSET Keys,
              failed : BOOLEAN, mounted : BOOLEAN, page : BOOLEAN]

FetchesTyped(fs) == \A f \in fs : f \in Fetches /\ (f.view.sorted => f.cursor = None)
CursorsTyped(cs, v) ==
  /\ DOMAIN cs \subseteq Pages
  /\ \A p \in DOMAIN cs : cs[p] \in [at : Keys, own : BOOLEAN]
  /\ v.sorted => cs = NoCursors
RecordsTyped(rs) ==
  /\ \A r \in rs : /\ r.view \in Views /\ r.page \in Pages
                   /\ r.rows \in Seq(Keys) /\ Len(r.rows) <= r.view.size
  /\ \A r, s \in rs : r.view = s.view /\ r.page = s.page => r = s
PageTyped ==
  /\ view \in Views /\ page \in Pages /\ pane \in {"rows", "error"}
  /\ CursorsTyped(cursors, view)
  /\ FetchesTyped(fetches)
  /\ RecordsTyped(records)
SelectionTyped == selected \subseteq Keys /\ checked \subseteq Keys /\ hidden \subseteq Keys
DeletionsTyped == deletions \subseteq Deletions /\ sent \in Nat

TypeInv ==
  /\ rows \in [Tables -> SUBSET Keys]
  /\ PageTyped
  /\ SelectionTyped
  /\ DeletionsTyped

LEMMA ViewTyped ==
  ASSUME NEW t \in Tables, NEW filter \in Filters, NEW size \in PageSizes, NEW sorted \in BOOLEAN
  PROVE  View(t, filter, size, sorted) \in Views
  BY DEF View, Views

LEMMA ViewFields ==
  ASSUME NEW v \in Views
  PROVE  /\ v.table \in Tables /\ v.filter \in Filters
         /\ v.size \in Nat /\ v.size \in PageSizes /\ v.sorted \in BOOLEAN
<1>1. v.sorted \in BOOLEAN
  BY Zenon DEF Views
<1>2. v.table \in Tables /\ v.filter \in Filters /\ v.size \in PageSizes
  BY DEF Views
<1> QED
  BY <1>1, <1>2, TableBrowserAssumption

LEMMA PageIsNat == Pages \subseteq Nat /\ 0 \in Pages
  BY TableBrowserAssumption DEF Pages

LEMMA FirstViews ==
  ASSUME NEW t \in Tables, NEW sorted \in BOOLEAN
  PROVE  View(t, NoFilter, DefaultPageSize, sorted) \in Views
<1>1. NoFilter \in Filters /\ DefaultPageSize \in PageSizes
  BY TableBrowserAssumption
<1> QED
  BY <1>1, ViewTyped

LEMMA NoCursorsTyped ==
  ASSUME NEW v
  PROVE  CursorsTyped(NoCursors, v)
  BY DEF CursorsTyped, NoCursors

LEMMA ResetTyped ==
  ASSUME CursorsTyped(cursors, view), NEW v
  PROVE  CursorsTyped(Reset(v), v)
  BY NoCursorsTyped DEF Reset

LEMMA FetchTyped ==
  ASSUME NEW v \in Views, NEW p \in Pages, NEW cs, CursorsTyped(cs, v)
  PROVE  FetchesTyped({Fetch(v, p, cs)})
<1> DEFINE f == Fetch(v, p, cs)
<1>1. f.cursor \in Keys \cup {None} /\ f.own \in BOOLEAN
  BY DEF Fetch, CursorsTyped
<1>2. f.view.sorted => f.cursor = None
  BY DEF Fetch, CursorsTyped, NoCursors
<1>4. f \in Fetches
  <2>1. PICK c \in Keys \cup {None} : c = f.cursor
    BY <1>1
  <2>2. PICK o \in BOOLEAN : o = f.own
    BY <1>1
  <2>3. f = [view |-> v, page |-> p, live |-> TRUE, cursor |-> c, own |-> o]
    BY <2>1, <2>2 DEF Fetch
  <2> HIDE DEF f
  <2> QED
    BY <2>3, Zenon DEF Fetches
<1> HIDE DEF f
<1> QED
  BY <1>2, <1>4 DEF FetchesTyped, f

LEMMA StartedTyped ==
  ASSUME NEW fs, FetchesTyped(fs), NEW v \in Views, NEW p \in Pages, NEW cs, CursorsTyped(cs, v)
  PROVE  FetchesTyped(Started(fs, v, p, cs))
<1>1. FetchesTyped({Fetch(v, p, cs)})
  BY FetchTyped
<1> QED
  BY <1>1 DEF Started, FetchesTyped

LEMMA RefetchedTyped ==
  ASSUME PageTyped
  PROVE  FetchesTyped(Refetched)
<1> DEFINE current(f) == f.live /\ f.view = view /\ f.page = page
           fs == IF Records(view, page) = {} THEN fetches
                 ELSE {IF current(f) THEN [f EXCEPT !.live = FALSE] ELSE f : f \in fetches}
<1>1. ASSUME NEW f \in fetches
      PROVE  LET g == [f EXCEPT !.live = FALSE] IN g \in Fetches /\ (g.view.sorted => g.cursor = None)
  BY DEF PageTyped, FetchesTyped, Fetches
<1>2. FetchesTyped(fs)
  BY <1>1 DEF PageTyped, FetchesTyped
<1>3. Refetched = Started(fs, view, page, cursors)
  BY DEF Refetched
<1> HIDE DEF fs
<1> QED
  BY <1>2, <1>3, StartedTyped DEF PageTyped

LEMMA ShowsTyped ==
  ASSUME PageTyped, NEW v \in Views, NEW p \in Pages, NEW fs \in SUBSET fetches, Shows(v, p, fs)
  PROVE  PageTyped'
<1>1. CursorsTyped(Reset(v), v)
  BY ResetTyped DEF PageTyped
<1>2. FetchesTyped(Started(fs, v, p, Reset(v)))
  BY <1>1, StartedTyped DEF PageTyped, FetchesTyped
<1> QED
  BY <1>1, <1>2 DEF Shows, PageTyped

LEMMA RefetchesTyped ==
  ASSUME PageTyped, Refetches
  PROVE  PageTyped'
  BY RefetchedTyped DEF Refetches, PageTyped

LEMMA RebuildsTyped ==
  ASSUME SelectionTyped, DeletionsTyped, Rebuilds
  PROVE  SelectionTyped' /\ deletions' \subseteq Deletions
  BY DEF SelectionTyped, DeletionsTyped, Rebuilds

LEMMA LeftTyped ==
  ASSUME DeletionsTyped, NEW d \in deletions
  PROVE  /\ [d EXCEPT !.mounted = FALSE] \in Deletions
         /\ [d EXCEPT !.mounted = FALSE, !.page = FALSE] \in Deletions
  BY DEF DeletionsTyped, Deletions

LEMMA UnmountsTyped ==
  ASSUME DeletionsTyped, Unmounts
  PROVE  SelectionTyped' /\ deletions' \subseteq Deletions
  BY LeftTyped DEF SelectionTyped, Unmounts

LEMMA MoveTyped ==
  ASSUME TypeInv, NEW v \in Views, NEW p \in Pages, Move(v, p)
  PROVE  TypeInv'
<1>1. PageTyped'
  BY ShowsTyped DEF TypeInv, Move
<1>2. SelectionTyped' /\ deletions' \subseteq Deletions
  BY RebuildsTyped DEF TypeInv, Move
<1> QED
  BY <1>1, <1>2 DEF TypeInv, Move, DeletionsTyped

LEMMA ShownTyped ==
  ASSUME PageTyped
  PROVE  Shown \subseteq Keys
<1>1. ASSUME NEW r \in records PROVE ToSet(r.rows) \subseteq Keys
  BY DEF PageTyped, RecordsTyped, ToSet
<1> QED
  BY <1>1 DEF Shown, Records

\* What the handler answers: keys, no more of them than the page size.
LEMMA AnswerTyped ==
  ASSUME rows \in [Tables -> SUBSET Keys], NEW f \in Fetches
  PROVE  fetch_rows(f) \in Seq(Keys) /\ Len(fetch_rows(f)) <= f.view.size
<1> DEFINE matching == rows[f.view.table] \cap Matches[f.view.filter]
<1>1. /\ f.view.size \in Nat /\ f.view.sorted \in BOOLEAN /\ f.page \in Nat
      /\ f.view.table \in Tables
  BY ViewFields, PageIsNat DEF Fetches
<1>2. Keys \subseteq Nat /\ IsFiniteSet(Keys)
  BY TableBrowserAssumption
<1>3. matching \subseteq Keys
  BY <1>1
<1> HIDE DEF matching
<1>4. ASSUME NEW S \in SUBSET Keys, NEW offset \in Nat
      PROVE  LET a == Limit(Ordered(S, f.view.sorted), offset, f.view.size)
             IN a \in Seq(Keys) /\ Len(a) <= f.view.size
  <2>1. IsFiniteSet(S) /\ S \in SUBSET Nat
    BY <1>2, FS_Subset
  <2>2. PICK n \in Nat : n = Cardinality(S)
    BY <2>1, FS_CardinalityType
  <2>3. PICK s \in [1 .. n -> S] : s = Ordered(S, f.view.sorted)
    BY <1>1, <2>1, <2>2, OrderedLists
  <2>4. PICK size \in Nat : size = f.view.size
    BY <1>1
  <2>5. s \in [1 .. n -> Keys]
    BY <2>3
  <2>6. /\ Limit(s, offset, size) \in [1 .. Fits(n, offset, size) -> Keys]
        /\ \A i \in 1 .. Fits(n, offset, size) : Limit(s, offset, size)[i] = s[offset + i]
        /\ Limit(s, offset, size) \in Seq(Keys)
        /\ Len(Limit(s, offset, size)) = Fits(n, offset, size)
        /\ Fits(n, offset, size) \in Nat /\ Fits(n, offset, size) <= size
    BY <2>5, LimitIs, Zenon
  <2> QED
    BY <2>3, <2>4, <2>6
<1>5. f.page * f.view.size \in Nat
  BY <1>1
<1>6. CASE f.cursor # None
  <2>1. {k \in matching : k < f.cursor} \in SUBSET Keys /\ 0 \in Nat
    BY <1>3
  <2> QED
    BY <1>4, <1>6, <2>1 DEF fetch_rows, matching
<1>7. CASE f.cursor = None
  BY <1>3, <1>4, <1>5, <1>7 DEF fetch_rows, matching
<1> QED
  BY <1>6, <1>7

LEMMA CursorIs ==
  ASSUME NEW f \in Fetches, NEW a \in Seq(Keys)
  PROVE  /\ NextCursor(f, a) \in Keys \cup {None}
         /\ NextCursor(f, a) # None => a # <<>> /\ ~f.view.sorted /\ NextCursor(f, a) = Last(a)
<1>1. a # <<>> => Last(a) \in Keys
  BY DEF Last
<1> QED
  BY <1>1 DEF NextCursor

LEMMA AnsweredTyped ==
  ASSUME TypeInv, NEW f \in fetches, Answered(f)
  PROVE  TypeInv'
<1>0. f \in Fetches /\ f.view \in Views /\ f.page \in Pages /\ f.own \in BOOLEAN
  <2>1. f \in Fetches
    BY DEF TypeInv, PageTyped, FetchesTyped
  <2>2. f.own \in BOOLEAN
    BY <2>1, Zenon DEF Fetches
  <2> QED
    BY <2>1, <2>2 DEF Fetches
<1>1. PICK a \in Seq(Keys) : a = fetch_rows(f) /\ Len(a) <= f.view.size
  BY <1>0, AnswerTyped DEF TypeInv
<1>2. PICK end \in Keys \cup {None} : end = NextCursor(f, a)
  BY <1>0, CursorIs
<1> DEFINE fresh == [view |-> f.view, page |-> f.page, rows |-> a, own |-> f.own]
<1>3. /\ fetches' = fetches \ {f}
      /\ records' = IF f.live THEN (records \ Records(f.view, f.page)) \cup {fresh} ELSE records
      /\ cursors' = IF view.sorted \/ end = None THEN cursors
                    ELSE [p \in DOMAIN cursors \cup {f.page} |->
                            IF p = f.page THEN [at |-> end, own |-> f.own /\ f.view = view]
                            ELSE cursors[p]]
      /\ UNCHANGED <<rows, view, page, bounds>>
  BY <1>1, <1>2 DEF Answered
<1>4. pane' \in {"rows", "error"} /\ SelectionTyped' /\ deletions' \subseteq Deletions
  <2>1. CASE f.live /\ f.view = view /\ f.page = page
    BY <2>1, RebuildsTyped DEF Answered, TypeInv
  <2>2. CASE ~(f.live /\ f.view = view /\ f.page = page)
    BY <2>2 DEF Answered, TypeInv, PageTyped, SelectionTyped, DeletionsTyped, selecting
  <2> QED
    BY <2>1, <2>2
<1>5. FetchesTyped(fetches')
  BY <1>3 DEF TypeInv, PageTyped, FetchesTyped
<1>6. CursorsTyped(cursors', view)
  <2>1. CASE view.sorted \/ end = None
    BY <1>3, <2>1 DEF TypeInv, PageTyped
  <2>2. CASE ~(view.sorted \/ end = None)
    <3>1. PICK o \in BOOLEAN : o = (f.own /\ f.view = view)
      OBVIOUS
    <3>2. cursors' = [p \in DOMAIN cursors \cup {f.page} |->
                        IF p = f.page THEN [at |-> end, own |-> o] ELSE cursors[p]]
      BY <1>3, <2>2, <3>1
    <3>3. end \in Keys
      BY <2>2
    <3>4. [at |-> end, own |-> o] \in [at : Keys, own : BOOLEAN]
      BY <3>3, Zenon
    <3>5. DOMAIN cursors \subseteq Pages /\ \A p \in DOMAIN cursors : cursors[p] \in [at : Keys, own : BOOLEAN]
      BY DEF TypeInv, PageTyped, CursorsTyped
    <3>6. DOMAIN cursors' = DOMAIN cursors \cup {f.page}
      BY <3>2
    <3>7. ASSUME NEW p \in DOMAIN cursors' PROVE cursors'[p] \in [at : Keys, own : BOOLEAN]
      <4>1. CASE p = f.page
        BY <3>2, <3>4, <3>6, <4>1
      <4>2. CASE p # f.page
        BY <3>2, <3>5, <3>6, <4>2
      <4> QED
        BY <4>1, <4>2
    <3> QED
      BY <1>0, <2>2, <3>5, <3>6, <3>7 DEF CursorsTyped
  <2> QED
    BY <2>1, <2>2
<1>7. RecordsTyped(records')
  <2>1. fresh.view = f.view /\ fresh.page = f.page /\ fresh.rows = a
    OBVIOUS
  <2>2. RecordsTyped(records)
    BY DEF TypeInv, PageTyped
  <2> HIDE DEF fresh
  <2>3. CASE f.live
    BY <1>0, <1>1, <1>3, <2>1, <2>2, <2>3 DEF RecordsTyped, Records
  <2>4. CASE ~f.live
    BY <1>3, <2>2, <2>4
  <2> QED
    BY <2>3, <2>4
<1> HIDE DEF fresh
<1> QED
  BY <1>3, <1>4, <1>5, <1>6, <1>7 DEF TypeInv, PageTyped, DeletionsTyped, bounds

LEMMA FailedTyped ==
  ASSUME TypeInv, NEW f \in fetches, Failed(f)
  PROVE  TypeInv'
<1> DEFINE v == View(view.table, NoFilter, DefaultPageSize, view.sorted)
<1>1. v \in Views /\ 0 \in Pages
  <2>1. view.table \in Tables /\ view.sorted \in BOOLEAN
    BY ViewFields DEF TypeInv, PageTyped
  <2> QED
    BY <2>1, FirstViews, PageIsNat
<1>2. UNCHANGED <<rows, sent>>
  BY DEF Failed
<1> HIDE DEF v
<1>3. CASE Shows(v, 0, fetches \ {f}) /\ Rebuilds
  BY <1>1, <1>2, <1>3, ShowsTyped, RebuildsTyped DEF TypeInv, DeletionsTyped
<1>4. CASE /\ fetches' = fetches \ {f}
           /\ UNCHANGED <<view, page, cursors, records, pane, selecting, deletions>>
  BY <1>2, <1>4 DEF TypeInv, PageTyped, FetchesTyped, SelectionTyped, DeletionsTyped, selecting
<1>5. CASE /\ fetches' = fetches \ {f}
           /\ pane' = "error" /\ Unmounts
           /\ UNCHANGED <<view, page, cursors, records>>
  <2>1. SelectionTyped' /\ deletions' \subseteq Deletions
    BY <1>5, UnmountsTyped DEF TypeInv
  <2> QED
    BY <1>2, <1>5, <2>1 DEF TypeInv, PageTyped, FetchesTyped, DeletionsTyped
<1> QED
  BY <1>3, <1>4, <1>5 DEF Failed, v

LEMMA ReloadTyped ==
  ASSUME TypeInv, Reload
  PROVE  TypeInv'
<1> DEFINE v == [view EXCEPT !.sorted = FALSE]
<1>1. v \in Views
  BY DEF TypeInv, PageTyped, Views
<1>2. view' = v /\ fetches' = {Fetch(v, page, NoCursors)}
  BY DEF Reload
<1> HIDE DEF v
<1>3. FetchesTyped(fetches')
  BY <1>1, <1>2, NoCursorsTyped, FetchTyped DEF TypeInv, PageTyped
<1>4. CursorsTyped(cursors', view')
  BY NoCursorsTyped DEF Reload
<1>5. RecordsTyped(records')
  BY DEF Reload, RecordsTyped
<1>6. PageTyped'
  BY <1>1, <1>2, <1>3, <1>4, <1>5 DEF Reload, TypeInv, PageTyped
<1>7. deletions' \subseteq Deletions
  BY LeftTyped DEF Reload, TypeInv
<1> QED
  BY <1>6, <1>7 DEF Reload, TypeInv, SelectionTyped, DeletionsTyped

LEMMA CheckTyped ==
  ASSUME TypeInv, NEW ks, NEW value \in BOOLEAN, Check(ks, value)
  PROVE  TypeInv'
<1>1. ks \subseteq Keys
  BY ShownTyped DEF Check, TypeInv
<1>2. SelectionTyped'
  <2>1. CASE value
    BY <1>1, <2>1 DEF Check, onRowSelection, TypeInv, SelectionTyped
  <2>2. CASE ~value
    BY <1>1, <2>2 DEF Check, onRowSelection, TypeInv, SelectionTyped
  <2> QED
    BY <2>1, <2>2
<1> QED
  BY <1>2 DEF Check, TypeInv, PageTyped, DeletionsTyped, paging, bounds

LEMMA DeleteRowsTyped ==
  ASSUME TypeInv, DeleteRows
  PROVE  TypeInv'
<1>1. PICK b \in BOOLEAN : b = (Records(view, page) = {})
  OBVIOUS
<1> DEFINE d == [id |-> sent, table |-> view.table, left |-> selected, failed |-> b,
                 mounted |-> TRUE, page |-> TRUE]
<1>2. deletions' = deletions \cup {d}
  BY <1>1 DEF DeleteRows
<1>3. sent \in Nat /\ view.table \in Tables /\ selected \in SUBSET Keys
  BY ViewFields DEF TypeInv, PageTyped, SelectionTyped, DeletionsTyped
<1>4. d \in Deletions
  BY <1>3, Zenon DEF Deletions
<1> HIDE DEF d
<1> QED
  BY <1>2, <1>3, <1>4 DEF DeleteRows, TypeInv, PageTyped, SelectionTyped, DeletionsTyped, paging, selecting

LEMMA DeleteRowTyped ==
  ASSUME TypeInv, NEW d \in deletions, delete_row(d)
  PROVE  TypeInv' /\ \A t \in Tables : rows'[t] \subseteq rows[t]
<1>1. d \in Deletions /\ rows \in [Tables -> SUBSET Keys]
  BY DEF TypeInv, DeletionsTyped
<1>2. PICK k \in d.left :
        \/ /\ rows' = [rows EXCEPT ![d.table] = @ \ {k}]
           /\ deletions' = (deletions \ {d}) \cup {[d EXCEPT !.left = @ \ {k}]}
        \/ /\ deletions' = (deletions \ {d}) \cup {[d EXCEPT !.failed = TRUE]}
           /\ UNCHANGED rows
  BY DEF delete_row
<1>3. [d EXCEPT !.left = @ \ {k}] \in Deletions /\ [d EXCEPT !.failed = TRUE] \in Deletions
  BY <1>1 DEF Deletions
<1>4. deletions' \subseteq Deletions
  BY <1>2, <1>3 DEF TypeInv, DeletionsTyped
<1>5. rows' \in [Tables -> SUBSET Keys] /\ \A t \in Tables : rows'[t] \subseteq rows[t]
  BY <1>1, <1>2
<1> QED
  BY <1>4, <1>5 DEF delete_row, TypeInv, PageTyped, SelectionTyped, DeletionsTyped, paging, selecting, bounds

LEMMA DeletedTyped ==
  ASSUME TypeInv, NEW d \in deletions, Deleted(d)
  PROVE  TypeInv'
<1>1. PageTyped'
  <2>1. CASE d.page
    BY <2>1, RefetchesTyped DEF Deleted, TypeInv
  <2>2. CASE ~d.page
    BY <2>2 DEF Deleted, TypeInv, PageTyped, paging
  <2> QED
    BY <2>1, <2>2
<1>2. SelectionTyped'
  <2>1. CASE d.mounted /\ ~d.failed
    BY <2>1 DEF Deleted, TypeInv, SelectionTyped
  <2>2. CASE ~(d.mounted /\ ~d.failed)
    BY <2>2 DEF Deleted, TypeInv, SelectionTyped, selecting
  <2> QED
    BY <2>1, <2>2
<1> QED
  BY <1>1, <1>2 DEF Deleted, TypeInv, DeletionsTyped, bounds

\* The moves of the page, as views and pages.
LEMMA BrowseMoves ==
  ASSUME TypeInv, Browse
  PROVE  rowsRefetch \/ Reload \/ \E v \in Views, p \in Pages : Move(v, p)
<1>0. view \in Views /\ 0 \in Pages /\ NoFilter \in Filters /\ DefaultPageSize \in PageSizes
  BY TableBrowserAssumption DEF TypeInv, PageTyped, Pages
<1>1. view.table \in Tables /\ view.filter \in Filters /\ view.sorted \in BOOLEAN
  BY <1>0, ViewFields
<1>2. ASSUME NEW p \in 0..MaxPage, NEW size \in PageSizes, setPagination(p, size)
      PROVE  \E v \in Views, q \in Pages : Move(v, q)
  <2>1. [view EXCEPT !.size = size] \in Views
    BY <1>0 DEF Views
  <2> QED
    BY <1>2, <2>1 DEF setPagination, Pages
<1>3. ASSUME NEW filter \in Filters, setFilter(filter)
      PROVE  \E v \in Views, q \in Pages : Move(v, q)
  BY <1>0, <1>1, <1>3, ViewTyped DEF setFilter
<1>4. CASE setSorting
  <2>1. (~view.sorted) \in BOOLEAN
    OBVIOUS
  <2>2. [view EXCEPT !.sorted = ~@, !.size = DefaultPageSize] \in Views
    BY <1>0, <2>1 DEF Views
  <2> QED
    BY <1>0, <1>4, <2>2 DEF setSorting
<1>5. ASSUME NEW t \in Tables, navigateToTable(t)
      PROVE  \E v \in Views, q \in Pages : Move(v, q)
  BY <1>0, <1>1, <1>5, ViewTyped DEF navigateToTable
<1> QED
  BY <1>2, <1>3, <1>4, <1>5 DEF Browse

LEMMA TypeStep ==
  ASSUME TypeInv, [Next]_vars
  PROVE  TypeInv'
<1>1. CASE Browse
  <2>1. CASE rowsRefetch
    BY <2>1, RefetchesTyped DEF rowsRefetch, TypeInv, SelectionTyped, DeletionsTyped, selecting
  <2>2. CASE Reload
    BY <2>2, ReloadTyped
  <2>3. CASE \E v \in Views, p \in Pages : Move(v, p)
    BY <2>3, MoveTyped
  <2> QED
    BY <1>1, <2>1, <2>2, <2>3, BrowseMoves
<1>2. CASE Select
  <2>1. CASE SelectRow
    BY <2>1, CheckTyped DEF SelectRow
  <2>2. CASE SelectAll
    BY <2>2, CheckTyped DEF SelectAll
  <2>3. CASE setBlobEncoding
    BY <2>3, RebuildsTyped DEF setBlobEncoding, TypeInv, PageTyped, DeletionsTyped, paging, bounds
  <2> QED
    BY <1>2, <2>1, <2>2, <2>3 DEF Select
<1>3. CASE DeleteRows
  BY <1>3, DeleteRowsTyped
<1>4. ASSUME NEW f \in fetches, Answered(f) \/ Failed(f) PROVE TypeInv'
  BY <1>4, AnsweredTyped, FailedTyped
<1>5. ASSUME NEW d \in deletions, delete_row(d) \/ Deleted(d) PROVE TypeInv'
  BY <1>5, DeleteRowTyped, DeletedTyped
<1>6. CASE UNCHANGED vars
  BY <1>6 DEF vars, paging, selecting, bounds, TypeInv, PageTyped, SelectionTyped, DeletionsTyped
<1> QED
  BY <1>1, <1>2, <1>3, <1>4, <1>5, <1>6 DEF Next

LEMMA TypeInit ==
  ASSUME Init
  PROVE  TypeInv
<1>1. view \in Views /\ 0 \in Pages
  BY FirstViews, PageIsNat DEF Init
<1>2. CursorsTyped(NoCursors, view)
  BY NoCursorsTyped
<1>3. FetchesTyped({Fetch(view, 0, NoCursors)})
  BY <1>1, <1>2, FetchTyped
<1>4. PageTyped
  BY <1>1, <1>2, <1>3 DEF Init, PageTyped, RecordsTyped
<1> QED
  BY <1>4 DEF Init, TypeInv, SelectionTyped, DeletionsTyped

\* Whatever answers, failures and deletions come when, an answer that is kept
\* has one place, no more rows than a page of its own view, and a page that is
\* sorted by a column has no cursors: the handler would read them as an end of
\* the newest first.
THEOREM TypesHold == Spec => []TypeOK
<1>1. TypeInv => TypeOK
  <2> SUFFICES ASSUME TypeInv PROVE TypeOK
    OBVIOUS
  <2>1. \A f \in fetches : f.view \in Views /\ f.page \in Pages /\ f.cursor \in Keys \cup {None}
    BY DEF TypeInv, PageTyped, FetchesTyped, Fetches
  <2>2. \A d \in deletions : d.table \in Tables /\ d.left \subseteq Keys
    BY DEF TypeInv, DeletionsTyped, Deletions
  <2> QED
    BY <2>1, <2>2 DEF TypeInv, PageTyped, CursorsTyped, RecordsTyped, SelectionTyped, TypeOK
<1> QED
  BY <1>1, TypeInit, TypeStep, PTL DEF Spec

-----------------------------------------------------------------------------
(* Pages while every table has all its rows.                               *)

Quiet == \A t \in Tables : rows[t] = Keys

EndOf(v, p, k) == Slice(v, p) # <<>> /\ k = Last(Slice(v, p))
FetchesQuiet(fs) ==
  \A f \in fs : f.own /\ f.cursor # None => f.page # 0 /\ EndOf(f.view, f.page - 1, f.cursor)
CursorsQuiet(cs, v) == \A p \in DOMAIN cs : cs[p].own => EndOf(v, p, cs[p].at)
RecordsQuiet(rs) == \A r \in rs : r.own => r.rows = Slice(r.view, r.page)

\* A cursor that is its view's own is where that page's slice ends, and so is
\* the cursor of a fetch for the page after it.
QuietInv ==
  Quiet => FetchesQuiet(fetches) /\ CursorsQuiet(cursors, view) /\ RecordsQuiet(records)

\* An answer to a fetch from an end is the next slice.
LEMMA AnswerSlice ==
  ASSUME TypeInv, Quiet, NEW f \in Fetches, f.view.sorted => f.cursor = None,
         f.cursor # None => f.page # 0 /\ EndOf(f.view, f.page - 1, f.cursor)
  PROVE  fetch_rows(f) = Slice(f.view, f.page)
<1>1. f.view \in Views /\ f.page \in Nat
  BY PageIsNat DEF Fetches
<1>2. /\ f.view.table \in Tables /\ f.view.filter \in Filters
      /\ f.view.size \in Nat /\ f.view.sorted \in BOOLEAN
  BY <1>1, ViewFields
<1>3. Matches[f.view.filter] \subseteq Keys /\ Keys \subseteq Nat /\ IsFiniteSet(Keys)
  BY <1>2, TableBrowserAssumption
<1>4. PICK S \in SUBSET Nat : S = Matches[f.view.filter] /\ IsFiniteSet(S)
  BY <1>3, FS_Subset
<1>5. rows[f.view.table] \cap Matches[f.view.filter] = S
  BY <1>2, <1>3, <1>4 DEF Quiet
<1>6. CASE f.cursor = None
  BY <1>4, <1>5, <1>6 DEF fetch_rows, Slice
<1>7. CASE f.cursor # None
  <2>1. f.page # 0 /\ EndOf(f.view, f.page - 1, f.cursor) /\ f.view.sorted = FALSE
    BY <1>2, <1>7
  <2>2. PICK size \in Nat : size = f.view.size
    BY <1>2
  <2>3. PICK q \in Nat : q = f.page - 1 /\ f.page = q + 1
    BY <1>1, <2>1
  <2>4. PICK offset \in Nat : offset = q * size
    OBVIOUS
  <2>5. f.page * size = offset + size
    <3>1. (q + 1) * size = q * size + size
      OBVIOUS
    <3> QED
      BY <2>3, <2>4, <3>1
  <2> DEFINE a == Limit(Ordered(S, FALSE), offset, size)
  <2>6. a # <<>> /\ f.cursor = Last(a)
    BY <1>4, <2>1, <2>2, <2>3, <2>4 DEF EndOf, Slice
  <2>7. Limit(Ordered({k \in S : k < Last(a)}, FALSE), 0, size)
          = Limit(Ordered(S, FALSE), offset + size, size)
    BY <1>4, <2>6, NextPage
  <2>8. fetch_rows(f) = Limit(Ordered({k \in S : k < Last(a)}, FALSE), 0, size)
    BY <1>5, <1>7, <2>1, <2>2, <2>6 DEF fetch_rows
  <2>9. Slice(f.view, f.page) = Limit(Ordered(S, FALSE), offset + size, size)
    BY <1>4, <2>1, <2>2, <2>5 DEF Slice
  <2> QED
    BY <2>7, <2>8, <2>9
<1> QED
  BY <1>6, <1>7

LEMMA FetchQuiet ==
  ASSUME NEW v \in Views, NEW p \in Pages, NEW cs, CursorsQuiet(cs, v)
  PROVE  FetchesQuiet({Fetch(v, p, cs)})
<1>1. p \in Nat
  BY PageIsNat
<1>2. ASSUME Fetch(v, p, cs).own, Fetch(v, p, cs).cursor # None
      PROVE  p > 0 /\ EndOf(v, p - 1, Fetch(v, p, cs).cursor)
  BY <1>2 DEF Fetch, CursorsQuiet
<1>3. Fetch(v, p, cs).view = v /\ Fetch(v, p, cs).page = p
  BY DEF Fetch
<1> QED
  BY <1>1, <1>2, <1>3 DEF FetchesQuiet

LEMMA StartedQuiet ==
  ASSUME NEW fs, FetchesQuiet(fs), NEW v \in Views, NEW p \in Pages, NEW cs, CursorsQuiet(cs, v)
  PROVE  FetchesQuiet(Started(fs, v, p, cs))
<1>1. FetchesQuiet({Fetch(v, p, cs)})
  BY FetchQuiet
<1> QED
  BY <1>1 DEF Started, FetchesQuiet

LEMMA RefetchedQuiet ==
  ASSUME PageTyped, FetchesQuiet(fetches), CursorsQuiet(cursors, view)
  PROVE  FetchesQuiet(Refetched)
<1> DEFINE current(f) == f.live /\ f.view = view /\ f.page = page
           fs == IF Records(view, page) = {} THEN fetches
                 ELSE {IF current(f) THEN [f EXCEPT !.live = FALSE] ELSE f : f \in fetches}
<1>1. ASSUME NEW f \in fetches
      PROVE  LET g == [f EXCEPT !.live = FALSE] IN
             g.own = f.own /\ g.cursor = f.cursor /\ g.view = f.view /\ g.page = f.page
  BY DEF PageTyped, FetchesTyped, Fetches
<1>2. FetchesQuiet(fs)
  <2>1. \A g \in fs : \E f \in fetches :
          g.own = f.own /\ g.cursor = f.cursor /\ g.view = f.view /\ g.page = f.page
    BY <1>1, ZenonT(60)
  <2> HIDE DEF fs
  <2> QED
    BY <2>1 DEF FetchesQuiet
<1>3. Refetched = Started(fs, view, page, cursors)
  BY DEF Refetched
<1> HIDE DEF fs
<1> QED
  BY <1>2, <1>3, StartedQuiet DEF PageTyped

LEMMA ShowsQuiet ==
  ASSUME PageTyped, QuietInv, NEW v \in Views, NEW p \in Pages, NEW fs \in SUBSET fetches,
         Shows(v, p, fs), UNCHANGED rows
  PROVE  QuietInv'
<1> SUFFICES ASSUME Quiet
             PROVE  FetchesQuiet(fetches') /\ CursorsQuiet(cursors', view') /\ RecordsQuiet(records')
  BY DEF QuietInv, Quiet, FetchesQuiet, CursorsQuiet, RecordsQuiet, EndOf, Slice
<1>1. FetchesQuiet(fetches) /\ CursorsQuiet(cursors, view) /\ RecordsQuiet(records)
  BY DEF QuietInv
<1>2. CursorsQuiet(Reset(v), v)
  BY <1>1 DEF Reset, NoCursors, CursorsQuiet
<1>3. FetchesQuiet(fs)
  BY <1>1 DEF FetchesQuiet
<1>4. FetchesQuiet(Started(fs, v, p, Reset(v)))
  BY <1>2, <1>3, StartedQuiet
<1> QED
  BY <1>1, <1>2, <1>4 DEF Shows

\* Rows are only ever deleted: tables that have all their rows always had.
LEMMA QuietBefore ==
  ASSUME TypeInv, [Next]_vars, Quiet'
  PROVE  Quiet
<1>1. ASSUME NEW d \in deletions, delete_row(d), NEW t \in Tables PROVE rows[t] = Keys
  <2>1. rows'[t] \subseteq rows[t] /\ rows'[t] = Keys /\ rows[t] \subseteq Keys
    BY <1>1, DeleteRowTyped DEF Quiet, TypeInv
  <2> QED
    BY <2>1
<1>2. CASE \E d \in deletions : delete_row(d)
  BY <1>1, <1>2 DEF Quiet
<1>3. CASE UNCHANGED rows
  BY <1>3 DEF Quiet
<1>4. (\E d \in deletions : delete_row(d)) \/ UNCHANGED rows
  <2>1. CASE Browse
    BY <2>1 DEF Browse, setPagination, setFilter, setSorting, navigateToTable, rowsRefetch, Reload, Move
  <2>2. CASE Select
    BY <2>2 DEF Select, SelectRow, SelectAll, setBlobEncoding, Check
  <2>3. CASE DeleteRows
    BY <2>3 DEF DeleteRows
  <2>4. CASE \E f \in fetches : Answered(f) \/ Failed(f)
    BY <2>4 DEF Answered, Failed
  <2>5. CASE \E d \in deletions : delete_row(d) \/ Deleted(d)
    BY <2>5 DEF Deleted
  <2>6. CASE UNCHANGED vars
    BY <2>6 DEF vars
  <2> QED
    BY <2>1, <2>2, <2>3, <2>4, <2>5, <2>6 DEF Next
<1> QED
  BY <1>2, <1>3, <1>4

LEMMA AnsweredQuiet ==
  ASSUME TypeInv, QuietInv, NEW f \in fetches, Answered(f)
  PROVE  QuietInv'
<1> SUFFICES ASSUME Quiet
             PROVE  FetchesQuiet(fetches') /\ CursorsQuiet(cursors', view') /\ RecordsQuiet(records')
  BY DEF Answered, QuietInv, Quiet, FetchesQuiet, CursorsQuiet, RecordsQuiet, EndOf, Slice
<1>1. FetchesQuiet(fetches) /\ CursorsQuiet(cursors, view) /\ RecordsQuiet(records)
  BY DEF QuietInv
<1>2. f \in Fetches /\ (f.view.sorted => f.cursor = None)
  BY DEF TypeInv, PageTyped, FetchesTyped
<1>3. PICK a \in Seq(Keys) : a = fetch_rows(f)
  BY <1>2, AnswerTyped DEF TypeInv
<1>4. f.own => a = Slice(f.view, f.page)
  BY <1>1, <1>2, <1>3, AnswerSlice DEF FetchesQuiet
<1>5. PICK end : end = NextCursor(f, a) /\ (end # None => a # <<>> /\ end = Last(a))
  BY <1>2, CursorIs
<1> DEFINE fresh == [view |-> f.view, page |-> f.page, rows |-> a, own |-> f.own]
<1>6. /\ fetches' = fetches \ {f}
      /\ records' = IF f.live THEN (records \ Records(f.view, f.page)) \cup {fresh} ELSE records
      /\ cursors' = IF view.sorted \/ end = None THEN cursors
                    ELSE [p \in DOMAIN cursors \cup {f.page} |->
                            IF p = f.page THEN [at |-> end, own |-> f.own /\ f.view = view]
                            ELSE cursors[p]]
      /\ UNCHANGED view
  BY <1>3, <1>5 DEF Answered
<1>7. FetchesQuiet(fetches')
  BY <1>1, <1>6 DEF FetchesQuiet
<1>8. CursorsQuiet(cursors', view)
  <2>1. CASE view.sorted \/ end = None
    BY <1>1, <1>6, <2>1
  <2>2. CASE ~(view.sorted \/ end = None)
    <3>1. DOMAIN cursors' = DOMAIN cursors \cup {f.page}
      BY <1>6, <2>2
    <3>2. ASSUME NEW p \in DOMAIN cursors', cursors'[p].own PROVE EndOf(view, p, cursors'[p].at)
      <4>1. CASE p = f.page
        <5>0. PICK o \in BOOLEAN : o = (f.own /\ f.view = view)
          OBVIOUS
        <5>1. cursors'[p] = [at |-> end, own |-> o]
          BY <1>6, <2>2, <3>1, <4>1, <5>0
        <5>2. cursors'[p].at = end /\ cursors'[p].own = o
          BY <5>1
        <5>3. f.own /\ f.view = view
          BY <3>2, <5>0, <5>2
        <5> QED
          BY <1>4, <1>5, <2>2, <4>1, <5>2, <5>3 DEF EndOf
      <4>2. CASE p # f.page
        <5>1. p \in DOMAIN cursors /\ cursors'[p] = cursors[p]
          BY <1>6, <2>2, <3>1, <4>2
        <5> QED
          BY <1>1, <3>2, <5>1 DEF CursorsQuiet
      <4> QED
        BY <4>1, <4>2
    <3> QED
      BY <3>2 DEF CursorsQuiet
  <2> QED
    BY <2>1, <2>2
<1>9. RecordsQuiet(records')
  <2>1. fresh.own = f.own /\ fresh.rows = a /\ fresh.view = f.view /\ fresh.page = f.page
    OBVIOUS
  <2> HIDE DEF fresh
  <2>2. fresh.own => fresh.rows = Slice(fresh.view, fresh.page)
    BY <1>4, <2>1
  <2> QED
    BY <1>1, <1>6, <2>2 DEF RecordsQuiet
<1> QED
  BY <1>6, <1>7, <1>8, <1>9

LEMMA QuietStep ==
  ASSUME TypeInv, QuietInv, [Next]_vars
  PROVE  QuietInv'
<1> SUFFICES ASSUME Quiet'
             PROVE  QuietInv'
  BY DEF QuietInv
<1>0. Quiet
  BY QuietBefore
<1>1. FetchesQuiet(fetches) /\ CursorsQuiet(cursors, view) /\ RecordsQuiet(records)
  BY <1>0 DEF QuietInv
<1>2. ASSUME UNCHANGED paging PROVE QuietInv'
  BY <1>1, <1>2 DEF paging, QuietInv, FetchesQuiet, CursorsQuiet, RecordsQuiet, EndOf, Slice
<1>3. ASSUME Refetches PROVE QuietInv'
  <2>1. FetchesQuiet(fetches')
    BY <1>1, <1>3, RefetchedQuiet DEF TypeInv, Refetches
  <2>2. CursorsQuiet(cursors', view') /\ RecordsQuiet(records')
    BY <1>1, <1>3 DEF Refetches
  <2> QED
    BY <2>1, <2>2 DEF QuietInv, FetchesQuiet, CursorsQuiet, RecordsQuiet, EndOf, Slice
<1>4. CASE Browse
  <2>1. CASE rowsRefetch
    BY <2>1, <1>3 DEF rowsRefetch
  <2>2. CASE Reload
    <3> DEFINE v == [view EXCEPT !.sorted = FALSE]
    <3>1. v \in Views
      BY DEF TypeInv, PageTyped, Views
    <3>2. view' = v /\ fetches' = {Fetch(v, page, NoCursors)} /\ cursors' = NoCursors /\ records' = {}
      BY <2>2 DEF Reload
    <3>3. CursorsQuiet(NoCursors, v)
      BY DEF CursorsQuiet, NoCursors
    <3> HIDE DEF v
    <3>4. FetchesQuiet({Fetch(v, page, NoCursors)})
      BY <3>1, <3>3, FetchQuiet DEF TypeInv, PageTyped
    <3>5. FetchesQuiet(fetches') /\ CursorsQuiet(cursors', view') /\ RecordsQuiet(records')
      BY <3>2, <3>3, <3>4 DEF RecordsQuiet
    <3> QED
      BY <3>5 DEF QuietInv, FetchesQuiet, CursorsQuiet, RecordsQuiet, EndOf, Slice
  <2>3. CASE \E v \in Views, p \in Pages : Move(v, p)
    BY <2>3, ShowsQuiet DEF Move, TypeInv
  <2> QED
    BY <1>4, <2>1, <2>2, <2>3, BrowseMoves
<1>5. CASE Select
  BY <1>5, <1>2 DEF Select, SelectRow, SelectAll, setBlobEncoding, Check
<1>6. CASE DeleteRows
  BY <1>6, <1>2 DEF DeleteRows
<1>7. ASSUME NEW f \in fetches, Answered(f) PROVE QuietInv'
  BY <1>7, AnsweredQuiet
<1>8. ASSUME NEW f \in fetches, Failed(f) PROVE QuietInv'
  <2> DEFINE v == View(view.table, NoFilter, DefaultPageSize, view.sorted)
  <2>1. v \in Views /\ 0 \in Pages
    <3>1. view.table \in Tables /\ view.sorted \in BOOLEAN
      BY ViewFields DEF TypeInv, PageTyped
    <3> QED
      BY <3>1, FirstViews, PageIsNat
  <2> HIDE DEF v
  <2>2. CASE Shows(v, 0, fetches \ {f})
    BY <1>8, <2>1, <2>2, ShowsQuiet DEF Failed, TypeInv
  <2>3. CASE fetches' = fetches \ {f} /\ UNCHANGED <<view, page, cursors, records>>
    BY <1>1, <2>3 DEF QuietInv, FetchesQuiet, CursorsQuiet, RecordsQuiet, EndOf, Slice
  <2> QED
    BY <1>8, <2>2, <2>3 DEF Failed, v
<1>9. ASSUME NEW d \in deletions, delete_row(d) PROVE QuietInv'
  BY <1>9, <1>2 DEF delete_row
<1>10. ASSUME NEW d \in deletions, Deleted(d) PROVE QuietInv'
  BY <1>10, <1>2, <1>3 DEF Deleted
<1>11. CASE UNCHANGED vars
  BY <1>11, <1>2 DEF vars
<1> QED
  BY <1>4, <1>5, <1>6, <1>7, <1>8, <1>9, <1>10, <1>11 DEF Next

\* Neither the answers' order nor failures, refetches and changes of the view
\* make a page repeat or skip rows of the page before, as long as no row is
\* deleted: the handler's two ways to find a page, by offset and by cursor,
\* agree, and a cursor is only ever used for the page after the one it ends.
THEOREM PagesFollow == Spec => []PagesContinue
<1>1. Init => CursorInv /\ TypeInv /\ QuietInv
  <2> SUFFICES ASSUME Init PROVE QuietInv /\ CursorInv
    BY TypeInit
  <2>1. view \in Views /\ 0 \in Pages
    BY FirstViews, PageIsNat DEF Init
  <2>2. CursorsQuiet(NoCursors, view)
    BY DEF CursorsQuiet, NoCursors
  <2>3. FetchesQuiet({Fetch(view, 0, NoCursors)})
    BY <2>1, <2>2, FetchQuiet
  <2>4. QuietInv
    BY <2>2, <2>3 DEF Init, QuietInv, RecordsQuiet
  <2> QED
    BY <2>4, CursorInit
<1>2. CursorInv /\ TypeInv /\ QuietInv /\ [Next]_vars => CursorInv' /\ TypeInv' /\ QuietInv'
  BY CursorStep, TypeStep, QuietStep
<1>3. CursorInv /\ QuietInv => PagesContinue
  BY DEF CursorInv, QuietInv, Quiet, RecordsQuiet, PagesContinue, SlicesWhileQuiet
<1> QED
  BY <1>1, <1>2, <1>3, PTL DEF Spec
=============================================================================
