---------------------------- MODULE TableBrowser ----------------------------
(***************************************************************************)
(* Browsing the rows of a table in the admin UI, page by page, and         *)
(* deleting the rows that are checked (admin/src/components/tables/        *)
(* TablePane.tsx, components/Table.tsx), on top of the handlers that list  *)
(* and delete rows (crates/core/src/admin/rows).                           *)
(*                                                                         *)
(* A row is its primary key.  The query library (TanStack) is external: it *)
(* keeps the last answer of every key, fetches a key again whenever it is  *)
(* shown, joins a fetch of the same key that is under way, and forgets     *)
(* cancelled fetches, whose function runs on nevertheless.                 *)
(***************************************************************************)
EXTENDS Naturals, FiniteSets, FiniteSetsExt, SequencesExt

CONSTANTS
  Tables, Keys,     \* bound: the tables and their rows' primary keys
  Protected,        \* rows that other rows refer to: they cannot be deleted
  Filters, Matches, \* bound: the filters admins enter, and the keys each matches
  NoFilter, None,
  PageSizes, DefaultPageSize, \* bound: the page sizes
  MaxPage,          \* bound: the last page visited
  MaxMoves, MaxFailures, MaxDeletions \* bounds on a behaviour

ASSUME TableBrowserAssumption ==
  /\ Keys \subseteq Nat /\ IsFiniteSet(Keys) /\ Protected \subseteq Keys /\ None \notin Keys
  /\ NoFilter \in Filters /\ Matches \in [Filters -> SUBSET Keys] /\ Matches[NoFilter] = Keys
  /\ PageSizes \subseteq Nat \ {0} /\ DefaultPageSize \in PageSizes
  /\ {MaxPage, MaxMoves, MaxFailures, MaxDeletions} \subseteq Nat

VARIABLES
  rows,       \* the rows of every table
  view,       \* the table, filter, page size and sorting in the page
  page,       \* the page index
  cursors,    \* where the pages of this view end, by page index
  records,    \* the query library's cache: the last answer of every key
  fetches,    \* queries under way
  pane,       \* "rows", or "error" after the retries of a query
  selected,   \* selectedRows: the keys "Delete rows" will delete
  checked,    \* the rows whose checkbox is checked on the screen
  deletions,  \* deletions under way, each with the keys left to delete
  moves, failures, sent, \* what was used of the bounds
  bottoms,    \* history: last rows of the answers, by view and page
  hidden,     \* history: keys that lost their check mark when the table was rebuilt
  cleared     \* history: a deletion emptied the selection of a table not rebuilt since

paging == <<view, page, cursors, records, fetches, pane>>
selecting == <<selected, checked, hidden, cleared>>
bounds == <<moves, failures, sent>>
vars == <<rows, paging, selecting, deletions, bounds, bottoms>>

View(t, filter, size, sorted) == [table |-> t, filter |-> filter, size |-> size, sorted |-> sorted]
NoCursors == [p \in {} |-> None]

-----------------------------------------------------------------------------
(* Listing rows.                                                           *)

\* Newest first, or by a column: the first n of them after an offset.
Before(j, k, sorted) == IF sorted THEN j < k ELSE j > k
Ordered(S, sorted) ==
  CHOOSE s \in [1 .. Cardinality(S) -> S] :
    \A i, j \in DOMAIN s : i < j => Before(s[i], s[j], sorted)

\* Mutant: one row too many.
LimitInclusive(s, offset, n) ==
  SubSeq(s, offset + 1, IF offset + n + 1 > Len(s) THEN Len(s) ELSE offset + n + 1)

Limit(s, offset, n) == SubSeq(s, offset + 1, IF offset + n > Len(s) THEN Len(s) ELSE offset + n)

\* A cursor replaces the offset (list.ts): the rows below it, else those that
\* the pages before do not have.
fetch_rows(f) ==
  LET matching == rows[f.view.table] \cap Matches[f.view.filter]
  IN IF f.cursor # None
     THEN Limit(Ordered({k \in matching : k < f.cursor}, f.view.sorted), 0, f.view.size)
     ELSE Limit(Ordered(matching, f.view.sorted), f.page * f.view.size, f.view.size)

\* The answer has a cursor unless the request had an order.
NextCursor(f, answer) == IF f.view.sorted \/ answer = <<>> THEN None ELSE Last(answer)

-----------------------------------------------------------------------------
(* The page.                                                               *)

\* The records under the current key, if it was ever answered.
Records(v, p) == {r \in records : r.view = v /\ r.page = p}
Shown == IF pane = "error" THEN {} ELSE UNION {ToSet(r.rows) : r \in Records(view, page)}

\* The table's memo depends on the records, the page, the sorting and the
\* schema.  A new table has no check mark; the selection is not the table's.
Rebuilds ==
  /\ checked' = {} /\ cleared' = FALSE
  /\ hidden' = hidden \cup (selected \cap checked)
  /\ UNCHANGED <<selected, deletions>>

\* The table's component goes away: its selection does, too, and what a
\* deletion does to the selection is lost.
Unmounts ==
  /\ checked' = {} /\ cleared' = FALSE /\ hidden' = {} /\ selected' = {}
  /\ deletions' = {[d EXCEPT !.mounted = FALSE] : d \in deletions}

\* A query starts with what the page says now.
Fetch(v, p, cs) ==
  LET known == p > 0 /\ p - 1 \in DOMAIN cs IN
  [view |-> v, page |-> p, live |-> TRUE,
   cursor |-> IF known THEN cs[p - 1].at ELSE None,
   own |-> known => cs[p - 1].own]

Joins(fs, v, p) == \E f \in fs : f.live /\ f.view = v /\ f.page = p
Started(fs, v, p, cs) == IF Joins(fs, v, p) THEN fs ELSE fs \cup {Fetch(v, p, cs)}

\* Mutant: the filter is forgotten among the cursors' dependencies.
ResetUnfiltered(v) ==
  IF [v EXCEPT !.filter = view.filter] = view THEN cursors ELSE NoCursors

\* Cursors are of one table, page size, filter and sorting.
Reset(v) == IF v = view THEN cursors ELSE NoCursors

\* The page shows another view or page: another key, fetched at once.
Shows(v, p, fs) ==
  /\ view' = v /\ page' = p
  /\ cursors' = Reset(v)
  /\ fetches' = Started(fs, v, p, Reset(v))
  /\ pane' = "rows"
  /\ UNCHANGED records

Move(v, p) ==
  /\ v # view \/ p # page
  /\ moves < MaxMoves /\ moves' = moves + 1
  /\ Shows(v, p, fetches)
  /\ Rebuilds
  /\ UNCHANGED <<rows, failures, sent, bottoms>>

setPagination(p, size) == pane = "rows" /\ Move([view EXCEPT !.size = size], p)
setFilter(filter) ==
  /\ pane = "rows" /\ filter # view.filter
  /\ Move(View(view.table, filter, DefaultPageSize, view.sorted), 0)
setSorting ==
  pane = "rows" /\ Move([view EXCEPT !.sorted = ~@, !.size = DefaultPageSize], 0)

\* Another table keeps nothing but the sorting.
navigateToTable(t) == t # view.table /\ Move(View(t, NoFilter, DefaultPageSize, view.sorted), 0)

\* A refetch cancels the one under way if there are records to show
\* meanwhile; the cancelled function goes on.
Refetched ==
  LET current(f) == f.live /\ f.view = view /\ f.page = page
      fs == IF Records(view, page) = {} THEN fetches
            ELSE {IF current(f) THEN [f EXCEPT !.live = FALSE] ELSE f : f \in fetches}
  IN Started(fs, view, page, cursors)

Refetches ==
  /\ fetches' = Refetched
  /\ pane' = IF Records(view, page) = {} THEN "rows" ELSE pane
  /\ UNCHANGED <<view, page, cursors, records>>

\* The table's buttons ask for it, and the window whenever it gets the focus.
rowsRefetch ==
  /\ moves < MaxMoves /\ moves' = moves + 1
  /\ Refetches
  /\ UNCHANGED <<rows, selecting, deletions, failures, sent, bottoms>>

\* An answer: its records are kept under its own key; where it ends goes into
\* the cursors of the view that is shown when it comes.
Answered(f) ==
  LET answer == fetch_rows(f)
      end == NextCursor(f, answer)
      fresh == [view |-> f.view, page |-> f.page, rows |-> answer, own |-> f.own]
  IN
  /\ fetches' = fetches \ {f}
  /\ records' = IF f.live THEN (records \ Records(f.view, f.page)) \cup {fresh} ELSE records
  /\ cursors' = IF view.sorted \/ end = None THEN cursors
                ELSE [p \in DOMAIN cursors \cup {f.page} |->
                        IF p = f.page THEN [at |-> end, own |-> f.own /\ f.view = view]
                        ELSE cursors[p]]
  /\ bottoms' = IF end = None THEN bottoms ELSE bottoms \cup {<<f.view, f.page, end>>}
  /\ IF f.live /\ f.view = view /\ f.page = page
     THEN pane' = "rows" /\ Rebuilds
     ELSE UNCHANGED <<pane, selecting, deletions>>
  /\ UNCHANGED <<rows, view, page, bounds>>

\* A query fails: the page loses its filter and its place, whichever query it
\* was.  Its own key is tried again if it is still the page's, and in the end
\* given up.
Failed(f) ==
  LET v == View(view.table, NoFilter, DefaultPageSize, view.sorted)
      left == fetches \ {f}
  IN
  /\ failures < MaxFailures /\ failures' = failures + 1
  /\ \/ /\ v # view \/ page # 0
        /\ Shows(v, 0, left)
        /\ Rebuilds
     \/ /\ v = view /\ page = 0 /\ ~(f.live /\ f.view = v /\ f.page = 0)
        /\ fetches' = left
        /\ UNCHANGED <<view, page, cursors, records, pane, selecting, deletions>>
     \/ /\ v = view /\ page = 0 /\ f.live /\ f.view = v /\ f.page = 0
        /\ fetches' = left
        /\ pane' = "error" /\ Unmounts
        /\ UNCHANGED <<view, page, cursors, records>>
  /\ UNCHANGED <<rows, moves, sent, bottoms>>

\* The error's button loads the page again: only its address stays.
Reload ==
  /\ pane = "error"
  /\ moves < MaxMoves /\ moves' = moves + 1
  /\ LET v == [view EXCEPT !.sorted = FALSE] IN
     /\ view' = v /\ UNCHANGED page
     /\ fetches' = {Fetch(v, page, NoCursors)}
  /\ cursors' = NoCursors /\ records' = {} /\ pane' = "rows"
  /\ checked' = {} /\ cleared' = FALSE /\ hidden' = {} /\ selected' = {}
  /\ deletions' = {[d EXCEPT !.mounted = FALSE, !.page = FALSE] : d \in deletions}
  /\ UNCHANGED <<rows, failures, sent, bottoms>>

-----------------------------------------------------------------------------
(* The selection.                                                          *)

\* Mutant: a selection starts with every click.
onRowSelectionAnew(ks, value) ==
  /\ selected' = IF value THEN ks ELSE {}
  /\ checked' = IF value THEN checked \cup ks ELSE checked \ ks
  /\ hidden' = hidden \ ks
  /\ UNCHANGED cleared

\* A check box, or the one above all of them, changes the table's own
\* selection and then the page's.
onRowSelection(ks, value) ==
  /\ selected' = IF value THEN selected \cup ks ELSE selected \ ks
  /\ checked' = IF value THEN checked \cup ks ELSE checked \ ks
  /\ hidden' = hidden \ ks
  /\ UNCHANGED cleared

Check(ks, value) ==
  /\ ks # {} /\ ks \subseteq Shown
  /\ value # (ks \subseteq checked)
  /\ onRowSelection(ks, value)
  /\ UNCHANGED <<rows, paging, deletions, bounds, bottoms>>

SelectRow == \E k \in Shown, value \in BOOLEAN : Check({k}, value)
SelectAll == \E value \in BOOLEAN : Check(Shown, value)

\* Other cells are shown for the blobs: the table is built anew.
setBlobEncoding ==
  /\ pane = "rows" /\ checked # {}
  /\ Rebuilds
  /\ UNCHANGED <<rows, paging, deletions, bounds, bottoms>>

-----------------------------------------------------------------------------
(* Deleting rows.                                                          *)

\* While there are no records to know the columns from, the request names no
\* column and is refused.
DeleteRows ==
  /\ pane = "rows" /\ selected # {}
  /\ sent < MaxDeletions /\ sent' = sent + 1
  /\ deletions' = deletions \cup
       {[id |-> sent, table |-> view.table, left |-> selected, failed |-> Records(view, page) = {},
         mounted |-> TRUE, page |-> TRUE]}
  /\ UNCHANGED <<rows, paging, selecting, moves, failures, bottoms>>

\* The handler deletes row by row and aborts on the first error: a row that
\* is not there, or one that others refer to.
delete_row(d) ==
  /\ d.left # {} /\ ~d.failed
  /\ \E k \in d.left :
       \/ /\ k \in rows[d.table] \ Protected
          /\ rows' = [rows EXCEPT ![d.table] = @ \ {k}]
          /\ deletions' = (deletions \ {d}) \cup {[d EXCEPT !.left = @ \ {k}]}
       \/ /\ k \notin rows[d.table] \ Protected
          /\ deletions' = (deletions \ {d}) \cup {[d EXCEPT !.failed = TRUE]}
          /\ UNCHANGED rows
  /\ UNCHANGED <<paging, selecting, bounds, bottoms>>

\* The page hears of it: the selection is emptied after a success, whatever
\* was selected meanwhile, and the rows are fetched again in any case.
Deleted(d) ==
  /\ d.left = {} \/ d.failed
  /\ deletions' = deletions \ {d}
  /\ IF d.page THEN Refetches ELSE UNCHANGED paging
  /\ IF d.mounted /\ ~d.failed
     THEN selected' = {} /\ hidden' = {} /\ cleared' = (cleared \/ checked # {}) /\ UNCHANGED checked
     ELSE UNCHANGED selecting
  /\ UNCHANGED <<rows, bounds, bottoms>>

-----------------------------------------------------------------------------
Init ==
  /\ rows = [t \in Tables |-> Keys]
  /\ \E t \in Tables : view = View(t, NoFilter, DefaultPageSize, FALSE)
  /\ page = 0 /\ cursors = NoCursors /\ records = {} /\ pane = "rows"
  /\ fetches = {Fetch(view, 0, NoCursors)}
  /\ selected = {} /\ checked = {} /\ deletions = {}
  /\ moves = 0 /\ failures = 0 /\ sent = 0
  /\ bottoms = {} /\ hidden = {} /\ cleared = FALSE

Browse ==
  \/ \E p \in 0..MaxPage, size \in PageSizes : setPagination(p, size)
  \/ \E filter \in Filters : setFilter(filter)
  \/ setSorting
  \/ \E t \in Tables : navigateToTable(t)
  \/ rowsRefetch
  \/ Reload

Select == SelectRow \/ SelectAll \/ setBlobEncoding

Next ==
  \/ Browse \/ Select \/ DeleteRows
  \/ \E f \in fetches : Answered(f) \/ Failed(f)
  \/ \E d \in deletions : delete_row(d) \/ Deleted(d)

Spec == Init /\ [][Next]_vars

-----------------------------------------------------------------------------
Views == [table : Tables, filter : Filters, size : PageSizes, sorted : BOOLEAN]
Pages == 0..MaxPage

\* The state is well formed; a page that was never left shows no more rows
\* than its size, and cursors are kept for unsorted views only (TablePane.tsx,
\* TablePane and RecordTable).
TypeOK ==
  /\ rows \in [Tables -> SUBSET Keys]
  /\ view \in Views /\ page \in Pages /\ pane \in {"rows", "error"}
  /\ DOMAIN cursors \subseteq Pages
  /\ \A p \in DOMAIN cursors : cursors[p] \in [at : Keys, own : BOOLEAN]
  /\ view.sorted => cursors = NoCursors
  /\ \A f \in fetches : f.view \in Views /\ f.page \in Pages /\ f.cursor \in Keys \cup {None}
  /\ \A r \in records : r.view \in Views /\ r.page \in Pages /\ Len(r.rows) <= r.view.size
  /\ \A r, s \in records : r.view = s.view /\ r.page = s.page => r = s
  /\ {selected, checked, hidden} \subseteq SUBSET Keys
  /\ \A d \in deletions : d.table \in Tables /\ d.left \subseteq Keys

\* The rows of page p of a view while every table has all its rows.
Slice(v, p) ==
  Limit(Ordered(Matches[v.filter], v.sorted), p * v.size, v.size)

\* A page is fetched from where an answer for the page before it ended, of
\* the same table, filter, size and sorting (TablePane.tsx, queryFn).
FetchedFromAnEnd ==
  \A f \in fetches : f.own /\ f.cursor # None => <<f.view, f.page - 1, f.cursor>> \in bottoms

\* Records that continue those of the page before are that page's slice while
\* every table has all its rows (list_rows.rs, fetch_rows).
SlicesWhileQuiet ==
  (\A t \in Tables : rows[t] = Keys) =>
    \A r \in records : r.own => r.rows = Slice(r.view, r.page)

\* Pages continue each other: a page is fetched from where an answer for the
\* page before it, of the same table, filter, size and sorting, ended, and
\* while the tables are as at first it has the rows that neither the pages
\* before nor those after it have.  The exception is a page fetched from the
\* end of an answer that came after its view had been left (TablePane.tsx,
\* queryFn: the cursors are reset, the fetches under way are not).
PagesContinue == FetchedFromAnEnd /\ SlicesWhileQuiet

\* "Delete rows" deletes what is checked: the page's selection and the check
\* boxes of the table, kept apart, agree except for rows checked before the
\* table was last built (another page, table, sorting or answer took the check
\* marks away, not the selection), and between a deletion's success and the
\* answer it asks for (RecordTable's selectedRows, buildTable's rowSelection).
ChecksAgree == cleared \/ selected = checked \cup hidden
=============================================================================
