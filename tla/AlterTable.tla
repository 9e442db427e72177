----------------------------- MODULE AlterTable -----------------------------
(***************************************************************************)
(* Creating and altering a table from the admin UI: the sheet with the     *)
(* table's columns (admin/src/components/tables/CreateAlterTable.tsx), the *)
(* operations it makes of them, and the handlers that rebuild the table    *)
(* (crates/core/src/admin/table/alter_table.rs, create_table.rs).          *)
(*                                                                         *)
(* A column is its name, its type (which stands for type and options) and  *)
(* an identity: the data it holds.  The code knows columns by name and by  *)
(* index only; no action reads an identity.  Identity 0 is a column that   *)
(* has no data yet.  Indexes count from 1.  Renaming the table is part of  *)
(* Configuration.                                                          *)
(***************************************************************************)
EXTENDS Naturals, SequencesExt

CONSTANTS
  Admins,         \* browsers with the table's page open
  Names,          \* bound: the names admins enter
  Types,          \* bound: the types admins choose
  DefaultType,    \* a new column's type
  PrimaryKey,     \* the first column's type
  Deleted, AnyType,   \* the marker's name and type
  FirstTable,     \* the table's columns, if it is there at the start
  NewTable,       \* the columns the sheet proposes for a new table
  InUse,          \* names that record APIs refer to
  Closed,
  MaxEdits,       \* bound: edits in a behaviour
  MaxAlterations  \* bound: alterations in a behaviour

Columns == [name : Names \cup {Deleted}, type : Types \cup {PrimaryKey, AnyType},
            id : Nat, marker : BOOLEAN]

NamesOf(columns) == {columns[i].name : i \in DOMAIN columns}
IdsOf(columns) == {columns[i].id : i \in DOMAIN columns}
Distinct(columns) == \A i, j \in DOMAIN columns : columns[i].name = columns[j].name => i = j

\* What a table, or a proposal, starts from: columns with names of their own,
\* the first of them the primary key's, no marker among them.
Proper(columns) ==
  /\ columns \in Seq(Columns) /\ columns # <<>>
  /\ Distinct(columns) /\ columns[1].type = PrimaryKey
  /\ \A i \in DOMAIN columns : ~columns[i].marker

ASSUME AlterTableAssumption ==
  /\ Deleted \notin Names /\ DefaultType \in Types /\ PrimaryKey \notin Types
  /\ Proper(FirstTable) /\ IdsOf(FirstTable) \subseteq 1 .. Len(FirstTable)
  /\ Proper(NewTable) /\ IdsOf(NewTable) = {0}
  /\ InUse \subseteq Names /\ MaxEdits \in Nat /\ MaxAlterations \in Nat

VARIABLES
  table,    \* the columns of the table; none while it is not there
  schemas,  \* the schema an admin's page fetched last
  form,     \* the sheet: whether it alters, source, columns, order, touched
  edits,
  born,     \* history: identities given out
  clicked,  \* history: names the source has for the columns deleted in the sheet
  spoiled,  \* history: what made the sheet differ from what it shows
  done      \* history: alterations an admin was told succeeded

history == <<born, clicked, spoiled, done>>
vars == <<table, schemas, form, edits, history>>

Column(name, type, id) == [name |-> name, type |-> type, id |-> id, marker |-> FALSE]
DELETED_COLUMN_MARKER == [name |-> Deleted, type |-> AnyType, id |-> 0, marker |-> TRUE]

Named(columns, name) == SelectInSeq(columns, LAMBDA c : c.name = name)
Identity(columns) == [i \in DOMAIN columns |-> i]

-----------------------------------------------------------------------------
(* The sheet.                                                              *)

\* It opens for the schema the page has, or for a new table.
defaultSchema == [alters |-> FALSE, source |-> <<>>, columns |-> NewTable,
                  order |-> Identity(NewTable), touched |-> FALSE]
deepCopySchema(s) == [alters |-> TRUE, source |-> s, columns |-> s,
                      order |-> Identity(s), touched |-> FALSE]

Open(a) ==
  /\ form[a] = Closed /\ done[a] < MaxAlterations
  /\ form' = [form EXCEPT ![a] = IF schemas[a] = <<>> THEN defaultSchema
                                                      ELSE deepCopySchema(schemas[a])]
  /\ clicked' = [clicked EXCEPT ![a] = {}]
  /\ spoiled' = [spoiled EXCEPT ![a] = {}]
  /\ UNCHANGED <<table, schemas, edits, born, done>>

Close(a) ==
  /\ form[a] # Closed
  /\ form' = [form EXCEPT ![a] = Closed]
  /\ UNCHANGED <<table, schemas, edits, history>>

\* The page's query fetches again whenever the window gets the focus: the
\* defaults are computed again, and the order with them.  A form that was
\* touched keeps its values.
Refetched(f, s) ==
  LET fresh == IF f.alters THEN deepCopySchema(s) ELSE defaultSchema
  IN IF f.touched THEN [fresh EXCEPT !.columns = f.columns, !.touched = TRUE] ELSE fresh

Spoils(f, s) == f.touched /\ Refetched(f, s) # f

Refetch(a) ==
  /\ schemas' = [schemas EXCEPT ![a] = table]
  /\ form' = [form EXCEPT ![a] = IF @ = Closed THEN @ ELSE Refetched(@, table)]
  /\ spoiled' = [spoiled EXCEPT ![a] =
                   IF form[a] # Closed /\ Spoils(form[a], table) THEN @ \cup {"refetched"} ELSE @]
  /\ UNCHANGED <<table, edits, born, clicked, done>>

Change(a, f) ==
  /\ edits < MaxEdits /\ edits' = edits + 1
  /\ form' = [form EXCEPT ![a] = f]
  /\ UNCHANGED <<table, schemas, born, done>>

\* Columns and order are shown together.
Shown(a) == IF form[a] = Closed THEN {} ELSE DOMAIN form[a].order

Put(columns, i, c) == IF i > Len(columns) THEN Append(columns, c) ELSE [columns EXCEPT ![i] = c]

\* Typing into a marker's card makes it a column like any other.  The first
\* card is the primary key's: only a new table's can be changed.
EditColumn(a, k, name, type) ==
  LET f == form[a]  i == f.order[k] IN
  /\ i \in DOMAIN f.columns
  /\ IF k = 1 THEN ~f.alters /\ type = PrimaryKey ELSE type \in Types
  /\ name # f.columns[i].name \/ type # f.columns[i].type
  /\ Change(a, [f EXCEPT !.columns[i] = Column(name, type, f.columns[i].id), !.touched = TRUE])
  /\ UNCHANGED <<clicked, spoiled>>

\* Mutant: the second column moves up, too.
MoveAny(a, k) ==
  LET f == form[a] IN
  /\ k > 1
  /\ Change(a, [f EXCEPT !.order = [@ EXCEPT ![k] = f.order[k - 1], ![k - 1] = f.order[k]]])
  /\ spoiled' = [spoiled EXCEPT ![a] = IF f.alters THEN @ ELSE @ \cup {"ignored"}]
  /\ UNCHANGED clicked

\* onMoveUp, and onMoveDown of the column above; the primary key stays first.
Move(a, k) ==
  LET f == form[a] IN
  /\ k > 2
  /\ Change(a, [f EXCEPT !.order = [@ EXCEPT ![k] = f.order[k - 1], ![k - 1] = f.order[k]]])
  /\ spoiled' = [spoiled EXCEPT ![a] = IF f.alters THEN @ ELSE @ \cup {"ignored"}]
  /\ UNCHANGED clicked

\* Columns are append only: the deleted one is replaced by the marker.
onDelete(a, k) ==
  LET f == form[a]  i == f.order[k] IN
  /\ k > 1 /\ i <= Len(f.columns) + 1
  /\ Change(a, [f EXCEPT !.columns = Put(@, i, DELETED_COLUMN_MARKER), !.touched = TRUE,
                         !.order = RemoveAt(@, k)])
  /\ clicked' = [clicked EXCEPT ![a] = IF i \in DOMAIN f.source THEN @ \cup {f.source[i].name} ELSE @]
  /\ spoiled' = [spoiled EXCEPT ![a] = IF f.alters THEN @ ELSE @ \cup {"ignored"}]

\* newDefaultColumn's name is one that is not taken; which one is the admin's
\* choice anyway.  The column goes to the end of the columns, and the order
\* gets its own length, which is the new index only if nothing was deleted.
AddColumn(a, name) ==
  LET f == form[a] IN
  /\ f # Closed /\ name \notin NamesOf(f.columns)
  /\ Change(a, [f EXCEPT !.columns = Append(@, Column(name, DefaultType, 0)), !.touched = TRUE,
                         !.order = Append(@, Len(@) + 1)])
  /\ spoiled' = [spoiled EXCEPT ![a] =
                   IF Len(f.order) # Len(f.columns) THEN @ \cup {"added"} ELSE @]
  /\ UNCHANGED clicked

-----------------------------------------------------------------------------
(* Submitting the sheet: buildAlterTableOperations.                        *)

isDeleted(c) == c.marker
columnsEqual(c, d) == c.name = d.name /\ c.type = d.type

\* Columns of the source and of the sheet correspond by their index.
\* For a column that needs no operation, "keep" stands in the list.
OperationFor(f, i) ==
  LET c == f.columns[i] IN
  IF i <= Len(f.source)
  THEN CASE isDeleted(c) -> [op |-> "drop", name |-> f.source[i].name]
         [] ~isDeleted(c) /\ ~columnsEqual(f.source[i], c) ->
              [op |-> "alter", name |-> f.source[i].name, column |-> c]
         [] OTHER -> [op |-> "keep"]
  ELSE IF isDeleted(c) THEN [op |-> "keep"] ELSE [op |-> "add", column |-> c]

buildAlterTableOperations(f) == [i \in DOMAIN f.columns |-> OperationFor(f, i)]

\* Mutant: columns are compared with the first only.
columsReorderedFirst(f) == \E k \in 2 .. Len(f.order) : f.order[k] < f.order[1]

columsReordered(f) == \E k \in 2 .. Len(f.order) : f.order[k] < f.order[k - 1]

\* The list that is sent is empty.
NothingToDo(f) ==
  /\ \A i \in DOMAIN f.columns : buildAlterTableOperations(f)[i].op = "keep"
  /\ ~columsReordered(f)

filterAndOrderColumns(f) == [k \in DOMAIN f.order |-> f.columns[f.order[k]]]

-----------------------------------------------------------------------------
(* build_ephemeral_target_schema.                                          *)

Start(source) == [columns |-> source, ok |-> TRUE,
                  mapping |-> [name \in NamesOf(source) |-> name]]

Added(s, column) ==
  [columns |-> Append(s.columns, column),
   mapping |-> s.mapping,
   ok |-> s.ok /\ column.name \notin DOMAIN s.mapping]

\* Vec::retain: what is kept keeps its order.
Without(columns, name) ==
  LET kept == {i \in DOMAIN columns : columns[i].name # name}
      Place(i) == Cardinality({j \in kept : j <= i})
  IN [k \in 1 .. Cardinality(kept) |-> columns[CHOOSE i \in kept : Place(i) = k]]

Dropped(s, name) ==
  [columns |-> Without(s.columns, name),
   mapping |-> [source \in DOMAIN s.mapping \ {name} |-> s.mapping[source]],
   ok |-> s.ok /\ name \in DOMAIN s.mapping]

\* Mutant: the renamed column's data is not copied.
AlteredUncopied(s, name, column) ==
  LET pos == Named(s.columns, name) IN
  IF pos = 0 THEN [s EXCEPT !.ok = FALSE]
  ELSE [columns |-> [s.columns EXCEPT ![pos] = column],
        mapping |-> [source \in DOMAIN s.mapping \ ({name} \ {column.name}) |-> s.mapping[source]],
        ok |-> s.ok /\ (column.name = name \/ column.name \notin DOMAIN s.mapping)]

Altered(s, name, column) ==
  LET pos == Named(s.columns, name) IN
  IF pos = 0 THEN [s EXCEPT !.ok = FALSE]
  ELSE [columns |-> [s.columns EXCEPT ![pos] = column],
        mapping |-> [s.mapping EXCEPT ![name] = column.name],
        ok |-> s.ok /\ (column.name = name \/ column.name \notin DOMAIN s.mapping)]

Apply(s, o) ==
  CASE o.op = "add" -> Added(s, o.column)
    [] o.op = "drop" -> Dropped(s, o.name)
    [] o.op = "alter" -> Altered(s, o.name, o.column)
    [] o.op = "keep" -> s

\* The schema and the mapping after each of the operations, one after the other.
Schemas(f) ==
  LET ops == buildAlterTableOperations(f)
      schema[n \in 0 .. Len(f.columns)] ==
        IF n = 0 THEN Start(f.source) ELSE Apply(schema[n - 1], ops[n])
  IN schema

\* ChangeColumnOrder: every column has its place, every place its column.
Reordered(s, names) ==
  [s EXCEPT !.ok = @ /\ NamesOf(s.columns) = Range(names),
            !.columns = [k \in DOMAIN names |->
               IF names[k] \in NamesOf(@) THEN @[Named(@, names[k])] ELSE DELETED_COLUMN_MARKER]]

build_ephemeral_target_schema(f) ==
  LET s == Schemas(f)[Len(f.columns)]
      ordered == filterAndOrderColumns(f)
  IN IF columsReordered(f) THEN Reordered(s, [k \in DOMAIN ordered |-> ordered[k].name]) ELSE s

\* check_column_removals_invalidating_config.
DropsNoneInUse(f) ==
  \A i \in DOMAIN f.columns :
    LET o == buildAlterTableOperations(f)[i] IN o.op = "drop" => o.name \notin InUse

\* The SQL of the migration: CREATE TABLE, INSERT ... SELECT from the table as
\* it is by now, DROP TABLE, RENAME.
Executes(s) ==
  /\ s.ok /\ Distinct(s.columns) /\ s.columns # <<>>
  /\ DOMAIN s.mapping \subseteq NamesOf(table)
  /\ Range(s.mapping) \subseteq NamesOf(s.columns)

Fresh(columns) ==
  [k \in DOMAIN columns |-> Column(columns[k].name, columns[k].type, born + k)]

Copied(s) ==
  [k \in DOMAIN s.columns |->
     LET from == {source \in DOMAIN s.mapping : s.mapping[source] = s.columns[k].name}
     IN IF from = {} THEN Fresh(s.columns)[k]
        ELSE [Fresh(s.columns)[k] EXCEPT
                !.id = table[Named(table, CHOOSE source \in from : TRUE)].id]]

\* A rejected request leaves the sheet open and changes nothing.
Succeed(a, columns) ==
  /\ table' = columns /\ born' = born + Len(columns)
  /\ form' = [form EXCEPT ![a] = Closed]
  /\ schemas' = [schemas EXCEPT ![a] = columns]
  /\ done' = [done EXCEPT ![a] = @ + 1]
  /\ UNCHANGED <<edits, clicked, spoiled>>

Submits(a, alters) ==
  form[a] # Closed /\ form[a].alters = alters /\ done[a] < MaxAlterations

\* Nothing to do: the handler returns early.
SubmitUnchanged(a) ==
  /\ Submits(a, TRUE)
  /\ NothingToDo(form[a])
  /\ Succeed(a, table)

alter_table_handler(a) ==
  /\ Submits(a, TRUE)
  /\ ~NothingToDo(form[a])
  /\ columsReordered(form[a]) => Range(form[a].order) \subseteq DOMAIN form[a].columns
  /\ DropsNoneInUse(form[a])
  /\ LET s == build_ephemeral_target_schema(form[a])
     IN Executes(s) /\ Succeed(a, Copied(s))

\* The columns as they are, markers included; the order plays no part.
create_table_handler(a) ==
  /\ Submits(a, FALSE)
  /\ table = <<>> /\ Distinct(form[a].columns)
  /\ Succeed(a, Fresh(form[a].columns))

-----------------------------------------------------------------------------
Init ==
  /\ table \in {<<>>, FirstTable}
  /\ born = Len(FirstTable)
  /\ schemas = [a \in Admins |-> table]
  /\ form = [a \in Admins |-> Closed]
  /\ clicked = [a \in Admins |-> {}] /\ spoiled = [a \in Admins |-> {}]
  /\ done = [a \in Admins |-> 0]
  /\ edits = 0

Edit(a) ==
  \/ \E name \in Names :
       \/ AddColumn(a, name)
       \/ \E k \in Shown(a), type \in Types \cup {PrimaryKey} : EditColumn(a, k, name, type)
  \/ \E k \in Shown(a) : Move(a, k) \/ onDelete(a, k)

Submit(a) == SubmitUnchanged(a) \/ alter_table_handler(a) \/ create_table_handler(a)

Next == \E a \in Admins : Open(a) \/ Close(a) \/ Refetch(a) \/ Edit(a) \/ Submit(a)

Spec == Init /\ [][Next]_vars

-----------------------------------------------------------------------------
(* Properties.                                                             *)

\* Type invariant; whatever is submitted, the table has each name once and its
\* primary key first.
TypeOK ==
  /\ table \in Seq(Columns) /\ Distinct(table)
  /\ table # <<>> => table[1].type = PrimaryKey
  /\ \A a \in Admins :
       /\ schemas[a] \in Seq(Columns)
       /\ form[a] # Closed => /\ form[a].columns \in Seq(Columns)
                              /\ form[a].source \in Seq(Columns)
                              /\ form[a].order \in Seq(Nat \ {0})
  /\ clicked \in [Admins -> SUBSET (Names \cup {Deleted})]
  /\ spoiled \in [Admins -> SUBSET {"added", "refetched", "ignored"}]

\* Rows of the sheet and columns of the table: same names, types and data.
AsShown(shown, columns, known) ==
  /\ Len(shown) = Len(columns)
  /\ \A k \in DOMAIN shown :
       /\ shown[k].name = columns[k].name /\ shown[k].type = columns[k].type
       /\ IF shown[k].id = 0 THEN columns[k].id \notin known ELSE columns[k].id = shown[k].id

\* When the admin is told that the table was altered it has exactly the
\* columns the sheet showed, in that order, each with the data it had, unless
\* a column was added after a deletion, the page was fetched again under a
\* touched form, somebody else altered the table, or a new table's columns
\* were moved or deleted.
ShownIsStored ==
  [][\A a \in Admins :
       done'[a] # done[a] /\ spoiled[a] = {} /\ form[a].source = table =>
         AsShown(filterAndOrderColumns(form[a]), table', IdsOf(table))]_vars

\* An alteration destroys no column its admin's sheet had from the start and
\* in which "delete" was not clicked, however much the table, or what the
\* sheet shows, changed in the meantime; only after another fetch under a
\* touched form is this lost.
OnlyDeletedLost ==
  [][\A a \in Admins : done'[a] # done[a] /\ "refetched" \notin spoiled[a] =>
       \A k \in DOMAIN table : table[k].id \notin IdsOf(table') =>
         \/ table[k].name \notin NamesOf(form[a].source)
         \/ table[k].name \in clicked[a]]_vars
=============================================================================
