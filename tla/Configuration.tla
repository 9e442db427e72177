--------------------------- MODULE Configuration ---------------------------
(***************************************************************************)
(* The configuration: the admin UI's forms (crates/assets/js/admin/src,    *)
(* components/settings, components/tables, lib/api/config.ts), the         *)
(* handlers that change it (crates/core/src/admin), AppState and Reactive, *)
(* which hold and derive from it, its file, and the table schemas it is    *)
(* validated against.                                                      *)
(*                                                                         *)
(* A configuration maps its items to values: the fields of the settings    *)
(* forms to whoever wrote them last, databases to Linked or None, record   *)
(* APIs to their table or None.  Its hash is the configuration itself.     *)
(* Handlers run on several threads: each step below is one access to state *)
(* the others share.                                                       *)
(***************************************************************************)
EXTENDS Naturals, FiniteSets

CONSTANTS
  Admins,       \* browsers with the admin UI open, one request each at a time
  Hup,          \* the task that serves SIGHUP
  Server, Email, Providers, Jobs,   \* fields of the four settings forms
  Databases,    \* databases that can be linked
  Apis,         \* names of record APIs
  Tables,       \* names a table can have
  Attached,     \* those qualified with a database
  FirstTables,  \* tables at the start
  FirstConfig,  \* the configuration at the start
  FormsOf,      \* bound: the forms an admin works with
  Edits,        \* bound: <<field, value>> an admin may enter
  None, Half, Default,
  Linked,       \* a database's value
  Torn,         \* a file half written
  MaxRequests,  \* bound: requests of admins in a behaviour; after the last
                \* the admins do nothing any more
  MaxUpsets     \* bound: crashes and hangups in a behaviour

Fields == Server \cup Email \cup Providers \cup Jobs
Items == Fields \cup Databases \cup Apis
Handlers == Admins \cup {Hup}

Values == Admins \cup Tables \cup {None, Linked}
Configs == [Items -> Values]

\* A configuration with some of its items replaced.
Over(some, config) ==
  [i \in DOMAIN some \cup DOMAIN config |-> IF i \in DOMAIN some THEN some[i] ELSE config[i]]

ASSUME ConfigurationAssumption ==
  /\ Hup \notin Admins /\ None \notin Admins \cup Tables /\ {Half, Default} \cap Admins = {}
  /\ Attached \subseteq Tables /\ FirstTables \subseteq Tables
  /\ FirstConfig \in Configs /\ {None, Torn} \cap Configs = {}
  /\ \A n \in Apis : FirstConfig[n] \in FirstTables \cup {None}
  /\ FormsOf \in [Admins -> SUBSET {"server", "email", "auth", "jobs",
                                    "databases", "apis", "schema"}]
  /\ MaxRequests \in Nat /\ MaxUpsets \in Nat

VARIABLES
  up,        \* the server runs
  cfg,       \* AppState's configuration
  derived,   \* what the observers made of it: jobs, mailer, record APIs, ...
  file,      \* config.textproto
  tables,    \* the tables the database has
  recorded,  \* every migration applied to it has its file
  meta,      \* the connection manager's cached metadata
  req,       \* each handler's request
  cache,     \* what an admin's browser fetched last, with its hash
  form,      \* the settings form an admin has touched
  marked,    \* selectedRows of the databases' page
  requests, upsets,
  acked,     \* history: what admins were told each item is
  silent,    \* history: items a request changed, or left, against its form
  mishaps    \* history: what else went wrong

serverVars == <<up, cfg, derived, file, tables, recorded, meta>>
clientVars == <<cache, form, marked>>
counters == <<requests, upsets>>
history == <<acked, silent, mishaps>>
vars == <<serverVars, req, clientVars, counters, history>>

Idle == [op |-> "none", pc |-> "idle", new |-> None, hash |-> None, want |-> <<>>,
         snap |-> None, schema |-> {}, from |-> None, to |-> None]

FieldsOf(part) == CASE part = "server" -> Server [] part = "email" -> Email
                    [] part = "auth" -> Providers [] part = "jobs" -> Jobs

\* Names must be those of known tables; the rest of the checks is about the
\* form of single values, which the UI's own forms guarantee.
validate(c, m) == \A n \in Apis : c[n] \in m \cup {None}

-----------------------------------------------------------------------------
(* Every update: validate_and_update_config.                               *)

Step(p, pc) == req' = [req EXCEPT ![p].pc = pc]
End(p) == req' = [req EXCEPT ![p] = Idle]

\* Past the point where what it read can be overtaken, and not yet done.
Window(p) ==
  \/ req[p].pc \in {"store", "notify", "write"}
  \/ req[p].op = "reload" /\ req[p].pc \in {"validate", "load"}
  \/ req[p].op \in {"rename", "drop"} /\ req[p].pc # "migrated"

Overlaps(p) == \E q \in Handlers \ {p} : Window(q)
NoteOverlap(p) == mishaps' = IF Overlaps(p) THEN mishaps \cup {"overlap"} ELSE mishaps

\* A request fails: what it did so far stays.  A schema change that fails
\* leaves the configuration with the old schema's names.
Fail(p) ==
  /\ End(p)
  /\ mishaps' = mishaps \cup (IF req[p].op \in {"rename", "drop"} THEN {"schema"} ELSE {})
                        \cup (IF req[p].pc = "write" THEN {"unwritten"} ELSE {})
  /\ UNCHANGED <<serverVars, clientVars, counters, acked, silent>>

Validate(p) ==
  /\ req[p].pc = "validate"
  /\ \/ validate(req[p].new, meta) /\ Step(p, "load")
        /\ UNCHANGED <<serverVars, clientVars, counters, history>>
     \/ ~validate(req[p].new, meta) /\ Fail(p)

\* Mutant: any hash will do.
hashIgnored(p) == TRUE

hashMatches(p) == req[p].hash \in {None, cfg}

Load(p) ==
  /\ req[p].pc = "load"
  /\ \/ ~hashMatches(p) /\ Fail(p)
     \/ /\ hashMatches(p)
        /\ req' = [req EXCEPT ![p].pc = IF req[p].new = cfg THEN "write" ELSE "store",
                              ![p].snap = cfg]
        /\ NoteOverlap(p)
        /\ UNCHANGED <<serverVars, clientVars, counters, acked, silent>>

Store(p) ==
  /\ req[p].pc = "store" /\ Step(p, "notify")
  /\ cfg' = req[p].new
  /\ UNCHANGED <<up, derived, file, tables, recorded, meta, clientVars, counters, history>>

\* Mutant: the observers are given the configuration the update replaced.
NotifyReplaced(p) ==
  /\ req[p].pc = "notify"
  /\ derived' = req[p].snap
  /\ req' = [req EXCEPT ![p].pc = "write", ![p].snap = cfg]
  /\ UNCHANGED <<up, cfg, file, tables, recorded, meta, clientVars, counters, history>>

\* The observers run one update at a time, in the order they get the lock;
\* the configuration to write is read after that.
Notify(p) ==
  /\ req[p].pc = "notify"
  /\ derived' = req[p].new
  /\ req' = [req EXCEPT ![p].pc = "write", ![p].snap = cfg]
  /\ UNCHANGED <<up, cfg, file, tables, recorded, meta, clientVars, counters, history>>

\* The client is told: items written otherwise than its form showed.
Unlike(p) ==
  LET r == req[p] IN
  {i \in Items : IF i \in DOMAIN r.want THEN r.want[i] # r.new[i]
                 ELSE r.hash # None /\ r.new[i] # r.hash[i]}

Acknowledge(p) ==
  /\ acked' = Over(req[p].want, acked)
  /\ silent' = (silent \ DOMAIN req[p].want) \cup Unlike(p)

\* The form stays, touched, with its values.
Told(p) ==
  /\ form' = [a \in Admins |-> IF a = p /\ req[p].op = "update" /\ form[a] # None
                               THEN [form[a] EXCEPT !.edited = {}] ELSE form[a]]
  /\ UNCHANGED <<cache, marked>>

Succeed(p) == End(p) /\ Acknowledge(p) /\ Told(p)

\* Mutant: what is written is not validated.
WriteUnchecked(p) ==
  /\ req[p].pc = "write"
  /\ file' = req[p].snap
  /\ \/ req[p].op \in {"update", "reload"} /\ Succeed(p)
     \/ req[p].op \in {"rename", "drop"} /\ Step(p, "rebuild")
        /\ UNCHANGED <<acked, silent, clientVars>>
  /\ UNCHANGED <<up, cfg, derived, tables, recorded, meta, counters, mishaps>>

\* Mutant: the metadata is not rebuilt.
WriteOnly(p) ==
  /\ req[p].pc = "write" /\ validate(req[p].snap, meta)
  /\ file' = req[p].snap
  /\ Succeed(p)
  /\ UNCHANGED <<up, cfg, derived, tables, recorded, meta, counters, mishaps>>

Write(p) ==
  /\ req[p].pc = "write" /\ validate(req[p].snap, meta)
  /\ file' = req[p].snap
  /\ \/ req[p].op \in {"update", "reload"} /\ Succeed(p)
     \/ req[p].op \in {"rename", "drop"} /\ Step(p, "rebuild")
        /\ UNCHANGED <<acked, silent, clientVars>>
  /\ UNCHANGED <<up, cfg, derived, tables, recorded, meta, counters, mishaps>>

WriteFails(p) == req[p].pc = "write" /\ ~validate(req[p].snap, meta) /\ Fail(p)

-----------------------------------------------------------------------------
(* The schemas: AppState::rebuild_connection_metadata and the handlers     *)
(* that create, rename and drop tables.                                    *)

ReadSchema(p) ==
  /\ req[p].pc = "rebuild"
  /\ req' = [req EXCEPT ![p].pc = "install", ![p].schema = tables]
  /\ UNCHANGED <<serverVars, clientVars, counters, history>>

\* Another rebuild, or change of the schema, since the schema was read.
Outdated(p) == req[p].schema # tables

Install(p) ==
  /\ req[p].pc = "install"
  /\ meta' = req[p].schema
  /\ \/ req[p].op = "reload" /\ Step(p, "read") /\ UNCHANGED <<acked, silent, clientVars>>
     \/ req[p].op # "reload" /\ validate(cfg, meta') /\ Succeed(p)
     \/ req[p].op # "reload" /\ ~validate(cfg, meta') /\ End(p)
        /\ UNCHANGED <<acked, silent, clientVars>>
  /\ mishaps' = mishaps
       \cup (IF Outdated(p) THEN {"outdated"} ELSE {})
       \cup (IF req[p].op # "reload" /\ ~validate(cfg, meta') THEN {"schema"} ELSE {})
  /\ UNCHANGED <<up, cfg, derived, file, tables, recorded, counters>>

Ready(a) == up /\ req[a].pc = "idle" /\ requests < MaxRequests

Request(a, r) ==
  /\ Ready(a) /\ requests' = requests + 1
  /\ req' = [req EXCEPT ![a] = r]
  /\ UNCHANGED upsets

apisOn(t) == {n \in Apis : cfg[n] = t}

\* TransactionRecorder: the database is altered, and awaited, first.
apply_as_migration(a, op, from, to) ==
  /\ tables' = (tables \ {from}) \cup ({to} \ {None})
  /\ Request(a, [Idle EXCEPT !.op = op, !.pc = "migrated", !.from = from, !.to = to])
  /\ UNCHANGED <<up, cfg, derived, file, recorded, meta, clientVars, history>>

\* The migration's file is written; right after, the configuration is cloned,
\* with its hash, and its record APIs follow.
Migrated(a) ==
  /\ req[a].pc = "migrated"
  /\ LET want == [n \in apisOn(req[a].from) |-> req[a].to] IN
     \/ req[a].op = "create" /\ Step(a, "rebuild") /\ UNCHANGED mishaps
     \/ /\ req[a].op # "create"
        /\ req' = [req EXCEPT ![a].pc = "validate", ![a].new = Over(want, cfg),
                              ![a].hash = cfg, ![a].want = want]
        /\ NoteOverlap(a)
  /\ UNCHANGED <<serverVars, clientVars, counters, acked, silent>>

createTable(a, t) == t \in Tables \ tables /\ apply_as_migration(a, "create", None, t)

\* Within one database.
renameTable(a, t, u) ==
  /\ t \in tables /\ u \in Tables \ tables /\ (t \in Attached <=> u \in Attached)
  /\ apply_as_migration(a, "rename", t, u)

dropTable(a, t) == t \in tables /\ apply_as_migration(a, "drop", t, None)

-----------------------------------------------------------------------------
(* SIGHUP, crashes, and the start.                                         *)

Upset == upsets < MaxUpsets /\ upsets' = upsets + 1 /\ UNCHANGED requests

\* The admin's browser goes away while a schema change awaits the database:
\* the handler goes no further.
Cancel(a) ==
  /\ req[a].pc \in {"migrated", "rebuild", "install"} /\ Upset
  /\ End(a)
  /\ recorded' = (recorded /\ req[a].pc # "migrated")
  /\ mishaps' = mishaps \cup {"schema"}
  /\ UNCHANGED <<up, cfg, derived, file, tables, meta, clientVars, acked, silent>>

Hangup ==
  /\ up /\ req[Hup].pc = "idle" /\ Upset
  /\ req' = [req EXCEPT ![Hup] = [Idle EXCEPT !.op = "reload", !.pc = "rebuild"]]
  /\ UNCHANGED <<serverVars, clientVars, history>>

\* load_or_init_config_textproto.
loads(f, m) == f # Torn /\ validate(f, m)

Reload ==
  /\ req[Hup].pc = "read"
  /\ \/ loads(file, meta) /\ req' = [req EXCEPT ![Hup].pc = "validate", ![Hup].new = file]
     \/ ~loads(file, meta) /\ End(Hup)
  /\ NoteOverlap(Hup)
  /\ UNCHANGED <<serverVars, clientVars, counters, acked, silent>>

\* The process dies and is started again.  fs::write empties the file before
\* it fills it.  A start refuses a database with a migration it has no file of.
Crash ==
  /\ up /\ Upset
  /\ file' \in {file} \cup (IF \E p \in Handlers : req[p].pc = "write" THEN {Torn} ELSE {})
  /\ req' = [p \in Handlers |-> Idle]
  /\ meta' = tables
  /\ recorded' = (recorded /\ \A p \in Handlers : req[p].pc # "migrated")
  /\ up' = (recorded' /\ loads(file', tables))
  /\ cfg' = IF up' THEN file' ELSE cfg
  /\ derived' = cfg'
  /\ mishaps' = mishaps \cup
       (IF file' = Torn THEN {"torn"} ELSE {}) \cup
       (IF \E p \in Admins : req[p].op \in {"rename", "drop"} \/ req[p].pc = "migrated"
        THEN {"schema"} ELSE {})
  /\ UNCHANGED <<tables, clientVars, acked, silent>>

-----------------------------------------------------------------------------
(* The admin UI.                                                           *)

\* Every two minutes, on the refresh button, after an update.  An answer that
\* takes long is one more way to work with an old configuration: it counts as
\* there when the server gives it.  A touched form keeps its values.
getConfig(a) ==
  /\ up /\ cache[a] # cfg /\ requests < MaxRequests
  /\ cache' = [cache EXCEPT ![a] = cfg]
  /\ UNCHANGED <<serverVars, req, form, marked, counters, history>>

\* lib/api/config.ts: the hash is that of the configuration fetched last.
setConfig(a, config, want) ==
  /\ Request(a, [Idle EXCEPT !.op = "update", !.pc = "validate", !.new = config,
                             !.hash = cache[a], !.want = want])
  /\ UNCHANGED <<serverVars, cache, history>>

\* Jobs that are not configured show their built-in schedule.
buildFormProxy(c) == [j \in Jobs |-> IF c[j] = None THEN Default ELSE c[j]]
extractConfig(v) == [j \in Jobs |-> IF v[j] = Default THEN None ELSE v[j]]

\* Mutant: incomplete providers are stored as they are.
proxyToConfigAll(v) == v

\* Providers without id or secret are left out.
proxyToConfig(v) == [o \in Providers |-> IF v[o] = Half THEN None ELSE v[o]]

Shown(a, part) ==
  IF part = "jobs" THEN buildFormProxy(cache[a]) ELSE [f \in FieldsOf(part) |-> cache[a][f]]

\* Bound: one field is edited before each submission.
Edit(a, part, f, v) ==
  /\ requests < MaxRequests /\ part \in FormsOf[a] /\ f \in FieldsOf(part)
  /\ <<f, v>> \in Edits[a] /\ v \in {a} \cup (IF part = "auth" THEN {Half} ELSE {})
  /\ form[a] # None => form[a].part = part /\ form[a].edited = {}
  /\ LET values == IF form[a] = None THEN Shown(a, part) ELSE form[a].values
     IN form' = [form EXCEPT ![a] = [part |-> part, values |-> [values EXCEPT ![f] = v],
                                     edited |-> {f}]]
  /\ UNCHANGED <<serverVars, req, cache, marked, counters, history>>

\* ConfirmCloseDialog: the admin goes to another form.
Discard(a) ==
  /\ form[a] # None /\ Ready(a)
  /\ form' = [form EXCEPT ![a] = None]
  /\ UNCHANGED <<serverVars, req, cache, marked, counters, history>>

\* What a form's page sends: the site's and the e-mail's forms as they are.
extract(part, values) == CASE part = "auth" -> proxyToConfig(values)
                           [] part = "jobs" -> extractConfig(values)
                           [] OTHER -> values

\* The whole form over the configuration fetched last.
Submit(a) ==
  /\ form[a] # None /\ form[a].edited # {}
  /\ LET values == extract(form[a].part, form[a].values)
     IN setConfig(a, Over(values, cache[a]), [f \in form[a].edited |-> values[f]])
  /\ UNCHANGED <<form, marked>>

linkDb(a, d) ==
  /\ "databases" \in FormsOf[a] /\ cache[a][d] = None
  /\ LET linked == [e \in {d} |-> Linked] IN setConfig(a, Over(linked, cache[a]), linked)
  /\ UNCHANGED <<form, marked>>

SelectDb(a, d) ==
  /\ Ready(a) /\ "databases" \in FormsOf[a] /\ cache[a][d] = Linked
  /\ marked' = [marked EXCEPT ![a] = @ \cup {d}]
  /\ UNCHANGED <<serverVars, req, cache, form, counters, history>>

\* The selection is not cleared: a database linked again is unlinked with
\* the next one selected.
unlinkSelectedDbs(a) ==
  /\ marked[a] # {}
  /\ LET none == [d \in marked[a] |-> None] IN setConfig(a, Over(none, cache[a]), none)
  /\ UNCHANGED <<form, marked>>

\* Found by name alone: another table's API of that name becomes this one's.
updateRecordApiConfig(a, n, t) ==
  /\ "apis" \in FormsOf[a] /\ t \in tables
  /\ LET api == [m \in {n} |-> t] IN setConfig(a, Over(api, cache[a]), api)
  /\ UNCHANGED <<form, marked>>

\* Found by its table's name without the database.
removeRecordApiConfig(a, n) ==
  /\ "apis" \in FormsOf[a] /\ cache[a][n] # None
  /\ LET none == [m \in {n} |-> None]
     IN setConfig(a, IF cache[a][n] \in Attached THEN cache[a] ELSE Over(none, cache[a]), none)
  /\ UNCHANGED <<form, marked>>

-----------------------------------------------------------------------------
Init ==
  /\ up = TRUE
  /\ cfg = FirstConfig
  /\ derived = cfg /\ file = cfg /\ acked = cfg
  /\ tables = FirstTables /\ recorded = TRUE /\ meta = FirstTables
  /\ req = [p \in Handlers |-> Idle]
  /\ cache = [a \in Admins |-> cfg]
  /\ form = [a \in Admins |-> None] /\ marked = [a \in Admins |-> {}]
  /\ requests = 0 /\ upsets = 0
  /\ silent = {} /\ mishaps = {}

Update(p) ==
  \/ Validate(p) \/ Load(p) \/ Store(p) \/ Notify(p)
  \/ Write(p) \/ WriteFails(p)
Rebuild(p) == ReadSchema(p) \/ Install(p)
Handle(a) == Migrated(a) \/ Cancel(a)
Schema(a) ==
  \E t \in Tables : \/ createTable(a, t) \/ dropTable(a, t)
                    \/ \E u \in Tables : renameTable(a, t, u)
Settings(a) ==
  \/ \E part \in FormsOf[a] \ {"apis", "databases", "schema"} :
       \E f \in FieldsOf(part), v \in {a, Half} : Edit(a, part, f, v)
  \/ Discard(a) \/ Submit(a)
  \/ \E d \in Databases : linkDb(a, d) \/ SelectDb(a, d)
  \/ unlinkSelectedDbs(a)
  \/ \E n \in Apis : removeRecordApiConfig(a, n) \/ \E t \in Tables : updateRecordApiConfig(a, n, t)

Next ==
  \/ \E p \in Handlers : Update(p) \/ Rebuild(p)
  \/ \E a \in Admins : Handle(a) \/ getConfig(a) \/ Settings(a)
  \/ \E a \in Admins : "schema" \in FormsOf[a] /\ Schema(a)
  \/ Hangup \/ Reload \/ Crash

Spec == Init /\ [][Next]_vars

-----------------------------------------------------------------------------
(* Properties.                                                             *)

Requests == [op : {"none", "update", "create", "rename", "drop", "reload"},
             pc : {"idle", "migrated", "validate", "load", "store", "notify", "write",
                   "rebuild", "install", "read"},
             new : Configs \cup {None}, hash : Configs \cup {None},
             want : {req[p].want : p \in Handlers},
             snap : Configs \cup {None}, schema : SUBSET Tables,
             from : Tables \cup {None}, to : Tables \cup {None}]

\* What a configuration form shows besides values that are stored.
Entered(part) == Values \cup (IF part = "auth" THEN {Half} ELSE {})
                        \cup (IF part = "jobs" THEN {Default} ELSE {})
Forms == UNION {[part : {part}, values : [FieldsOf(part) -> Entered(part)],
                 edited : SUBSET FieldsOf(part)] : part \in {"server", "email", "auth", "jobs"}}

\* Values for some of the items.
IsPart(some) == DOMAIN some \subseteq Items /\ \A i \in DOMAIN some : some[i] \in Values

\* Type invariant.
TypeOK ==
  /\ up \in BOOLEAN /\ cfg \in Configs /\ derived \in Configs /\ file \in Configs \cup {Torn}
  /\ tables \subseteq Tables /\ recorded \in BOOLEAN /\ meta \subseteq Tables
  /\ req \in [Handlers -> Requests] /\ \A p \in Handlers : IsPart(req[p].want)
  /\ cache \in [Admins -> Configs] /\ form \in [Admins -> Forms \cup {None}]
  /\ marked \in [Admins -> SUBSET Databases]
  /\ acked \in Configs /\ silent \subseteq Items
  /\ mishaps \subseteq {"overlap", "schema", "unwritten", "outdated", "torn"}

Quiet == \A p \in Handlers : req[p].pc = "idle"
Without(what) == mishaps \cap what = {}

\* What an admin was told was saved stays saved, across restarts too, unless
\* two updates overlapped, a schema change failed halfway, or a form wrote an
\* item it showed as it had been before somebody else's edit.
EditsKept ==
  (up /\ Quiet /\ Without({"overlap", "unwritten", "schema"}))
    => \A i \in Items : (cfg[i] = acked[i] \/ i \in silent)

\* When nothing is under way, the file and everything derived agree with the
\* configuration, unless two updates overlapped.
QuietAgrees ==
  (up /\ Quiet /\ Without({"overlap", "unwritten"})) => (file = cfg /\ derived = cfg)

\* A restarted server finds a configuration and a database it can start with,
\* unless it was killed while writing the file, a schema change failed, was cut
\* short or overlapped, or the file was written while the cached schemas were
\* those of before a change.
StartsAgain == up \/ ~Without({"torn", "schema", "overlap", "outdated"})

\* When nothing is under way, the cached schemas are those of the database,
\* unless a schema change failed or a rebuild was overtaken.
MetadataFresh == up /\ Quiet /\ Without({"schema", "outdated"}) => meta = tables

\* Renaming a table takes its record APIs along: nothing under way, no API
\* names a table that is not there.
RenameKeepsApis == up /\ Quiet => \A n \in Apis : cfg[n] \in tables \cup {None}
=============================================================================
