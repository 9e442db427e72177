---------------------------- MODULE RecordFiles ----------------------------
(***************************************************************************)
(* Uploaded files of records (crates/core/src/records/files.rs and         *)
(* write_queries.rs).  A file's contents are an object in an object store, *)
(* its metadata a value in a record's column, and nothing makes the two    *)
(* writes one: a request stores its objects first, then writes the record, *)
(* then deletes what its write replaced.  Triggers log replaced values in  *)
(* _file_deletions; what no request deletes a periodic job does.           *)
(*                                                                         *)
(* A file column holds a set of files, {} stands for NULL and Absent for   *)
(* no record.  Object ids are fresh UUIDs: no two requests share a file.   *)
(***************************************************************************)
EXTENDS FiniteSets

CONSTANTS
  Requests,    \* requests that write a record
  Records,     \* rowids of a table with a file column
  Files,       \* files that are uploaded
  Upload,      \* Upload[q]: the files in request q
  Earlier,     \* Earlier[r]: the file column of record r at the start
  Operations,  \* the operations a request may ask for
  Mishaps,     \* what may go wrong, each at most once
  Job,         \* the File Deletions job
  Absent,      \* no record
  None         \* no operation yet

AllOperations == {"insert", "replace", "update", "edit", "delete", "transaction"}
AllMishaps == {"put fails", "delete fails", "cleanup fails", "cancelled", "crash"}

ASSUME UploadAssumption ==
  /\ Upload \in [Requests -> SUBSET Files]
  /\ \A p, q \in Requests : p # q => Upload[p] \cap Upload[q] = {}
  /\ Earlier \in [Records -> {Absent} \cup (SUBSET Files)]
  /\ \A r, s \in Records :
       /\ Earlier[r] # Absent /\ Earlier[s] # Absent /\ r # s => Earlier[r] \cap Earlier[s] = {}
       /\ Earlier[r] # Absent => \A q \in Requests : Upload[q] \cap Earlier[r] = {}

ASSUME NamesAssumption ==
  /\ Operations \subseteq AllOperations
  /\ Mishaps \subseteq AllMishaps
  /\ Job \notin Requests
  /\ \A S \in SUBSET Files : Absent # S
  /\ None \notin AllOperations \cup AllMishaps

VARIABLES
  column,          \* column[r]: the file column of record r, or Absent
  file_deletions,  \* the table _file_deletions
  objects,         \* files in the object store
  op,              \* op[q]: the operation q asked for
  target,          \* target[q]: the record it is about
  phase,           \* how far a request is
  cleanup,         \* requests with an armed FileManager
  cleaning,        \* files that spawned cleanup tasks are to delete
  batch,           \* batch[a]: <<entry, file>> that a is about to delete
  errors,          \* errors[a]: entries of a with a failed deletion
  mishaps          \* what went wrong so far

database == <<column, file_deletions>>
requestVars == <<op, target, phase, cleanup>>
deleterVars == <<batch, errors>>
vars == <<database, objects, requestVars, cleaning, deleterVars, mishaps>>

Phases == {"idle", "storing", "queued", "running", "committed", "taking",
           "deleting", "done", "failed", "cancelled", "orphaned"}
Deleters == Requests \cup {Job}
Entries == [row : Records, files : (SUBSET Files) \ {{}}]

\* The operations whose files are uploaded before they run.
Uploading(q) == op[q] \in {"insert", "replace", "update"}

Mishap(m) ==
  /\ m \in Mishaps \ mishaps
  /\ mishaps' = mishaps \cup {m}

-----------------------------------------------------------------------------
(* Up to the write. *)

\* A handler parsed its request and checked access.
Begin(q) ==
  /\ phase[q] = "idle"
  /\ \E o \in Operations, r \in Records :
       /\ op' = [op EXCEPT ![q] = o]
       /\ target' = [target EXCEPT ![q] = r]
  /\ phase' = [phase EXCEPT ![q] =
       IF Uploading(q)' /\ Upload[q] # {} THEN "storing" ELSE "queued"]
  /\ UNCHANGED <<database, objects, cleanup, cleaning, deleterVars, mishaps>>

\* FileManager::write stores one more object; with the last one there is a
\* FileManager, and the query goes to the writer.
Put(q) ==
  /\ phase[q] = "storing"
  /\ \E f \in Upload[q] \ objects :
       /\ objects' = objects \cup {f}
       /\ IF Upload[q] \subseteq objects'
            THEN /\ phase' = [phase EXCEPT ![q] = "queued"]
                 /\ cleanup' = cleanup \cup {q}
            ELSE UNCHANGED <<phase, cleanup>>
  /\ UNCHANGED <<database, op, target, cleaning, deleterVars, mishaps>>

\* The object store fails: there is no FileManager yet to delete the
\* objects already stored.
PutFails(q) ==
  /\ phase[q] = "storing"
  /\ Mishap("put fails")
  /\ phase' = [phase EXCEPT ![q] = "failed"]
  /\ UNCHANGED <<database, objects, op, target, cleanup, cleaning, deleterVars>>

\* The writer thread found the caller still waiting (Executor!Finish): from
\* here the write goes on whatever happens to the caller.
Start(q) ==
  /\ phase[q] = "queued"
  /\ \A p \in Requests : phase[p] \notin {"running", "orphaned"}
  /\ phase' = [phase EXCEPT ![q] = "running"]
  /\ UNCHANGED <<database, objects, op, target, cleanup, cleaning, deleterVars, mishaps>>

-----------------------------------------------------------------------------
(* The write. *)

\* What operation o with files u makes of the value old; none if it cannot.
\* "edit" is an update from the admin UI, which may keep some of a record's
\* files.  "transaction" is a create or update of the transaction API, which
\* drops the files it was sent and stores their metadata.
NewValues(o, u, old) ==
  CASE o = "insert"  -> IF old = Absent THEN {u} ELSE {}
    [] o = "replace" -> {u}
    [] o = "update"  -> IF old = Absent THEN {} ELSE {IF u = {} THEN old ELSE u}
    [] o = "edit"    -> IF old = Absent THEN {} ELSE SUBSET old
    [] o = "delete"  -> IF old = Absent THEN {} ELSE {Absent}
    [] o = "transaction" -> {IF u = {} /\ old # Absent THEN old ELSE u}

\* Mutant: no trigger for deletions.
LoggedUpdates(o, r, old, new) ==
  IF o # "replace" /\ old \notin {Absent, {}} /\ new \notin {old, {}, Absent}
    THEN {[row |-> r, files |-> old]}
    ELSE {}

\* What the triggers log: SQLite runs none for rows that OR REPLACE removes
\* (recursive_triggers is off), and OLD != NEW is not true of a NULL.
Logged(o, r, old, new) ==
  IF o # "replace" /\ old \notin {Absent, {}} /\ new \notin {old, {}}
    THEN {[row |-> r, files |-> old]}
    ELSE {}

\* Nobody waits for the answer of a write whose caller was cancelled.
Answer(q, p) ==
  phase' = [phase EXCEPT ![q] = IF @ = "orphaned" THEN "cancelled" ELSE p]

\* The write and its triggers commit.
Apply(q) ==
  /\ phase[q] \in {"running", "orphaned"}
  /\ LET r == target[q]
         old == column[r]
     IN  \E new \in NewValues(op[q], Upload[q], old) :
           /\ column' = [column EXCEPT ![r] = new]
           /\ file_deletions' = file_deletions \cup Logged(op[q], r, old, new)
  /\ Answer(q, "committed")
  /\ UNCHANGED <<objects, op, target, cleanup, cleaning, deleterVars, mishaps>>

\* The files of q's FileManager, if it has one, go to a cleanup task.
DropManager(q) ==
  /\ cleaning' = cleaning \cup (IF q \in cleanup THEN Upload[q] ELSE {})
  /\ cleanup' = cleanup \ {q}

\* The write fails: a constraint, no such record, any error of SQLite.
Reject(q) ==
  /\ phase[q] \in {"running", "orphaned"}
  /\ Answer(q, "failed")
  /\ DropManager(q)
  /\ UNCHANGED <<database, objects, op, target, deleterVars, mishaps>>

-----------------------------------------------------------------------------
(* After the write. *)

\* Mutant: the FileManager is not released.
ResumeArmed(q) ==
  /\ phase[q] = "committed"
  /\ phase' = [phase EXCEPT ![q] = "done"]
  /\ DropManager(q)
  /\ UNCHANGED <<database, objects, op, target, deleterVars, mishaps>>

\* The caller has the answer and releases its FileManager.  Bulk inserts,
\* OR REPLACE and updates with files, and most deletions go on to delete
\* what the triggers logged for their row.
Resume(q) ==
  /\ phase[q] = "committed"
  /\ cleanup' = cleanup \ {q}
  /\ \E p \in {"taking", "done"} :
       /\ p = "taking" => q \in cleanup \/ op[q] = "delete"
       /\ p = "done" => q \notin cleanup \/ op[q] = "insert"
       /\ phase' = [phase EXCEPT ![q] = p]
  /\ UNCHANGED <<database, objects, op, target, cleaning, deleterVars, mishaps>>

\* a takes entries from the log: DELETE ... RETURNING.
Take(a, entries) ==
  /\ file_deletions' = file_deletions \ entries
  /\ batch' = [batch EXCEPT ![a] = {i \in entries \X Files : i[2] \in i[1].files}]

EntriesOf(r) == {e \in file_deletions : e.row = r}

\* delete_files_marked_for_deletion, for the row just written.
TakeMarked(q) ==
  /\ phase[q] = "taking"
  /\ Take(q, EntriesOf(target[q]))
  /\ phase' = [phase EXCEPT ![q] = "deleting"]
  /\ UNCHANGED <<column, objects, op, target, cleanup, cleaning, errors, mishaps>>

JobIdle == batch[Job] = {} /\ errors[Job] = {}

\* Mutant: the job gives up on columns of several files.
JobTakeSingles ==
  /\ JobIdle
  /\ \E entries \in SUBSET {e \in file_deletions : Cardinality(e.files) = 1} :
       entries # {} /\ Take(Job, entries)
  /\ UNCHANGED <<column, objects, requestVars, cleaning, errors, mishaps>>

\* delete_pending_files_job takes the entries that are old enough.
JobTake ==
  /\ JobIdle
  /\ \E entries \in SUBSET file_deletions : entries # {} /\ Take(Job, entries)
  /\ UNCHANGED <<column, objects, requestVars, cleaning, errors, mishaps>>

\* delete_pending_files_impl deletes one object, or finds none.
DeleteObject(a) ==
  /\ \E i \in batch[a] :
       /\ batch' = [batch EXCEPT ![a] = @ \ {i}]
       /\ objects' = objects \ {i[2]}
  /\ UNCHANGED <<database, requestVars, cleaning, errors, mishaps>>

\* The object store fails: the entry is kept to try again later.  It never
\* reaches ATTEMPTS_LIMIT, see RestoreErrors.
DeleteFails(a) ==
  /\ Mishap("delete fails")
  /\ \E i \in batch[a] :
       /\ batch' = [batch EXCEPT ![a] = @ \ {i}]
       /\ errors' = [errors EXCEPT ![a] = @ \cup {i[1]}]
  /\ UNCHANGED <<database, objects, requestVars, cleaning>>

\* The failed entries should go back to the log.  The INSERT names a column
\* record_row_id, the table's column is record_rowid: it always fails.
RestoreErrors(a) ==
  /\ batch[a] = {}
  /\ errors[a] # {}
  /\ errors' = [errors EXCEPT ![a] = {}]
  /\ UNCHANGED <<database, objects, requestVars, cleaning, batch, mishaps>>

\* The handler answers its client.
Done(q) ==
  /\ phase[q] = "deleting"
  /\ batch[q] = {} /\ errors[q] = {}
  /\ phase' = [phase EXCEPT ![q] = "done"]
  /\ UNCHANGED <<database, objects, op, target, cleanup, cleaning, deleterVars, mishaps>>

\* A cleanup task deletes a file of a request that did not get through.
Clean ==
  /\ \E f \in cleaning :
       /\ cleaning' = cleaning \ {f}
       /\ objects' = objects \ {f}
  /\ UNCHANGED <<database, requestVars, deleterVars, mishaps>>

\* It does not try again.
CleanFails ==
  /\ Mishap("cleanup fails")
  /\ \E f \in cleaning : cleaning' = cleaning \ {f}
  /\ UNCHANGED <<database, objects, requestVars, deleterVars>>

-----------------------------------------------------------------------------
(* Mishaps of the whole request. *)

\* The client went away: the handler's future is dropped where it waits.
\* A write that started goes on; so may the DELETE that takes log entries.
Cancel(q) ==
  /\ phase[q] \in {"storing", "queued", "running", "committed", "taking", "deleting"}
  /\ Mishap("cancelled")
  /\ phase' = [phase EXCEPT ![q] = IF @ = "running" THEN "orphaned" ELSE "cancelled"]
  /\ DropManager(q)
  /\ batch' = [batch EXCEPT ![q] = {}]
  /\ errors' = [errors EXCEPT ![q] = {}]
  /\ \/ UNCHANGED file_deletions
     \/ /\ phase[q] = "taking"
        /\ file_deletions' = file_deletions \ EntriesOf(target[q])
  /\ UNCHANGED <<column, objects, op, target>>

\* The process dies; the database and the object store stay.
Crash ==
  /\ Mishap("crash")
  /\ phase' = [q \in Requests |->
       IF phase[q] \in {"idle", "done", "failed"} THEN phase[q] ELSE "cancelled"]
  /\ cleanup' = {}
  /\ cleaning' = {}
  /\ batch' = [a \in Deleters |-> {}]
  /\ errors' = [a \in Deleters |-> {}]
  /\ UNCHANGED <<database, objects, op, target>>

-----------------------------------------------------------------------------

Init ==
  /\ column = Earlier
  /\ file_deletions = {}
  /\ objects = UNION {Earlier[r] : r \in {s \in Records : Earlier[s] # Absent}}
  /\ op = [q \in Requests |-> None]
  /\ target \in [Requests -> Records]
  /\ phase = [q \in Requests |-> "idle"]
  /\ cleanup = {}
  /\ cleaning = {}
  /\ batch = [a \in Deleters |-> {}]
  /\ errors = [a \in Deleters |-> {}]
  /\ mishaps = {}

\* The steps a request takes when nothing goes wrong, once it has begun.
Proceed(q) ==
  \/ Put(q)
  \/ Start(q)
  \/ Apply(q)
  \/ Reject(q)
  \/ Resume(q)
  \/ TakeMarked(q)
  \/ Done(q)

\* A deleter works through what it took.
Delete(a) == DeleteObject(a) \/ RestoreErrors(a)

Next ==
  \/ \E q \in Requests : Begin(q) \/ Proceed(q) \/ PutFails(q) \/ Cancel(q)
  \/ \E a \in Deleters : Delete(a) \/ DeleteFails(a)
  \/ JobTake
  \/ Clean
  \/ CleanFails
  \/ Crash

Spec == Init /\ [][Next]_vars

\* The runtime polls handlers and tasks, the writer thread runs, and the
\* job runs every hour.
Fairness ==
  /\ \A q \in Requests : WF_vars(Proceed(q))
  /\ \A a \in Deleters : WF_vars(Delete(a))
  /\ WF_vars(JobTake)
  /\ WF_vars(Clean)

LiveSpec == Spec /\ Fairness

-----------------------------------------------------------------------------
(* Properties. *)

\* Every variable has its type.
TypeOK ==
  /\ column \in [Records -> {Absent} \cup (SUBSET Files)]
  /\ file_deletions \subseteq Entries
  /\ objects \subseteq Files
  /\ op \in [Requests -> AllOperations \cup {None}]
  /\ target \in [Requests -> Records]
  /\ phase \in [Requests -> Phases]
  /\ cleanup \subseteq Requests
  /\ cleaning \subseteq Files
  /\ batch \in [Deleters -> SUBSET (Entries \X Files)]
  /\ errors \in [Deleters -> SUBSET Entries]
  /\ mishaps \subseteq AllMishaps

\* None of S happened so far: mishaps, and operations that were asked for.
Without(S) == (mishaps \cup {op[q] : q \in Requests}) \cap S = {}

Referenced(f) == \E r \in Records : column[r] # Absent /\ f \in column[r]

\* Somebody is to write f to a record, or to delete it.
InHand(f) ==
  \/ \E q \in Requests : f \in Upload[q] /\ (phase[q] = "storing" \/ q \in cleanup)
  \/ f \in cleaning
  \/ \E a \in Deleters : \E i \in batch[a] : i[2] = f
  \/ \E a \in Deleters : \E e \in errors[a] : f \in e.files
  \/ \E e \in file_deletions : f \in e.files

Dangling == {f \in Files : Referenced(f)} \ objects

Forgotten == {f \in objects : ~Referenced(f) /\ ~InHand(f)}

\* A record's files are in the object store, also after a crash and when the
\* object store fails, and no deletion hits a file in use.  Cancelled
\* requests, edits in the admin UI and the transaction API do break this.
NoDanglingReference ==
  Without({"cancelled", "edit", "transaction"}) => Dangling = {}

\* Without a mishap no object is forgotten, but for files that OR REPLACE
\* or an edit to NULL takes out of their record.
NothingForgotten ==
  Without(AllMishaps \cup {"replace", "edit"}) => Forgotten = {}

Garbage(f) ==
  /\ f \in objects /\ ~Referenced(f)
  /\ \A q \in Requests : phase[q] \in {"idle", "done", "failed"}

\* ... and an object is deleted some time after the last reference to it.
GarbageGoes ==
  \A f \in Files :
    Garbage(f) ~> f \notin objects \/ ~Without(AllMishaps \cup {"replace", "edit"})

\* CHANGELOG.md:1195 "Retry cleanups on transient object store isues."; a
\* deletion that failed is never tried again.
TransientErrorsRetried ==
  Without((AllMishaps \ {"delete fails"}) \cup {"replace", "edit"}) => Forgotten = {}
=============================================================================
