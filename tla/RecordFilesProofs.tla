------------------------- MODULE RecordFilesProofs -------------------------
(***************************************************************************)
(* Theorems about RecordFiles, for any requests, records, files, uploads   *)
(* and mishaps.                                                            *)
(***************************************************************************)
EXTENDS RecordFiles, TLAPS

Columns == {Absent} \cup (SUBSET Files)

\* A request without an operation has not begun, one that stores has files to
\* store, and a write goes on without its caller only after a cancellation.
Begun ==
  \A q \in Requests :
    /\ phase[q] = "idle" <=> op[q] = None
    /\ phase[q] = "storing" => Uploading(q)
    /\ phase[q] = "orphaned" => "cancelled" \in mishaps

TypeInv == TypeOK /\ Begun

-----------------------------------------------------------------------------
(* Type correctness. *)

\* A write leaves a file column or no record.
LEMMA NewValuesFacts ==
  ASSUME NEW o \in AllOperations, NEW u \in SUBSET Files, NEW old \in Columns,
         NEW new \in NewValues(o, u, old)
  PROVE  new \in Columns
<1>1. CASE o = "insert"
  BY <1>1 DEF NewValues, Columns
<1>2. CASE o = "replace"
  BY <1>2 DEF NewValues, Columns
<1>3. CASE o = "update"
  BY <1>3 DEF NewValues, Columns
<1>4. CASE o = "edit"
  BY <1>4 DEF NewValues, Columns
<1>5. CASE o = "delete"
  BY <1>5 DEF NewValues, Columns
<1>6. CASE o = "transaction"
  BY <1>6 DEF NewValues, Columns
<1> QED
  BY <1>1, <1>2, <1>3, <1>4, <1>5, <1>6 DEF AllOperations

\* The triggers log entries for replaced files.
LEMMA LoggedFacts ==
  ASSUME NEW o, NEW r \in Records, NEW old \in Columns, NEW new
  PROVE  /\ Logged(o, r, old, new) \subseteq Entries
         /\ \A e \in Logged(o, r, old, new) :
              /\ e.files = old /\ old # Absent /\ old # new
              /\ o # "replace"
  BY DEF Logged, Entries, Columns

LEMMA TypeInit == Init => TypeInv
<1> SUFFICES ASSUME Init PROVE TypeInv
  OBVIOUS
<1>1. TypeOK
  BY UploadAssumption DEF Init, TypeOK, Phases, Entries, Deleters
<1>2. Begun
  BY NamesAssumption DEF Init, Begun, Uploading, AllOperations
<1> QED
  BY <1>1, <1>2 DEF TypeInv

\* Each variable's type is kept by a step that leaves it alone.
LEMMA TypeBegin ==
  ASSUME TypeInv, NEW q \in Requests, Begin(q)
  PROVE  TypeInv'
<1>1. PICK o \in Operations, r \in Records :
        op' = [op EXCEPT ![q] = o] /\ target' = [target EXCEPT ![q] = r]
  BY DEF Begin
<1>2. \E p \in {"storing", "queued"} :
        /\ phase' = [phase EXCEPT ![q] = p]
        /\ p = "storing" => Uploading(q)'
  BY DEF Begin
<1>3. UNCHANGED <<database, objects, cleanup, cleaning, deleterVars, mishaps>>
  BY DEF Begin
<1>4. TypeOK'
  BY <1>1, <1>2, <1>3, NamesAssumption DEF TypeInv, TypeOK, database, deleterVars, Phases
<1>5. Begun'
  BY <1>1, <1>2, <1>3, NamesAssumption DEF TypeInv, TypeOK, Begun, Uploading
<1> QED
  BY <1>4, <1>5 DEF TypeInv

LEMMA TypePhase ==
  ASSUME TypeInv, NEW q \in Requests, NEW p \in Phases,
         phase[q] # "idle", p \notin {"idle", "storing", "orphaned"},
         phase' = [phase EXCEPT ![q] = p],
         UNCHANGED op, mishaps \subseteq mishaps'
  PROVE  Begun' /\ phase' \in [Requests -> Phases]
  BY DEF TypeInv, TypeOK, Begun, Uploading, Phases

\* Taking entries from the log.
LEMMA TypeTake ==
  ASSUME TypeOK, NEW a \in Deleters, NEW entries \in SUBSET file_deletions,
         Take(a, entries)
  PROVE  /\ file_deletions' \subseteq Entries
         /\ batch' \in [Deleters -> SUBSET (Entries \X Files)]
<1>1. {i \in entries \X Files : i[2] \in i[1].files} \subseteq Entries \X Files
  BY DEF TypeOK
<1> QED
  BY <1>1 DEF TypeOK, Take

LEMMA TypeApply ==
  ASSUME TypeInv, NEW q \in Requests, Apply(q)
  PROVE  TypeInv'
<1> DEFINE r == target[q]
<1>1. r \in Records /\ column[r] \in Columns /\ op[q] \in AllOperations
  BY DEF TypeInv, TypeOK, Begun, Apply, Columns
<1>2. PICK new \in NewValues(op[q], Upload[q], column[r]) :
        /\ column' = [column EXCEPT ![r] = new]
        /\ file_deletions' = file_deletions \cup Logged(op[q], r, column[r], new)
  BY DEF Apply
<1>3. Upload[q] \in SUBSET Files
  BY UploadAssumption
<1>4. new \in Columns
  BY <1>1, <1>2, <1>3, NewValuesFacts
<1>5. Logged(op[q], r, column[r], new) \subseteq Entries
  BY <1>1, LoggedFacts
<1>6. column' \in [Records -> {Absent} \cup (SUBSET Files)]
  BY <1>1, <1>2, <1>4 DEF TypeInv, TypeOK, Columns
<1>7. file_deletions' \subseteq Entries
  BY <1>2, <1>5 DEF TypeInv, TypeOK
<1>8. PICK p \in {"cancelled", "committed"} : phase' = [phase EXCEPT ![q] = p]
  BY DEF Apply, Answer
<1>9. UNCHANGED <<objects, op, target, cleanup, cleaning, deleterVars, mishaps>>
  BY DEF Apply
<1>10. phase[q] # "idle"
  BY DEF Apply
<1>11. Begun' /\ phase' \in [Requests -> Phases]
  BY <1>8, <1>9, <1>10, TypePhase DEF Phases
<1> QED
  BY <1>6, <1>7, <1>9, <1>11 DEF TypeInv, TypeOK, deleterVars

LEMMA TypeRequest ==
  ASSUME TypeInv, NEW q \in Requests, Begin(q) \/ Proceed(q) \/ PutFails(q) \/ Cancel(q)
  PROVE  TypeInv'
<1> USE DEF database, deleterVars
<1>1. CASE Begin(q)
  BY <1>1, TypeBegin
<1>2. CASE Put(q)
  <2>1. objects' \subseteq Files
    BY <1>2, UploadAssumption DEF Put, TypeInv, TypeOK
  <2>2. \/ UNCHANGED phase
        \/ phase' = [phase EXCEPT ![q] = "queued"]
    BY <1>2 DEF Put
  <2>3. Begun' /\ phase' \in [Requests -> Phases]
    <3>1. CASE UNCHANGED phase
      BY <1>2, <3>1 DEF Put, TypeInv, TypeOK, Begun, Uploading
    <3>2. CASE phase' = [phase EXCEPT ![q] = "queued"]
      BY <1>2, <3>2, TypePhase DEF Put, Phases
    <3> QED
      BY <2>2, <3>1, <3>2
  <2> QED
    BY <1>2, <2>1, <2>3 DEF Put, TypeInv, TypeOK
<1>3. CASE Start(q)
  <2>1. Begun' /\ phase' \in [Requests -> Phases]
    BY <1>3, TypePhase DEF Start, Phases
  <2> QED
    BY <1>3, <2>1 DEF Start, TypeInv, TypeOK
<1>4. CASE Apply(q)
  BY <1>4, TypeApply
<1>5. CASE Reject(q)
  <2>1. PICK p \in {"cancelled", "failed"} : phase' = [phase EXCEPT ![q] = p]
    BY <1>5 DEF Reject, Answer
  <2>2. Begun' /\ phase' \in [Requests -> Phases]
    BY <1>5, <2>1, TypePhase DEF Reject, Phases
  <2>3. cleaning' \subseteq Files /\ cleanup' \subseteq Requests
    BY <1>5, UploadAssumption DEF Reject, DropManager, TypeInv, TypeOK
  <2> QED
    BY <1>5, <2>2, <2>3 DEF Reject, TypeInv, TypeOK
<1>6. CASE Resume(q)
  <2>1. PICK p \in {"taking", "done"} : phase' = [phase EXCEPT ![q] = p]
    BY <1>6 DEF Resume
  <2>2. Begun' /\ phase' \in [Requests -> Phases]
    BY <1>6, <2>1, TypePhase DEF Resume, Phases
  <2> QED
    BY <1>6, <2>2 DEF Resume, TypeInv, TypeOK
<1>7. CASE TakeMarked(q)
  <2>1. Begun' /\ phase' \in [Requests -> Phases]
    BY <1>7, TypePhase DEF TakeMarked, Phases
  <2>2. file_deletions' \subseteq Entries /\ batch' \in [Deleters -> SUBSET (Entries \X Files)]
    BY <1>7, TypeTake DEF TakeMarked, EntriesOf, TypeInv, Deleters
  <2> QED
    BY <1>7, <2>1, <2>2 DEF TakeMarked, TypeInv, TypeOK
<1>8. CASE Done(q)
  <2>1. Begun' /\ phase' \in [Requests -> Phases]
    BY <1>8, TypePhase DEF Done, Phases
  <2> QED
    BY <1>8, <2>1 DEF Done, TypeInv, TypeOK
<1>9. CASE PutFails(q)
  <2>1. mishaps' \subseteq AllMishaps /\ mishaps \subseteq mishaps'
    BY <1>9, NamesAssumption DEF PutFails, Mishap, TypeInv, TypeOK
  <2>2. Begun' /\ phase' \in [Requests -> Phases]
    BY <1>9, <2>1, TypePhase DEF PutFails, Phases
  <2> QED
    BY <1>9, <2>1, <2>2 DEF PutFails, TypeInv, TypeOK
<1>10. CASE Cancel(q)
  <2>1. mishaps' \subseteq AllMishaps /\ mishaps \subseteq mishaps' /\ "cancelled" \in mishaps'
    BY <1>10, NamesAssumption DEF Cancel, Mishap, TypeInv, TypeOK
  <2>2. PICK p \in {"orphaned", "cancelled"} : phase' = [phase EXCEPT ![q] = p]
    BY <1>10 DEF Cancel
  <2>3. phase[q] # "idle" /\ UNCHANGED op
    BY <1>10 DEF Cancel
  <2>4. Begun' /\ phase' \in [Requests -> Phases]
    BY <2>1, <2>2, <2>3 DEF TypeInv, TypeOK, Begun, Uploading, Phases
  <2>5. cleaning' \subseteq Files /\ cleanup' \subseteq Requests
    BY <1>10, UploadAssumption DEF Cancel, DropManager, TypeInv, TypeOK
  <2>6. /\ batch' \in [Deleters -> SUBSET (Entries \X Files)]
        /\ errors' \in [Deleters -> SUBSET Entries]
    BY <1>10 DEF Cancel, TypeInv, TypeOK
  <2>7. file_deletions' \subseteq Entries
    BY <1>10 DEF Cancel, TypeInv, TypeOK
  <2> QED
    BY <1>10, <2>1, <2>4, <2>5, <2>6, <2>7 DEF Cancel, TypeInv, TypeOK
<1> QED
  BY <1>1, <1>2, <1>3, <1>4, <1>5, <1>6, <1>7, <1>8, <1>9, <1>10 DEF Proceed

LEMMA TypeOthers ==
  ASSUME TypeInv,
         \/ \E a \in Deleters : Delete(a) \/ DeleteFails(a)
         \/ JobTake \/ Clean \/ CleanFails \/ Crash
  PROVE  TypeInv'
<1> USE DEF database, deleterVars, requestVars
<1>1. CASE \E a \in Deleters : Delete(a) \/ DeleteFails(a)
  <2>1. PICK a \in Deleters : Delete(a) \/ DeleteFails(a)
    BY <1>1
  <2>2. CASE DeleteObject(a)
    <3>1. PICK i \in batch[a] : /\ batch' = [batch EXCEPT ![a] = batch[a] \ {i}]
                                /\ objects' = objects \ {i[2]}
      BY <2>2 DEF DeleteObject
    <3>2. batch' \in [Deleters -> SUBSET (Entries \X Files)]
      BY <3>1 DEF TypeInv, TypeOK
    <3> QED
      BY <2>2, <3>1, <3>2 DEF DeleteObject, TypeInv, TypeOK, Begun, Uploading
  <2>3. CASE RestoreErrors(a)
    BY <2>3 DEF RestoreErrors, TypeInv, TypeOK, Begun, Uploading
  <2>4. CASE DeleteFails(a)
    <3>1. mishaps' \subseteq AllMishaps /\ mishaps \subseteq mishaps'
      BY <2>4, NamesAssumption DEF DeleteFails, Mishap, TypeInv, TypeOK
    <3>2. PICK i \in batch[a] : /\ batch' = [batch EXCEPT ![a] = batch[a] \ {i}]
                                /\ errors' = [errors EXCEPT ![a] = errors[a] \cup {i[1]}]
      BY <2>4 DEF DeleteFails
    <3>3. i \in Entries \X Files
      BY <3>2 DEF TypeInv, TypeOK
    <3>4. batch' \in [Deleters -> SUBSET (Entries \X Files)]
      BY <3>2 DEF TypeInv, TypeOK
    <3>5. errors' \in [Deleters -> SUBSET Entries]
      BY <3>2, <3>3 DEF TypeInv, TypeOK
    <3> QED
      BY <2>4, <3>1, <3>4, <3>5 DEF DeleteFails, TypeInv, TypeOK, Begun, Uploading
  <2> QED
    BY <2>1, <2>2, <2>3, <2>4 DEF Delete
<1>2. CASE JobTake
  <2>1. file_deletions' \subseteq Entries /\ batch' \in [Deleters -> SUBSET (Entries \X Files)]
    BY <1>2, TypeTake DEF JobTake, TypeInv, Deleters
  <2> QED
    BY <1>2, <2>1 DEF JobTake, TypeInv, TypeOK, Begun, Uploading
<1>3. CASE Clean
  BY <1>3 DEF Clean, TypeInv, TypeOK, Begun, Uploading
<1>4. CASE CleanFails
  <2>1. mishaps' \subseteq AllMishaps /\ mishaps \subseteq mishaps'
    BY <1>4, NamesAssumption DEF CleanFails, Mishap, TypeInv, TypeOK
  <2> QED
    BY <1>4, <2>1 DEF CleanFails, TypeInv, TypeOK, Begun, Uploading
<1>5. CASE Crash
  <2>1. mishaps' \subseteq AllMishaps /\ mishaps \subseteq mishaps'
    BY <1>5, NamesAssumption DEF Crash, Mishap, TypeInv, TypeOK
  <2>2. \A q \in Requests : phase'[q] \in {phase[q], "cancelled"}
                            /\ (phase[q] = "idle" <=> phase'[q] = "idle")
    BY <1>5 DEF Crash
  <2>3. phase' \in [Requests -> Phases]
    BY <1>5, <2>2 DEF Crash, TypeInv, TypeOK, Phases
  <2>4. Begun'
    BY <1>5, <2>1, <2>2 DEF Crash, TypeInv, Begun, Uploading
  <2> QED
    BY <1>5, <2>1, <2>3, <2>4 DEF Crash, TypeInv, TypeOK
<1> QED
  BY <1>1, <1>2, <1>3, <1>4, <1>5

LEMMA TypeStep ==
  ASSUME TypeInv, [Next]_vars
  PROVE  TypeInv'
<1>1. CASE UNCHANGED vars
  BY <1>1 DEF vars, database, requestVars, deleterVars, TypeInv, TypeOK, Begun, Uploading
<1>2. CASE Next
  BY <1>2, TypeRequest, TypeOthers DEF Next
<1> QED
  BY <1>1, <1>2

\* Every variable keeps its type (RecordFiles!TypeOK).
THEOREM TypeCorrect == Spec => []TypeOK
<1>1. Spec => []TypeInv
  BY TypeInit, TypeStep, PTL DEF Spec
<1>2. TypeInv => TypeOK
  BY DEF TypeInv
<1> QED
  BY <1>1, <1>2, PTL

-----------------------------------------------------------------------------
(* What happened so far stays. *)

\* A step forgets no mishap, and a request asks for its operation once.
LEMMA HistoryGrows ==
  ASSUME TypeInv, [Next]_vars
  PROVE  /\ mishaps \subseteq mishaps'
         /\ \A q \in Requests : op'[q] # op[q] => op[q] = None
<1> USE DEF requestVars, deleterVars, database
<1>1. CASE UNCHANGED vars
  BY <1>1 DEF vars
<1>2. ASSUME NEW q \in Requests, Begin(q)
      PROVE  /\ mishaps \subseteq mishaps'
             /\ \A p \in Requests : op'[p] # op[p] => op[p] = None
  <2>1. PICK o \in Operations : op' = [op EXCEPT ![q] = o]
    BY <1>2 DEF Begin
  <2>2. op[q] = None /\ UNCHANGED mishaps
    BY <1>2 DEF Begin, TypeInv, Begun
  <2> QED
    BY <2>1, <2>2 DEF TypeInv, TypeOK
<1>3. ASSUME NEW q \in Requests, Proceed(q) \/ PutFails(q) \/ Cancel(q)
      PROVE  mishaps \subseteq mishaps' /\ UNCHANGED op
  BY <1>3 DEF Proceed, Put, Start, Apply, Reject, Resume, TakeMarked, Done,
              PutFails, Cancel, Mishap
<1>4. ASSUME NEW a \in Deleters, Delete(a) \/ DeleteFails(a)
      PROVE  mishaps \subseteq mishaps' /\ UNCHANGED op
  BY <1>4 DEF Delete, DeleteObject, RestoreErrors, DeleteFails, Mishap
<1>5. CASE JobTake \/ Clean \/ CleanFails \/ Crash
  BY <1>5 DEF JobTake, Clean, CleanFails, Crash, Mishap
<1> QED
  BY <1>1, <1>2, <1>3, <1>4, <1>5 DEF Next

\* What has not happened after a step had not happened before.
LEMMA WithoutBefore ==
  ASSUME TypeInv, [Next]_vars, NEW S, None \notin S, Without(S)'
  PROVE  Without(S)
<1>1. /\ mishaps \subseteq mishaps'
      /\ \A q \in Requests : op'[q] # op[q] => op[q] = None
  BY HistoryGrows
<1> QED
  BY <1>1 DEF Without

-----------------------------------------------------------------------------
(* References. *)

\* A deletion of f is under way, or logged.
Doomed(f) ==
  \/ f \in cleaning
  \/ \E a \in Deleters : \E i \in batch[a] : i[2] = f
  \/ \E e \in file_deletions : f \in e.files

Holds(r, f) == column[r] # Absent /\ f \in column[r]

\* The write of q may still come.
Pending(q) == phase[q] \in {"idle", "storing", "queued", "running"}

\* q's write may start, or has, and is to refer to uploaded files.
Uploaded(q) == phase[q] \in {"queued", "running"} /\ Uploading(q)

\* What a record refers to is stored, and nobody is to delete it.
HeldIsSafe ==
  \A r \in Records, f \in Files : Holds(r, f) => f \in objects /\ ~Doomed(f)

\* No two records share a file.
HeldOnce ==
  \A r, s \in Records, f \in Files : Holds(r, f) /\ Holds(s, f) => r = s

\* The files of a write that may still come belong to nobody else ...
PendingIsOwn ==
  \A q \in Requests : Pending(q) => \A f \in Upload[q] :
    ~Doomed(f) /\ \A r \in Records : ~Holds(r, f)

\* ... and are stored before it starts.
PendingIsStored ==
  \A q \in Requests : Uploaded(q) => Upload[q] \subseteq objects

Breaking == {"cancelled", "edit", "transaction"}
Safe == HeldIsSafe /\ HeldOnce /\ PendingIsOwn /\ PendingIsStored
ReferenceInv == TypeInv /\ (Without(Breaking) => Safe)

LEMMA ReferenceInit == Init => ReferenceInv
<1> SUFFICES ASSUME Init PROVE Safe
  BY TypeInit DEF ReferenceInv
<1>1. \A f : ~Doomed(f)
  BY DEF Init, Doomed
<1>2. HeldIsSafe
  BY <1>1 DEF Init, HeldIsSafe, Holds
<1>3. HeldOnce
  BY UploadAssumption DEF Init, HeldOnce, Holds
<1>4. PendingIsOwn
  BY <1>1, UploadAssumption DEF Init, PendingIsOwn, Holds
<1>5. PendingIsStored
  BY DEF Init, PendingIsStored, Uploaded
<1> QED
  BY <1>2, <1>3, <1>4, <1>5 DEF Safe

\* A step that writes no record and dooms no file keeps references safe, if
\* it deletes doomed objects only and writes come after their files.
LEMMA SafeKept ==
  ASSUME TypeInv, Safe,
         UNCHANGED column,
         \A f \in Files : Doomed(f)' => Doomed(f),
         \A f \in objects \ objects' : Doomed(f),
         \A q \in Requests : Pending(q)' => Pending(q),
         \A q \in Requests : Uploaded(q)' => Uploaded(q) \/ Upload[q] \subseteq objects'
  PROVE  Safe'
<1>1. HeldIsSafe'
  BY DEF Safe, HeldIsSafe, Holds
<1>2. HeldOnce'
  BY DEF Safe, HeldOnce, Holds
<1>3. PendingIsOwn'
  BY UploadAssumption DEF Safe, PendingIsOwn, Holds
<1>4. PendingIsStored'
  <2> SUFFICES ASSUME NEW q \in Requests, Uploaded(q)
               PROVE  Upload[q] \subseteq objects'
    BY DEF PendingIsStored
  <2>1. Upload[q] \subseteq objects
    BY DEF Safe, PendingIsStored
  <2>2. \A f \in Upload[q] : ~Doomed(f)
    BY DEF Safe, PendingIsOwn, Uploaded, Pending
  <2> QED
    BY <2>1, <2>2
<1> QED
  BY <1>1, <1>2, <1>3, <1>4 DEF Safe

\* The write: the record's new files were the request's own, and what it
\* replaces no record refers to any more.
LEMMA SafeApply ==
  ASSUME TypeInv, Safe, Without(Breaking), NEW q \in Requests, Apply(q)
  PROVE  Safe'
<1> DEFINE r == target[q]
           old == column[r]
<1>1. /\ r \in Records /\ old \in Columns
      /\ op[q] \in {"insert", "replace", "update", "delete"}
  BY SMTT(40) DEF TypeInv, TypeOK, Begun, Apply, Columns, Without, Breaking, AllOperations
<1>2. PICK new \in NewValues(op[q], Upload[q], old) :
        /\ column' = [column EXCEPT ![r] = new]
        /\ file_deletions' = file_deletions \cup Logged(op[q], r, old, new)
  BY DEF Apply
<1>3. phase[q] = "running"
  BY DEF Apply, TypeInv, Begun, Without, Breaking
<1>4. \/ new = Absent
      \/ new = old
      \/ new = Upload[q] /\ Uploading(q)
  BY <1>1, <1>2 DEF NewValues, Uploading
<1>5. phase' = [phase EXCEPT ![q] = "committed"]
  BY <1>3 DEF Apply, Answer
<1>6. UNCHANGED <<objects, op, cleaning, batch>>
  BY DEF Apply, deleterVars
<1>7. /\ \A f \in Upload[q] : ~Doomed(f) /\ \A s \in Records : ~Holds(s, f)
      /\ Uploading(q) => Upload[q] \subseteq objects
  BY <1>3 DEF Safe, PendingIsOwn, PendingIsStored, Pending, Uploaded
<1>8. ASSUME NEW s \in Records, NEW f \in Files, Holds(s, f)'
      PROVE  \/ Holds(s, f)
             \/ s = r /\ new = Upload[q] /\ f \in Upload[q] /\ Uploading(q)
  <2>1. CASE s = r
    BY <1>1, <1>2, <1>4, <1>8, <2>1 DEF Holds, TypeInv, TypeOK
  <2>2. CASE s # r
    BY <1>2, <1>8, <2>2 DEF Holds, TypeInv, TypeOK
  <2> QED
    BY <2>1, <2>2
<1>9. ASSUME NEW f \in Files, Doomed(f)', ~Doomed(f)
      PROVE  Holds(r, f) /\ new # old
  <2>1. PICK e \in Logged(op[q], r, old, new) : f \in e.files
    BY <1>2, <1>6, <1>9 DEF Doomed
  <2> QED
    BY <1>1, <2>1, LoggedFacts DEF Holds
<1>10. HeldIsSafe'
  <2> SUFFICES ASSUME NEW s \in Records, NEW f \in Files, Holds(s, f)'
               PROVE  f \in objects /\ ~Doomed(f)'
    BY <1>6 DEF HeldIsSafe
  <2>1. CASE Holds(s, f)
    <3>1. f \in objects /\ ~Doomed(f)
      BY <2>1 DEF Safe, HeldIsSafe
    <3>2. ASSUME Doomed(f)' PROVE FALSE
      <4>1. Holds(r, f) /\ new # old
        BY <3>1, <3>2, <1>9
      <4>2. s = r
        BY <1>1, <2>1, <4>1 DEF Safe, HeldOnce
      <4>3. new # Absent /\ f \in new
        BY <1>1, <1>2, <4>2 DEF Holds, TypeInv, TypeOK
      <4>4. f \in Upload[q]
        BY <1>4, <4>1, <4>3
      <4> QED
        BY <1>1, <1>7, <4>1, <4>4
    <3> QED
      BY <3>1, <3>2
  <2>2. CASE ~Holds(s, f)
    <3>1. f \in Upload[q] /\ Uploading(q)
      BY <1>8, <2>2
    <3>2. f \in objects /\ ~Doomed(f) /\ ~Holds(r, f)
      BY <1>1, <1>7, <3>1
    <3> QED
      BY <1>9, <3>2
  <2> QED
    BY <2>1, <2>2
<1>11. HeldOnce'
  <2> SUFFICES ASSUME NEW s \in Records, NEW t \in Records, NEW f \in Files,
                      Holds(s, f)', Holds(t, f)'
               PROVE  s = t
    BY DEF HeldOnce
  <2>1. CASE f \in Upload[q]
    BY <1>7, <1>8, <2>1
  <2>2. CASE f \notin Upload[q]
    <3>1. Holds(s, f) /\ Holds(t, f)
      BY <1>8, <2>2
    <3> QED
      BY <3>1 DEF Safe, HeldOnce
  <2> QED
    BY <2>1, <2>2
<1>12. PendingIsOwn'
  <2> SUFFICES ASSUME NEW p \in Requests, Pending(p)', NEW f \in Upload[p]
               PROVE  ~Doomed(f)' /\ \A s \in Records : ~Holds(s, f)'
    BY DEF PendingIsOwn
  <2>1. p # q /\ Pending(p)
    BY <1>5 DEF Pending, TypeInv, TypeOK
  <2>2. ~Doomed(f) /\ \A s \in Records : ~Holds(s, f)
    BY <2>1 DEF Safe, PendingIsOwn
  <2>3. f \in Files /\ f \notin Upload[q]
    BY <2>1, UploadAssumption
  <2>4. ~Doomed(f)'
    BY <1>1, <1>9, <2>2, <2>3
  <2>5. \A s \in Records : ~Holds(s, f)'
    BY <1>8, <2>2, <2>3
  <2> QED
    BY <2>4, <2>5
<1>13. PendingIsStored'
  <2> SUFFICES ASSUME NEW p \in Requests, Uploaded(p)'
               PROVE  Upload[p] \subseteq objects
    BY <1>6 DEF PendingIsStored
  <2>1. Uploaded(p)
    BY <1>5, <1>6 DEF Uploaded, Uploading, TypeInv, TypeOK
  <2> QED
    BY <2>1 DEF Safe, PendingIsStored
<1> QED
  BY <1>10, <1>11, <1>12, <1>13 DEF Safe

\* A failed write dooms its own files, and no record refers to them.
LEMMA SafeReject ==
  ASSUME TypeInv, Safe, Without(Breaking), NEW q \in Requests, Reject(q)
  PROVE  Safe'
<1>1. phase[q] = "running"
  BY DEF Reject, TypeInv, Begun, Without, Breaking
<1>2. phase' = [phase EXCEPT ![q] = "failed"]
  BY <1>1 DEF Reject, Answer
<1>3. UNCHANGED <<column, file_deletions, objects, op, batch>>
  BY DEF Reject, database, deleterVars
<1>4. \A f : Doomed(f)' => Doomed(f) \/ f \in Upload[q]
  BY <1>3 DEF Reject, DropManager, Doomed
<1>5. \A f \in Upload[q], r \in Records : ~Holds(r, f)
  BY <1>1 DEF Safe, PendingIsOwn, Pending
<1>6. \A p \in Requests : Pending(p)' => Pending(p) /\ p # q
  BY <1>2 DEF Pending, TypeInv, TypeOK
<1>7. HeldIsSafe'
  BY <1>3, <1>4, <1>5 DEF Safe, HeldIsSafe, Holds
<1>8. HeldOnce'
  BY <1>3 DEF Safe, HeldOnce, Holds
<1>9. PendingIsOwn'
  BY <1>3, <1>4, <1>6, UploadAssumption DEF Safe, PendingIsOwn, Holds
<1>10. PendingIsStored'
  BY <1>2, <1>3 DEF Safe, PendingIsStored, Uploaded, Uploading, TypeInv, TypeOK
<1> QED
  BY <1>7, <1>8, <1>9, <1>10 DEF Safe

\* Taking entries dooms nothing that was not.
LEMMA TakeDooms ==
  ASSUME TypeInv, NEW a \in Deleters, NEW entries \in SUBSET file_deletions,
         Take(a, entries), UNCHANGED cleaning
  PROVE  \A f \in Files : Doomed(f)' => Doomed(f)
<1> SUFFICES ASSUME NEW f \in Files, Doomed(f)' PROVE Doomed(f)
  OBVIOUS
<1> DEFINE items == {i \in entries \X Files : i[2] \in i[1].files}
<1>1. batch' = [batch EXCEPT ![a] = items] /\ file_deletions' \subseteq file_deletions
  BY DEF Take
<1>2. CASE f \in cleaning' \/ \E e \in file_deletions' : f \in e.files
  BY <1>1, <1>2 DEF Doomed
<1>3. ASSUME NEW b \in Deleters, NEW i \in batch'[b], i[2] = f
      PROVE  Doomed(f)
  <2>1. CASE b = a
    <3>1. i \in items
      BY <1>1, <1>3, <2>1 DEF TypeInv, TypeOK
    <3>2. i[1] \in file_deletions /\ f \in i[1].files
      BY <1>3, <3>1
    <3> QED
      BY <3>2 DEF Doomed
  <2>2. CASE b # a
    BY <1>1, <1>3, <2>2 DEF Doomed, TypeInv, TypeOK
  <2> QED
    BY <2>1, <2>2
<1> QED
  BY <1>2, <1>3 DEF Doomed

LEMMA SafeRequest ==
  ASSUME TypeInv, Safe, Without(Breaking), Without(Breaking)', NEW q \in Requests,
         Begin(q) \/ Proceed(q) \/ PutFails(q) \/ Cancel(q)
  PROVE  Safe'
<1> USE DEF database, deleterVars
<1>1. CASE Begin(q)
  <2>1. \E p \in {"storing", "queued"} :
          /\ phase' = [phase EXCEPT ![q] = p]
          /\ p = "queued" => ~(Uploading(q)' /\ Upload[q] # {})
    BY <1>1 DEF Begin
  <2>2. phase[q] = "idle" /\ \A p \in Requests \ {q} : op'[p] = op[p]
    BY <1>1 DEF Begin, TypeInv, TypeOK
  <2>3. \A p \in Requests : Pending(p)' => Pending(p)
    BY <2>1, <2>2 DEF Pending, TypeInv, TypeOK
  <2>4. \A p \in Requests : Uploaded(p)' => Uploaded(p) \/ Upload[p] \subseteq objects'
    BY <2>1, <2>2 DEF Uploaded, Uploading, TypeInv, TypeOK
  <2>5. UNCHANGED <<column, file_deletions, objects, cleaning, batch>>
    BY <1>1 DEF Begin
  <2>6. \A f \in Files : Doomed(f)' => Doomed(f)
    BY <2>5 DEF Doomed
  <2> QED
    BY <2>3, <2>4, <2>5, <2>6, SafeKept
<1>2. CASE Put(q)
  <2>1. \/ UNCHANGED phase
        \/ phase' = [phase EXCEPT ![q] = "queued"] /\ Upload[q] \subseteq objects'
    BY <1>2 DEF Put
  <2>2. phase[q] = "storing" /\ objects \subseteq objects'
    BY <1>2 DEF Put
  <2>3. UNCHANGED <<column, file_deletions, op, cleaning, batch>>
    BY <1>2 DEF Put
  <2>4. \A p \in Requests : Pending(p)' => Pending(p)
    BY <2>1, <2>2 DEF Pending, TypeInv, TypeOK
  <2>5. \A p \in Requests : Uploaded(p)' => Uploaded(p) \/ Upload[p] \subseteq objects'
    BY <2>1, <2>2, <2>3 DEF Uploaded, Uploading, TypeInv, TypeOK
  <2>6. \A f \in Files : Doomed(f)' => Doomed(f)
    BY <2>3 DEF Doomed
  <2> QED
    BY <2>2, <2>3, <2>4, <2>5, <2>6, SafeKept
<1>3. CASE Start(q)
  <2>1. phase[q] = "queued" /\ phase' = [phase EXCEPT ![q] = "running"]
    BY <1>3 DEF Start
  <2>2. UNCHANGED <<column, file_deletions, op, objects, cleaning, batch>>
    BY <1>3 DEF Start
  <2>3. \A p \in Requests : (Pending(p)' => Pending(p)) /\ (Uploaded(p)' => Uploaded(p))
    BY <2>1, <2>2 DEF Pending, Uploaded, Uploading, TypeInv, TypeOK
  <2>4. \A f \in Files : Doomed(f)' => Doomed(f)
    BY <2>2 DEF Doomed
  <2> QED
    BY <2>2, <2>3, <2>4, SafeKept
<1>4. CASE Apply(q)
  BY <1>4, SafeApply
<1>5. CASE Reject(q)
  BY <1>5, SafeReject
<1>6. CASE Resume(q) \/ Done(q) \/ PutFails(q)
  <2>1. \E p \in {"taking", "done", "failed"} : phase' = [phase EXCEPT ![q] = p]
    BY <1>6 DEF Resume, Done, PutFails
  <2>2. UNCHANGED <<column, file_deletions, op, objects, cleaning, batch>>
    BY <1>6 DEF Resume, Done, PutFails
  <2>3. \A p \in Requests : (Pending(p)' => Pending(p)) /\ (Uploaded(p)' => Uploaded(p))
    BY <2>1, <2>2 DEF Pending, Uploaded, Uploading, TypeInv, TypeOK
  <2>4. \A f \in Files : Doomed(f)' => Doomed(f)
    BY <2>2 DEF Doomed
  <2> QED
    BY <2>2, <2>3, <2>4, SafeKept
<1>7. CASE TakeMarked(q)
  <2>1. phase' = [phase EXCEPT ![q] = "deleting"]
    BY <1>7 DEF TakeMarked
  <2>2. UNCHANGED <<column, op, objects, cleaning>>
    BY <1>7 DEF TakeMarked
  <2>3. \A p \in Requests : (Pending(p)' => Pending(p)) /\ (Uploaded(p)' => Uploaded(p))
    BY <2>1, <2>2 DEF Pending, Uploaded, Uploading, TypeInv, TypeOK
  <2>4. \A f \in Files : Doomed(f)' => Doomed(f)
    BY <1>7, <2>2, TakeDooms DEF TakeMarked, EntriesOf, Deleters
  <2> QED
    BY <2>2, <2>3, <2>4, SafeKept
<1>8. CASE Cancel(q)
  BY <1>8 DEF Cancel, Mishap, Without, Breaking
<1> QED
  BY <1>1, <1>2, <1>3, <1>4, <1>5, <1>6, <1>7, <1>8 DEF Proceed

LEMMA SafeOthers ==
  ASSUME TypeInv, Safe,
         \/ \E a \in Deleters : Delete(a) \/ DeleteFails(a)
         \/ JobTake \/ Clean \/ CleanFails \/ Crash
  PROVE  Safe'
<1> USE DEF database, deleterVars, requestVars
<1>1. UNCHANGED <<column, op>>
  BY DEF Delete, DeleteObject, RestoreErrors, DeleteFails, JobTake, Clean, CleanFails, Crash
<1>2. \A q \in Requests : (Pending(q)' => Pending(q)) /\ (Uploaded(q)' => Uploaded(q))
  <2>1. \A q \in Requests : phase'[q] \in {phase[q], "cancelled"}
    BY DEF Delete, DeleteObject, RestoreErrors, DeleteFails, JobTake, Clean, CleanFails, Crash
  <2> QED
    BY <1>1, <2>1 DEF Pending, Uploaded, Uploading
<1>3. /\ \A f \in Files : Doomed(f)' => Doomed(f)
      /\ \A f \in objects \ objects' : Doomed(f)
  <2>1. CASE \E a \in Deleters : Delete(a) \/ DeleteFails(a)
    <3>1. PICK a \in Deleters : Delete(a) \/ DeleteFails(a)
      BY <2>1
    <3>2. \/ UNCHANGED <<batch, objects>>
          \/ \E i \in batch[a] : /\ batch' = [batch EXCEPT ![a] = batch[a] \ {i}]
                                 /\ objects' \in {objects, objects \ {i[2]}}
      BY <3>1 DEF Delete, DeleteObject, RestoreErrors, DeleteFails
    <3>3. UNCHANGED <<cleaning, file_deletions>>
      BY <3>1 DEF Delete, DeleteObject, RestoreErrors, DeleteFails
    <3>4. \A b \in Deleters : batch'[b] \subseteq batch[b]
      BY <3>2 DEF TypeInv, TypeOK
    <3> QED
      BY <3>2, <3>3, <3>4 DEF Doomed
  <2>2. CASE JobTake
    BY <2>2, TakeDooms DEF JobTake, Deleters
  <2>3. CASE Clean \/ CleanFails
    <3>1. \E f \in cleaning : /\ cleaning' = cleaning \ {f}
                              /\ objects' \in {objects, objects \ {f}}
      BY <2>3 DEF Clean, CleanFails
    <3>2. UNCHANGED <<file_deletions, batch>>
      BY <2>3 DEF Clean, CleanFails
    <3> QED
      BY <3>1, <3>2 DEF Doomed
  <2>4. CASE Crash
    BY <2>4 DEF Crash, Doomed
  <2> QED
    BY <2>1, <2>2, <2>3, <2>4
<1> QED
  BY <1>1, <1>2, <1>3, SafeKept

LEMMA ReferenceStep ==
  ASSUME ReferenceInv, [Next]_vars
  PROVE  ReferenceInv'
<1>1. TypeInv /\ TypeInv'
  BY TypeStep DEF ReferenceInv
<1> SUFFICES ASSUME Without(Breaking)' PROVE Safe'
  BY <1>1 DEF ReferenceInv
<1>2. Without(Breaking) /\ Safe
  BY <1>1, WithoutBefore, NamesAssumption
  DEF ReferenceInv, Breaking, AllOperations, AllMishaps
<1>3. CASE UNCHANGED vars
  <2>1. UNCHANGED <<column, objects>> /\ \A f : Doomed(f)' => Doomed(f)
    BY <1>3 DEF vars, database, deleterVars, Doomed
  <2>2. \A q : (Pending(q)' => Pending(q)) /\ (Uploaded(q)' => Uploaded(q))
    BY <1>3 DEF vars, requestVars, Pending, Uploaded, Uploading
  <2> QED
    BY <1>1, <1>2, <2>1, <2>2, SafeKept
<1>4. CASE Next
  BY <1>1, <1>2, <1>4, SafeRequest, SafeOthers DEF Next
<1> QED
  BY <1>3, <1>4

\* Whatever the object store and the process do, and in whatever order
\* requests, the job and cleanup tasks run: the files of a record are stored,
\* but for cancelled requests, edits and the transaction API
\* (RecordFiles!NoDanglingReference).
THEOREM ReferencesAreSafe == Spec => []NoDanglingReference
<1>1. Spec => []ReferenceInv
  BY ReferenceInit, ReferenceStep, PTL DEF Spec
<1>2. ReferenceInv => NoDanglingReference
  <2> SUFFICES ASSUME ReferenceInv, Without(Breaking) PROVE Dangling = {}
    BY DEF NoDanglingReference, Breaking
  <2> QED
    BY DEF ReferenceInv, Safe, HeldIsSafe, Holds, Dangling, Referenced
<1> QED
  BY <1>1, <1>2, PTL

-----------------------------------------------------------------------------
(* Garbage. *)

\* A record refers to f, or f is to be deleted.
OnRecord(f) == Referenced(f) \/ Doomed(f)

\* A request is uploading f, or its FileManager looks after it.
Carried(f) ==
  \E q \in Requests : f \in Upload[q] /\ (phase[q] = "storing" \/ q \in cleanup)

NoLoss == \A f \in objects : OnRecord(f) \/ Carried(f)

\* A FileManager's request uploads; once its write has committed, its files are
\* on record without it.
Armed ==
  \A q \in cleanup :
    /\ Uploading(q)
    /\ phase[q] = "committed" => \A f \in Upload[q] \cap objects : OnRecord(f)

\* Only a request that took entries from the log has any in hand.
HandsEmpty == \A q \in Requests : phase[q] # "deleting" => batch[q] = {}

Losing == AllMishaps \cup {"replace", "edit"}
Tidy == NoLoss /\ Armed /\ HandsEmpty
GarbageInv == TypeInv /\ (Without(Losing) => Tidy)

LEMMA GarbageInit == Init => GarbageInv
<1> SUFFICES ASSUME Init PROVE Tidy
  BY TypeInit DEF GarbageInv
<1>1. NoLoss
  BY DEF Init, NoLoss, OnRecord, Referenced
<1>2. Armed
  BY DEF Init, Armed
<1>3. HandsEmpty
  BY DEF Init, HandsEmpty, Deleters
<1> QED
  BY <1>1, <1>2, <1>3 DEF Tidy

\* A step after which what was on record still is, and in which no FileManager
\* is lost, loses nothing.
LEMMA TidyKept ==
  ASSUME TypeInv, Tidy,
         \A f \in objects \cap objects' : OnRecord(f) => OnRecord(f)',
         \A f \in objects \cap objects' : Carried(f) => OnRecord(f)' \/ Carried(f)',
         \A f \in objects' \ objects : Carried(f)',
         \A q \in cleanup' : Uploading(q)',
         \A q \in cleanup' : phase'[q] = "committed" =>
           \/ q \in cleanup /\ phase[q] = "committed" /\ objects' \subseteq objects
           \/ \A f \in Upload[q] \cap objects' : OnRecord(f)',
         HandsEmpty'
  PROVE  Tidy'
<1>1. NoLoss'
  BY DEF Tidy, NoLoss
<1>2. Armed'
  BY DEF Tidy, Armed
<1> QED
  BY <1>1, <1>2 DEF Tidy

\* The write: what it replaces the triggers log.
LEMMA ApplyKeeps ==
  ASSUME TypeInv, NEW q \in Requests, Apply(q), op[q] \notin {"replace", "edit"}
  PROVE  /\ \A f \in Files : OnRecord(f) => OnRecord(f)'
         /\ Uploading(q) => \A f \in Upload[q] : OnRecord(f)'
<1> DEFINE r == target[q]
           old == column[r]
<1>1. /\ r \in Records /\ old \in Columns
      /\ op[q] \in {"insert", "update", "delete", "transaction"}
  BY DEF TypeInv, TypeOK, Begun, Apply, Columns, AllOperations
<1>2. PICK new \in NewValues(op[q], Upload[q], old) :
        /\ column' = [column EXCEPT ![r] = new]
        /\ file_deletions' = file_deletions \cup Logged(op[q], r, old, new)
  BY DEF Apply
<1>3. UNCHANGED <<cleaning, batch>>
  BY DEF Apply, deleterVars
<1>4. \A f : Doomed(f) => Doomed(f)'
  BY <1>2, <1>3 DEF Doomed
<1>5. Upload[q] \in SUBSET Files /\ Absent \notin SUBSET Files
  BY UploadAssumption, NamesAssumption
<1>6. old \notin {Absent, {}} => new \notin {{}} \ {old}
  BY <1>1, <1>2, <1>5 DEF NewValues
<1>7. ASSUME NEW f \in Files, Referenced(f)
      PROVE  OnRecord(f)'
  <2>1. PICK s \in Records : column[s] # Absent /\ f \in column[s]
    BY <1>7 DEF Referenced
  <2>2. CASE s # r \/ new = old
    <3>1. column'[s] = column[s]
      BY <1>1, <1>2, <2>1, <2>2 DEF TypeInv, TypeOK
    <3> QED
      BY <2>1, <3>1 DEF OnRecord, Referenced
  <2>3. CASE s = r /\ new # old
    <3>1. Logged(op[q], r, old, new) = {[row |-> r, files |-> old]}
      BY <1>1, <1>6, <2>1, <2>3 DEF Logged
    <3>2. [row |-> r, files |-> old] \in file_deletions'
      BY <1>2, <3>1
    <3>3. f \in [row |-> r, files |-> old].files
      BY <2>1, <2>3
    <3> QED
      BY <3>2, <3>3 DEF OnRecord, Doomed
  <2> QED
    BY <2>2, <2>3
<1>8. ASSUME Uploading(q), NEW f \in Upload[q]
      PROVE  OnRecord(f)'
  <2>1. new = Upload[q]
    BY <1>1, <1>2, <1>8 DEF NewValues, Uploading
  <2>2. column'[r] = Upload[q] /\ column'[r] # Absent
    BY <1>1, <1>2, <1>5, <2>1 DEF TypeInv, TypeOK
  <2> QED
    BY <1>1, <2>2 DEF OnRecord, Referenced
<1> QED
  BY <1>4, <1>7, <1>8 DEF OnRecord

\* Entries taken from the log by somebody with empty hands stay on record.
LEMMA TakeKeeps ==
  ASSUME TypeInv, NEW a \in Deleters, NEW entries \in SUBSET file_deletions,
         Take(a, entries), batch[a] = {}, UNCHANGED <<column, cleaning>>
  PROVE  \A f \in Files : OnRecord(f) => OnRecord(f)'
<1> SUFFICES ASSUME NEW f \in Files, Doomed(f) PROVE Doomed(f)'
  BY DEF OnRecord, Referenced
<1> DEFINE items == {i \in entries \X Files : i[2] \in i[1].files}
<1>1. batch' = [batch EXCEPT ![a] = items] /\ file_deletions' = file_deletions \ entries
  BY DEF Take
<1>2. CASE f \in cleaning
  BY <1>2 DEF Doomed
<1>3. ASSUME NEW b \in Deleters, NEW i \in batch[b], i[2] = f
      PROVE  Doomed(f)'
  <2>1. batch'[b] = batch[b]
    BY <1>1, <1>3 DEF TypeInv, TypeOK
  <2> QED
    BY <1>3, <2>1 DEF Doomed
<1>4. ASSUME NEW e \in file_deletions, f \in e.files
      PROVE  Doomed(f)'
  <2>1. CASE e \in entries
    <3>1. <<e, f>> \in items
      BY <1>4, <2>1
    <3>2. <<e, f>> \in batch'[a]
      BY <1>1, <3>1 DEF TypeInv, TypeOK
    <3>3. <<e, f>>[2] = f
      OBVIOUS
    <3> QED
      BY <3>2, <3>3 DEF Doomed
  <2>2. CASE e \notin entries
    BY <1>1, <1>4, <2>2 DEF Doomed
  <2> QED
    BY <2>1, <2>2
<1> QED
  BY <1>2, <1>3, <1>4 DEF Doomed

\* Deleters: an object goes with the last entry about it.
LEMMA DeleterKeeps ==
  ASSUME TypeInv, NEW a \in Deleters, Delete(a)
  PROVE  /\ \A f \in objects' : OnRecord(f) => OnRecord(f)'
         /\ objects' \subseteq objects
         /\ \A b \in Deleters : batch'[b] \subseteq batch[b]
<1>1. UNCHANGED <<column, file_deletions, cleaning>>
  BY DEF Delete, DeleteObject, RestoreErrors, database, requestVars
<1>2. CASE RestoreErrors(a)
  BY <1>1, <1>2 DEF RestoreErrors, OnRecord, Referenced, Doomed
<1>3. CASE DeleteObject(a)
  <2>1. PICK i \in batch[a] : /\ batch' = [batch EXCEPT ![a] = batch[a] \ {i}]
                              /\ objects' = objects \ {i[2]}
    BY <1>3 DEF DeleteObject
  <2>2. \A b \in Deleters : batch[b] \ {i} \subseteq batch'[b] /\ batch'[b] \subseteq batch[b]
    BY <2>1 DEF TypeInv, TypeOK
  <2>3. \A f \in objects' : OnRecord(f) => OnRecord(f)'
    BY <1>1, <2>1, <2>2 DEF OnRecord, Referenced, Doomed
  <2> QED
    BY <2>1, <2>2, <2>3
<1> QED
  BY <1>2, <1>3 DEF Delete

LEMMA TidyRequest ==
  ASSUME TypeInv, Tidy, Without(Losing)', NEW q \in Requests,
         Begin(q) \/ Proceed(q) \/ PutFails(q) \/ Cancel(q)
  PROVE  Tidy'
<1> USE DEF database, deleterVars
<1>1. CASE Begin(q)
  <2>1. \E p \in {"storing", "queued"} : phase' = [phase EXCEPT ![q] = p]
    BY <1>1 DEF Begin
  <2>2. phase[q] = "idle" /\ \A p \in Requests \ {q} : op'[p] = op[p]
    BY <1>1 DEF Begin, TypeInv, TypeOK
  <2>3. q \notin cleanup
    BY <2>2, NamesAssumption DEF Tidy, Armed, TypeInv, Begun, Uploading, AllOperations
  <2>4. UNCHANGED <<column, file_deletions, objects, cleaning, batch, cleanup>>
    BY <1>1 DEF Begin
  <2>5. \A f : OnRecord(f)' <=> OnRecord(f)
    BY <2>4 DEF OnRecord, Referenced, Doomed
  <2>6. \A f : Carried(f) => Carried(f)'
    BY <2>1, <2>2, <2>4 DEF Carried, TypeInv, TypeOK
  <2>7. \A p \in cleanup' : Uploading(p)' /\ phase'[p] = phase[p]
    BY <2>1, <2>2, <2>3, <2>4 DEF Tidy, Armed, Uploading, TypeInv, TypeOK
  <2>8. HandsEmpty'
    BY <2>1, <2>2, <2>4 DEF Tidy, HandsEmpty, TypeInv, TypeOK
  <2> QED
    BY <2>4, <2>5, <2>6, <2>7, <2>8, TidyKept
<1>2. CASE Put(q)
  <2>1. phase[q] = "storing" /\ Uploading(q)
    BY <1>2 DEF Put, TypeInv, Begun
  <2>2. \/ UNCHANGED <<phase, cleanup>>
        \/ phase' = [phase EXCEPT ![q] = "queued"] /\ cleanup' = cleanup \cup {q}
    BY <1>2 DEF Put
  <2>3. UNCHANGED <<column, file_deletions, op, cleaning, batch>>
    BY <1>2 DEF Put
  <2>4. \E f \in Upload[q] : objects' = objects \cup {f}
    BY <1>2 DEF Put
  <2>5. \A f : OnRecord(f)' <=> OnRecord(f)
    BY <2>3 DEF OnRecord, Referenced, Doomed
  <2>6. \A f : Carried(f) => Carried(f)'
    BY <2>1, <2>2 DEF Carried, TypeInv, TypeOK
  <2>7. \A f \in Upload[q] : Carried(f)'
    BY <2>1, <2>2 DEF Carried, TypeInv, TypeOK
  <2>8. \A p \in cleanup' : Uploading(p)'
    BY <2>1, <2>2, <2>3 DEF Tidy, Armed, Uploading
  <2>9. \A p \in cleanup' : phase'[p] = "committed" =>
          p \in cleanup /\ phase[p] = "committed" /\ \A f \in Upload[p] \cap objects' : OnRecord(f)'
    <3> SUFFICES ASSUME NEW p \in cleanup', phase'[p] = "committed"
                 PROVE  /\ p \in cleanup /\ phase[p] = "committed"
                        /\ \A f \in Upload[p] \cap objects' : OnRecord(f)'
      OBVIOUS
    <3>1. p # q /\ p \in cleanup /\ phase[p] = "committed" /\ p \in Requests
      BY <2>1, <2>2 DEF TypeInv, TypeOK
    <3>2. Upload[p] \cap objects' \subseteq objects
      BY <2>4, <3>1, UploadAssumption
    <3>3. \A f \in Upload[p] \cap objects : OnRecord(f)
      BY <3>1 DEF Tidy, Armed
    <3> QED
      BY <2>5, <3>1, <3>2, <3>3
  <2>10. HandsEmpty'
    BY <2>1, <2>2, <2>3 DEF Tidy, HandsEmpty, TypeInv, TypeOK
  <2> QED
    BY <2>4, <2>5, <2>6, <2>7, <2>8, <2>9, <2>10, TidyKept
<1>3. CASE Start(q) \/ Done(q)
  <2>1. /\ phase[q] \in {"queued", "deleting"}
        /\ \E p \in {"running", "done"} : phase' = [phase EXCEPT ![q] = p]
        /\ phase[q] = "deleting" => batch[q] = {}
    BY <1>3 DEF Start, Done
  <2>2. UNCHANGED <<column, file_deletions, objects, op, cleaning, batch, cleanup>>
    BY <1>3 DEF Start, Done
  <2>3. \A f : OnRecord(f)' <=> OnRecord(f)
    BY <2>2 DEF OnRecord, Referenced, Doomed
  <2>4. \A f : Carried(f) => Carried(f)'
    BY <2>1, <2>2 DEF Carried, TypeInv, TypeOK
  <2>5. \A p \in cleanup' : Uploading(p)' /\ (phase'[p] = "committed" => phase[p] = "committed")
    BY <2>1, <2>2 DEF Tidy, Armed, Uploading, TypeInv, TypeOK
  <2>6. HandsEmpty'
    BY <2>1, <2>2 DEF Tidy, HandsEmpty, TypeInv, TypeOK
  <2> QED
    BY <2>2, <2>3, <2>4, <2>5, <2>6, TidyKept
<1>4. CASE Apply(q)
  <2>1. op[q] \notin {"replace", "edit"} /\ phase[q] = "running"
    BY <1>4 DEF Apply, Without, Losing, AllMishaps, TypeInv, Begun
  <2>2. phase' = [phase EXCEPT ![q] = "committed"]
    BY <1>4, <2>1 DEF Apply, Answer
  <2>3. UNCHANGED <<objects, op, cleaning, batch, cleanup>>
    BY <1>4 DEF Apply
  <2>4. \A f \in objects : OnRecord(f) => OnRecord(f)'
    BY <1>4, <2>1, ApplyKeeps DEF TypeInv, TypeOK
  <2>5. \A f : Carried(f) => Carried(f)'
    BY <2>1, <2>2, <2>3 DEF Carried, TypeInv, TypeOK
  <2>6. \A p \in cleanup' : Uploading(p)'
    BY <2>3 DEF Tidy, Armed, Uploading
  <2>7. \A p \in cleanup' : phase'[p] = "committed" => p = q \/ phase[p] = "committed"
    BY <2>2 DEF TypeInv, TypeOK
  <2>8. q \in cleanup' => \A f \in Upload[q] \cap objects' : OnRecord(f)'
    BY <1>4, <2>1, <2>3, ApplyKeeps DEF Tidy, Armed
  <2>9. HandsEmpty'
    BY <2>1, <2>2, <2>3 DEF Tidy, HandsEmpty, TypeInv, TypeOK
  <2> QED
    BY <2>3, <2>4, <2>5, <2>6, <2>7, <2>8, <2>9, TidyKept
<1>5. CASE Reject(q)
  <2>1. phase[q] = "running"
    BY <1>5 DEF Reject, Without, Losing, AllMishaps, TypeInv, Begun
  <2>2. phase' = [phase EXCEPT ![q] = "failed"]
    BY <1>5, <2>1 DEF Reject, Answer
  <2>3. UNCHANGED <<column, file_deletions, objects, op, batch>>
    BY <1>5 DEF Reject
  <2>4. /\ cleaning' = cleaning \cup (IF q \in cleanup THEN Upload[q] ELSE {})
        /\ cleanup' = cleanup \ {q}
    BY <1>5 DEF Reject, DropManager
  <2>5. \A f : OnRecord(f) => OnRecord(f)'
    BY <2>3, <2>4 DEF OnRecord, Referenced, Doomed
  <2>6. \A f : Carried(f) => OnRecord(f)' \/ Carried(f)'
    BY <2>1, <2>2, <2>4 DEF Carried, OnRecord, Doomed, TypeInv, TypeOK
  <2>7. \A p \in cleanup' : /\ Uploading(p)' /\ p \in cleanup
                            /\ phase'[p] = "committed" => phase[p] = "committed"
    BY <2>2, <2>3, <2>4 DEF Tidy, Armed, Uploading, TypeInv, TypeOK
  <2>8. HandsEmpty'
    BY <2>1, <2>2, <2>3 DEF Tidy, HandsEmpty, TypeInv, TypeOK
  <2> QED
    BY <2>3, <2>5, <2>6, <2>7, <2>8, TidyKept
<1>6. CASE Resume(q)
  <2>1. phase[q] = "committed" /\ cleanup' = cleanup \ {q}
    BY <1>6 DEF Resume
  <2>2. \E p \in {"taking", "done"} : phase' = [phase EXCEPT ![q] = p]
    BY <1>6 DEF Resume
  <2>3. UNCHANGED <<column, file_deletions, objects, op, cleaning, batch>>
    BY <1>6 DEF Resume
  <2>4. \A f : OnRecord(f)' <=> OnRecord(f)
    BY <2>3 DEF OnRecord, Referenced, Doomed
  <2>5. \A f \in objects : Carried(f) => OnRecord(f) \/ Carried(f)'
    BY <2>1, <2>2 DEF Carried, Tidy, Armed, TypeInv, TypeOK
  <2>6. \A p \in cleanup' : /\ Uploading(p)' /\ p \in cleanup
                            /\ phase'[p] = "committed" => phase[p] = "committed"
    BY <2>1, <2>2, <2>3 DEF Tidy, Armed, Uploading, TypeInv, TypeOK
  <2>7. HandsEmpty'
    BY <2>1, <2>2, <2>3 DEF Tidy, HandsEmpty, TypeInv, TypeOK
  <2> QED
    BY <2>3, <2>4, <2>5, <2>6, <2>7, TidyKept
<1>7. CASE TakeMarked(q)
  <2>1. phase[q] = "taking" /\ phase' = [phase EXCEPT ![q] = "deleting"]
    BY <1>7 DEF TakeMarked
  <2>2. UNCHANGED <<column, objects, op, cleanup, cleaning>>
    BY <1>7 DEF TakeMarked
  <2>3. Take(q, EntriesOf(target[q])) /\ batch[q] = {} /\ q \in Deleters
    BY <1>7, <2>1 DEF TakeMarked, Tidy, HandsEmpty, Deleters
  <2>4. \A f \in objects : OnRecord(f) => OnRecord(f)'
    BY <2>2, <2>3, TakeKeeps DEF EntriesOf, TypeInv, TypeOK
  <2>5. \A f : Carried(f) => Carried(f)'
    BY <2>1, <2>2 DEF Carried, TypeInv, TypeOK
  <2>6. \A p \in cleanup' : /\ Uploading(p)' /\ p \in cleanup
                            /\ phase'[p] = "committed" => phase[p] = "committed"
    BY <2>1, <2>2 DEF Tidy, Armed, Uploading, TypeInv, TypeOK
  <2>7. HandsEmpty'
    BY <2>1, <2>3, NamesAssumption DEF Take, Tidy, HandsEmpty, TypeInv, TypeOK, Deleters
  <2> QED
    BY <2>2, <2>4, <2>5, <2>6, <2>7, TidyKept
<1>8. CASE PutFails(q) \/ Cancel(q)
  BY <1>8 DEF PutFails, Cancel, Mishap, Without, Losing, AllMishaps
<1> QED
  BY <1>1, <1>2, <1>3, <1>4, <1>5, <1>6, <1>7, <1>8 DEF Proceed

LEMMA TidyOthers ==
  ASSUME TypeInv, Tidy, Without(Losing)',
         \/ \E a \in Deleters : Delete(a) \/ DeleteFails(a)
         \/ JobTake \/ Clean \/ CleanFails \/ Crash
  PROVE  Tidy'
<1> USE DEF database, deleterVars, requestVars
<1>1. CASE (\E a \in Deleters : DeleteFails(a)) \/ CleanFails \/ Crash
  BY <1>1 DEF DeleteFails, CleanFails, Crash, Mishap, Without, Losing, AllMishaps
<1>2. ASSUME UNCHANGED requestVars,
             objects' \subseteq objects,
             \A f \in objects' : OnRecord(f) => OnRecord(f)',
             \A q \in Requests : batch'[q] \subseteq batch[q]
      PROVE  Tidy'
  <2>1. \A f : Carried(f) => Carried(f)'
    BY <1>2 DEF Carried
  <2>2. HandsEmpty'
    BY <1>2 DEF Tidy, HandsEmpty
  <2>3. \A q \in cleanup' : Uploading(q)'
    BY <1>2 DEF Tidy, Armed, Uploading
  <2> QED
    BY <1>2, <2>1, <2>2, <2>3, TidyKept
<1>3. CASE \E a \in Deleters : Delete(a)
  <2>1. UNCHANGED requestVars
    BY <1>3 DEF Delete, DeleteObject, RestoreErrors
  <2> QED
    BY <1>2, <1>3, <2>1, DeleterKeeps DEF Deleters
<1>4. CASE JobTake
  <2>1. \A f \in Files : OnRecord(f) => OnRecord(f)'
    BY <1>4, TakeKeeps DEF JobTake, JobIdle, Deleters
  <2>2. \A q \in Requests : batch'[q] = batch[q]
    BY <1>4, NamesAssumption DEF JobTake, Take, TypeInv, TypeOK, Deleters
  <2>3. UNCHANGED requestVars /\ UNCHANGED objects /\ objects \subseteq Files
    BY <1>4 DEF JobTake, TypeInv, TypeOK
  <2> QED
    BY <1>2, <2>1, <2>2, <2>3
<1>5. CASE Clean
  <2>1. \A f \in objects' : OnRecord(f) => OnRecord(f)'
    BY <1>5 DEF Clean, OnRecord, Referenced, Doomed
  <2>2. UNCHANGED <<requestVars, batch>> /\ objects' \subseteq objects
    BY <1>5 DEF Clean
  <2> QED
    BY <1>2, <2>1, <2>2
<1> QED
  BY <1>1, <1>3, <1>4, <1>5

LEMMA GarbageStep ==
  ASSUME GarbageInv, [Next]_vars
  PROVE  GarbageInv'
<1>1. TypeInv /\ TypeInv'
  BY TypeStep DEF GarbageInv
<1> SUFFICES ASSUME Without(Losing)' PROVE Tidy'
  BY <1>1 DEF GarbageInv
<1>2. Tidy
  BY <1>1, WithoutBefore, NamesAssumption
  DEF GarbageInv, Losing, AllOperations
<1>3. CASE UNCHANGED vars
  BY <1>2, <1>3
  DEF vars, database, requestVars, deleterVars, Tidy, NoLoss, Armed, HandsEmpty,
      OnRecord, Carried, Referenced, Doomed, Uploading
<1>4. CASE Next
  BY <1>1, <1>2, <1>4, TidyRequest, TidyOthers DEF Next
<1> QED
  BY <1>3, <1>4

\* As long as nothing goes wrong, every object that no record refers to is in
\* the hands of a request, a deleter or a cleanup task, or logged
\* (RecordFiles!NothingForgotten).
THEOREM GarbageIsKnown == Spec => []NothingForgotten
<1>1. Spec => []GarbageInv
  BY GarbageInit, GarbageStep, PTL DEF Spec
<1>2. GarbageInv => NothingForgotten
  BY DEF GarbageInv, Tidy, NoLoss, OnRecord, Carried, Doomed, Losing,
         NothingForgotten, Forgotten, InHand
<1> QED
  BY <1>1, <1>2, PTL
=============================================================================
