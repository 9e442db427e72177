------------------------------ MODULE Executor ------------------------------
(***************************************************************************)
(* A TrailBase database connection (crates/sqlite/src/sqlite): one writer  *)
(* thread that owns the read-write SQLite connection, reader threads with  *)
(* read-only connections, the two channels that feed them, the lock around *)
(* all connections, and the calls and closes of the connection's users.    *)
(*                                                                         *)
(* A call is a closure sent to a thread.  A write leaves up to Rows rows,  *)
(* one statement at a time; a read returns what all writes left.           *)
(***************************************************************************)
EXTENDS Integers, Sequences, FiniteSets

CONSTANTS
  Writes, Reads,  \* calls of call_writer and of call_reader
  Atomic,         \* writes that run in a transaction
  Panicking,      \* calls whose closure may panic
  Guests,         \* holders of the lock outside the threads
  Closers,        \* clones of the connection that get closed
  Rows,           \* statements of a write
  NumThreads,     \* Options.num_threads; 1 for an in-memory database
  Terminate,      \* ReaderMessage::Terminate
  None,
  MaxTerminates   \* bound: Terminate messages queued at a time

Threads == 0 .. NumThreads - 1      \* 0 is the writer thread
Calls == Writes \cup Reads

ASSUME ConstantsAssumption ==
  /\ Writes \cap Reads = {}
  /\ Atomic \subseteq Writes
  /\ Panicking \subseteq Calls
  /\ Guests \cap Writes = {}
  /\ Guests \cap Reads = {}
  /\ Guests \cap Threads = {}
  /\ Terminate \notin Calls
  /\ None \notin Calls \cup Guests \cup Threads
  /\ Rows \in Nat \ {0}
  /\ NumThreads \in Nat \ {0}
  /\ MaxTerminates \in Nat \ {0}

VARIABLES
  phase,    \* of a call, as its caller sees it
  writeQ,   \* the writer channel: calls
  readQ,    \* the reader channel: calls and Terminates
  at,       \* a thread's place in its event loop
  job,      \* the call it serves
  excl,     \* who holds the lock exclusively
  shared,   \* threads that hold it shared
  open,     \* the connection vector is not empty
  stored,   \* rows left by each write and each guest
  seen,     \* what a read found
  closer,   \* progress of a close
  handles   \* some clone of the connection exists

callVars   == <<phase, writeQ, readQ>>
threadVars == <<at, job>>
lockVars   == <<excl, shared>>
dataVars   == <<stored, seen>>
vars == <<callVars, threadVars, lockVars, open, dataVars, closer, handles>>

Phases == {"idle", "waiting", "answered", "failed", "refused", "abandoned"}
Places == {"recv", "lock", "run", "unlock", "exited"}
Empty == [w \in Writes \cup Guests |-> 0]

Queued(q) == {q[i] : i \in DOMAIN q}
WriterGone == at[0] = "exited"
ReadersGone == \A t \in Threads : at[t] = "exited"

-----------------------------------------------------------------------------
(* The callers. *)

\* call_writer: the closure is sent to the writer thread, if it still listens.
CallWriter(w) ==
  /\ handles
  /\ phase[w] = "idle"
  /\ IF WriterGone
       THEN /\ phase' = [phase EXCEPT ![w] = "refused"]
            /\ UNCHANGED writeQ
       ELSE /\ phase' = [phase EXCEPT ![w] = "waiting"]
            /\ writeQ' = Append(writeQ, w)
  /\ UNCHANGED <<readQ, threadVars, lockVars, open, dataVars, closer, handles>>

\* call_reader: any thread takes it, the writer thread included.
CallReader(r) ==
  /\ handles
  /\ phase[r] = "idle"
  /\ IF ReadersGone
       THEN /\ phase' = [phase EXCEPT ![r] = "refused"]
            /\ UNCHANGED readQ
       ELSE /\ phase' = [phase EXCEPT ![r] = "waiting"]
            /\ readQ' = Append(readQ, r)
  /\ UNCHANGED <<writeQ, threadVars, lockVars, open, dataVars, closer, handles>>

\* The caller's future is dropped, e.g. with the HTTP request it served.
Abandon(c) ==
  /\ phase[c] = "waiting"
  /\ phase' = [phase EXCEPT ![c] = "abandoned"]
  /\ UNCHANGED <<writeQ, readQ, threadVars, lockVars, open, dataVars, closer, handles>>

\* The last clone goes; nobody waits for a call or closes any more.
DropHandles ==
  /\ handles
  /\ \A c \in Calls : phase[c] # "waiting"
  /\ \A k \in Closers : closer[k] # "terminating"
  /\ handles' = FALSE
  /\ UNCHANGED <<callVars, threadVars, lockVars, open, dataVars, closer>>

-----------------------------------------------------------------------------
(* The event loops. *)

\* Thread t leaves its loop and drops its receivers.  Calls it leaves in a
\* channel without a receiver are dropped, and their callers told so, or stay
\* there: flume's choice.
Leave(t, ph) ==
  LET stranded ==
        (IF t = 0 THEN Queued(writeQ) ELSE {}) \cup
        (IF \A u \in Threads \ {t} : at[u] = "exited" THEN Queued(readQ) ELSE {})
  IN  /\ at' = [at EXCEPT ![t] = "exited"]
      /\ job' = [job EXCEPT ![t] = None]
      /\ \E gone \in {{}, stranded} :
           phase' = [c \in Calls |->
                       IF c \in gone /\ ph[c] = "waiting" THEN "refused" ELSE ph[c]]

ReceiveWrite ==
  /\ at[0] = "recv"
  /\ writeQ # <<>>
  /\ job' = [job EXCEPT ![0] = Head(writeQ)]
  /\ at' = [at EXCEPT ![0] = "lock"]
  /\ writeQ' = Tail(writeQ)
  /\ UNCHANGED <<phase, readQ, lockVars, open, dataVars, closer, handles>>

ReceiveRead(t) ==
  /\ at[t] = "recv"
  /\ readQ # <<>>
  /\ Head(readQ) # Terminate
  /\ job' = [job EXCEPT ![t] = Head(readQ)]
  /\ at' = [at EXCEPT ![t] = "lock"]
  /\ readQ' = Tail(readQ)
  /\ UNCHANGED <<phase, writeQ, lockVars, open, dataVars, closer, handles>>

ReceiveTerminate(t) ==
  /\ at[t] = "recv"
  /\ readQ # <<>>
  /\ Head(readQ) = Terminate
  /\ readQ' = Tail(readQ)
  /\ Leave(t, phase)
  /\ UNCHANGED <<writeQ, lockVars, open, dataVars, closer, handles>>

\* A channel is empty and has no senders left.
Disconnected(t) ==
  /\ at[t] = "recv"
  /\ ~handles
  /\ readQ = <<>> \/ (t = 0 /\ writeQ = <<>>)
  /\ Leave(t, phase)
  /\ UNCHANGED <<writeQ, readQ, lockVars, open, dataVars, closer, handles>>

\* Mutant: reads do not wait for the lock.
LockFreeForReadless(c) ==
  c \in Writes => excl = None /\ shared = {}

\* A write needs the lock for itself, a read shares it.
LockFreeFor(c) ==
  /\ excl = None
  /\ c \in Writes => shared = {}

\* The closure runs unless its caller has gone.
Lock(t) ==
  /\ at[t] = "lock"
  /\ LockFreeFor(job[t])
  /\ IF job[t] \in Writes
       THEN excl' = t /\ UNCHANGED shared
       ELSE shared' = shared \cup {t} /\ UNCHANGED excl
  /\ IF phase[job[t]] = "abandoned"
       THEN at' = [at EXCEPT ![t] = "unlock"] /\ UNCHANGED seen
       ELSE /\ at' = [at EXCEPT ![t] = "run"]
            /\ seen' = IF job[t] \in Reads THEN [seen EXCEPT ![job[t]] = stored] ELSE seen
  /\ UNCHANGED <<callVars, job, open, stored, closer, handles>>

\* One statement of a write.
Insert ==
  /\ at[0] = "run"
  /\ job[0] \in Writes
  /\ stored[job[0]] < Rows
  /\ stored' = [stored EXCEPT ![job[0]] = @ + 1]
  /\ UNCHANGED <<callVars, threadVars, lockVars, open, seen, closer, handles>>

\* What a write leaves that ends early: its transaction is rolled back.
Leaves(w) == IF w \in Atomic /\ stored[w] < Rows THEN 0 ELSE stored[w]

\* The answer a closure sends: a write whose statements did not all run failed.
Verdict(c) ==
  IF c \in Writes /\ stored[c] < Rows THEN "failed" ELSE "answered"

\* The closure ends and answers its caller, the lock still held.
Finish(t) ==
  /\ at[t] = "run"
  /\ at' = [at EXCEPT ![t] = "unlock"]
  /\ phase' = [phase EXCEPT ![job[t]] = IF @ = "waiting" THEN Verdict(job[t]) ELSE @]
  /\ IF job[t] \in Writes
       THEN stored' = [stored EXCEPT ![job[t]] = Leaves(job[t])]
       ELSE UNCHANGED stored
  /\ UNCHANGED <<writeQ, readQ, job, lockVars, open, seen, closer, handles>>

\* The closure panics: its answer channel is dropped, the lock released and
\* the thread unwound.
Panic(t) ==
  /\ at[t] = "run"
  /\ job[t] \in Panicking
  /\ Leave(t, [phase EXCEPT ![job[t]] = IF @ = "waiting" THEN "refused" ELSE @])
  /\ IF job[t] \in Writes
       THEN /\ stored' = [stored EXCEPT ![job[t]] = IF job[t] \in Atomic THEN 0 ELSE @]
            /\ excl' = None
            /\ UNCHANGED shared
       ELSE /\ shared' = shared \ {t}
            /\ UNCHANGED <<excl, stored>>
  /\ UNCHANGED <<writeQ, readQ, open, seen, closer, handles>>

\* Mutant: a read keeps its share of the lock.
UnlockKeepsShare(t) ==
  /\ at[t] = "unlock"
  /\ at' = [at EXCEPT ![t] = "recv"]
  /\ job' = [job EXCEPT ![t] = None]
  /\ excl' = IF job[t] \in Writes THEN None ELSE excl
  /\ UNCHANGED <<callVars, shared, open, dataVars, closer, handles>>

\* The guard of the lock goes out of scope.
Unlock(t) ==
  /\ at[t] = "unlock"
  /\ at' = [at EXCEPT ![t] = "recv"]
  /\ job' = [job EXCEPT ![t] = None]
  /\ IF job[t] \in Writes
       THEN excl' = None /\ UNCHANGED shared
       ELSE shared' = shared \ {t} /\ UNCHANGED excl
  /\ UNCHANGED <<callVars, open, dataVars, closer, handles>>

-----------------------------------------------------------------------------
(* Closing. *)

Close(k) ==
  /\ handles
  /\ closer[k] = "idle"
  /\ closer' = [closer EXCEPT ![k] = "terminating"]
  /\ UNCHANGED <<callVars, threadVars, lockVars, open, dataVars, handles>>

\* Mutant: the writer thread gets no Terminate once the readers have left.
SendTerminateToReaders(k) ==
  /\ closer[k] = "terminating"
  /\ \E t \in Threads \ {0} : at[t] # "exited"
  /\ Cardinality({i \in DOMAIN readQ : readQ[i] = Terminate}) < MaxTerminates
  /\ readQ' = Append(readQ, Terminate)
  /\ UNCHANGED <<phase, writeQ, threadVars, lockVars, open, dataVars, closer, handles>>

\* Terminates are sent for as long as some thread listens.
SendTerminate(k) ==
  /\ closer[k] = "terminating"
  /\ ~ReadersGone
  /\ Cardinality({i \in DOMAIN readQ : readQ[i] = Terminate}) < MaxTerminates
  /\ readQ' = Append(readQ, Terminate)
  /\ UNCHANGED <<phase, writeQ, threadVars, lockVars, open, dataVars, closer, handles>>

\* Mutant: the connections are taken once no read waits to be served.
MayCloseOnceDrained == readQ = <<>>

\* No thread listens any more: sending has failed.
MayClose == ReadersGone

\* The connections are taken out of the vector, under the lock, and closed;
\* SQLite may fail to close one.
TakeConnections(k) ==
  /\ closer[k] = "terminating"
  /\ MayClose
  /\ excl = None /\ shared = {}
  /\ open' = FALSE
  /\ \E outcome \in {"closed"} \cup (IF open THEN {"failed"} ELSE {}) :
       closer' = [closer EXCEPT ![k] = outcome]
  /\ UNCHANGED <<callVars, threadVars, lockVars, dataVars, handles>>
-----------------------------------------------------------------------------
(* The specification of the connection by itself: nobody outside the threads *)
(* takes the lock.                                                           *)

Init ==
  /\ phase = [c \in Calls |-> "idle"]
  /\ writeQ = <<>>
  /\ readQ = <<>>
  /\ at = [t \in Threads |-> "recv"]
  /\ job = [t \in Threads |-> None]
  /\ excl = None
  /\ shared = {}
  /\ open = TRUE
  /\ stored = Empty
  /\ seen = [r \in Reads |-> Empty]
  /\ closer = [k \in Closers |-> "idle"]
  /\ handles = TRUE

\* A thread's next step; only the writer thread serves the writer channel.
Work(t) ==
  \/ t = 0 /\ (ReceiveWrite \/ Insert)
  \/ ReceiveRead(t)
  \/ ReceiveTerminate(t)
  \/ Disconnected(t)
  \/ Lock(t)
  \/ Finish(t)
  \/ Panic(t)
  \/ Unlock(t)

CloseStep(k) == SendTerminate(k) \/ TakeConnections(k)

Next ==
  \/ \E w \in Writes : CallWriter(w)
  \/ \E r \in Reads : CallReader(r)
  \/ \E c \in Calls : Abandon(c)
  \/ \E t \in Threads : Work(t)
  \/ \E k \in Closers : Close(k) \/ CloseStep(k)
  \/ DropHandles

Spec == Init /\ [][Next]_vars

-----------------------------------------------------------------------------
(* Properties. *)

\* The closure of call c has begun and not ended.
Running(c) == \E t \in Threads : at[t] = "run" /\ job[t] = c

\* Every variable has its type; the lock is held as a read-write lock is.
TypeOK ==
  /\ phase \in [Calls -> Phases]
  /\ writeQ \in Seq(Writes)
  /\ readQ \in Seq(Reads \cup {Terminate})
  /\ at \in [Threads -> Places]
  /\ job \in [Threads -> Calls \cup {None}]
  /\ excl \in {None, 0} \cup Guests
  /\ shared \subseteq Threads
  /\ open \in BOOLEAN
  /\ stored \in [Writes \cup Guests -> 0 .. Rows]
  /\ seen \in [Reads -> [Writes \cup Guests -> 0 .. Rows]]
  /\ closer \in [Closers -> {"idle", "terminating", "closed", "failed"}]
  /\ handles \in BOOLEAN

\* No closure runs on a connection that was closed: Executor::close waits for
\* the threads before it takes the connections, and threads index the vector.
NoUseAfterClose == \A t \in Threads : at[t] = "run" => open

\* A waiting caller whose closure no thread will ever run.
Stranded(c) ==
  \/ c \in Queued(writeQ) /\ WriterGone
  \/ c \in Queued(readQ) /\ ReadersGone

\* Every caller gets an answer, or ConnectionClosed, unless its call was left
\* behind in the channel by threads that a close, or a panic, ended.
CallsEnd ==
  \A c \in Calls : phase[c] = "waiting" ~> phase[c] # "waiting" \/ Stranded(c)

\* A close that was started ends, whatever the threads were doing.
CloseEnds == \A k \in Closers : closer[k] = "terminating" ~> closer[k] # "terminating"
=============================================================================
