------------------------- MODULE GuestTransactions -------------------------
(***************************************************************************)
(* Transactions of WASM guests (crates/wasm-runtime-host) on a connection  *)
(* shared with everybody else: a guest holds the connection's lock from    *)
(* outside the worker threads, for as long as its transaction is open, and *)
(* a watcher task takes it back after a while.                             *)
(*                                                                         *)
(* A guest is one TransactionImpl; it leaves up to Rows rows.              *)
(***************************************************************************)
EXTENDS Executor

VARIABLE tx   \* progress of each guest's transaction

gvars == <<vars, tx>>

TxPhases == {"idle", "trying", "open", "committed", "ended", "timedout", "failed", "crashed"}

-----------------------------------------------------------------------------

\* TransactionImpl::new starts to poll for the lock.
Begin(x) ==
  /\ handles
  /\ tx[x] = "idle"
  /\ tx' = [tx EXCEPT ![x] = "trying"]
  /\ UNCHANGED vars

\* Polling got the lock: BEGIN, on the connection in slot 0.  Dereferencing
\* the lock of a closed connection panics; BEGIN may fail.
Acquire(x) ==
  /\ tx[x] = "trying"
  /\ excl = None /\ shared = {}
  /\ \/ /\ open
        /\ tx' = [tx EXCEPT ![x] = "open"]
        /\ excl' = x
     \/ /\ open
        /\ tx' = [tx EXCEPT ![x] = "failed"]
        /\ UNCHANGED excl
     \/ /\ ~open
        /\ tx' = [tx EXCEPT ![x] = "crashed"]
        /\ UNCHANGED excl
  /\ UNCHANGED <<callVars, threadVars, shared, open, dataVars, closer, handles>>

\* Two seconds of polling have passed.
TimeOut(x) ==
  /\ tx[x] = "trying"
  /\ tx' = [tx EXCEPT ![x] = "timedout"]
  /\ UNCHANGED vars

\* tx.execute: one more row.
Execute(x) ==
  /\ tx[x] = "open"
  /\ stored[x] < Rows
  /\ stored' = [stored EXCEPT ![x] = @ + 1]
  /\ UNCHANGED <<callVars, threadVars, lockVars, open, seen, closer, handles, tx>>

\* Mutant: an end of the transaction that does not roll back.
EndKeepsRows(x, p) ==
  /\ tx[x] = "open"
  /\ tx' = [tx EXCEPT ![x] = p]
  /\ excl' = None
  /\ UNCHANGED <<callVars, threadVars, shared, open, dataVars, closer, handles>>

\* The OwnedTx is dropped with the transaction in state p: what is not
\* committed is rolled back, and the lock released.
End(x, p) ==
  /\ tx[x] = "open"
  /\ tx' = [tx EXCEPT ![x] = p]
  /\ excl' = None
  /\ stored' = IF p = "committed" THEN stored ELSE [stored EXCEPT ![x] = 0]
  /\ UNCHANGED <<callVars, threadVars, shared, open, seen, closer, handles>>

\* tx.commit; COMMIT may fail.
Commit(x) == End(x, "committed") \/ End(x, "ended")

Rollback(x) == End(x, "ended")

\* The guest's resource is dropped, e.g. with its trapped instance.
DropTransaction(x) == End(x, "ended")

\* Mutant: the watcher spares a transaction that wrote nothing.
ForceUnlockWritten(x) == stored[x] > 0 /\ End(x, "ended")

\* The watcher finds the transaction still open after 60 seconds.
ForceUnlock(x) == End(x, "ended")

-----------------------------------------------------------------------------

GuestInit == Init /\ tx = [x \in Guests |-> "idle"]

\* The connection's own steps; a guest that polls has a clone of it.
Shared ==
  /\ Next
  /\ ~handles' => \A x \in Guests : tx[x] # "trying"
  /\ UNCHANGED tx

GuestStep(x) ==
  \/ Begin(x)
  \/ Acquire(x)
  \/ TimeOut(x)
  \/ Execute(x)
  \/ Commit(x)
  \/ Rollback(x)
  \/ DropTransaction(x)
  \/ ForceUnlock(x)

GuestNext ==
  \/ Shared
  \/ \E x \in Guests : GuestStep(x)

GuestSpec == GuestInit /\ [][GuestNext]_gvars

\* Threads run, a close goes on, polling ends and the watcher wakes up.
\* Nothing makes a guest go on with its transaction, or a caller call.
Fairness ==
  /\ \A t \in Threads : WF_gvars(Work(t) /\ UNCHANGED tx)
  /\ \A k \in Closers : WF_gvars(CloseStep(k) /\ UNCHANGED tx)
  /\ \A x \in Guests : WF_gvars(TimeOut(x)) /\ WF_gvars(ForceUnlock(x))

LiveGuestSpec == GuestSpec /\ Fairness

-----------------------------------------------------------------------------
(* Properties. *)

\* Every variable has its type.
GuestTypeOK ==
  /\ TypeOK
  /\ tx \in [Guests -> TxPhases]

\* What the writes and guests left, without those still at it.
Settled ==
  [w \in Writes \cup Guests |->
     IF Running(w) \/ (w \in Guests /\ tx[w] = "open") THEN 0 ELSE stored[w]]

\* A guest's transaction is one atomic write of the store.
Status ==
  [c \in Calls \cup Guests |->
     IF c \in Calls THEN phase[c]
     ELSE CASE tx[c] = "idle" -> "idle"
            [] tx[c] \in {"trying", "open"} -> "waiting"
            [] tx[c] = "committed" -> "answered"
            [] OTHER -> "refused"]

Answers == [r \in Reads |-> IF phase[r] = "answered" THEN seen[r] ELSE Empty]

Store == INSTANCE SerialStore WITH
  Writes <- Writes \cup Guests, Atomic <- Atomic \cup Guests,
  status <- Status, store <- Settled, answer <- Answers

\* Calls on the connection and guests' transactions look as if each took
\* effect at once: the threads, the channels and the lock show no half-done
\* write to a read, lose no write they answered and run none twice.
ImplementsStore == Store!Spec

\* The read-write SQLite connection has one user at a time: the writer
\* thread or one guest (executor.rs: "We must never access the same
\* connection concurrently even as immutable &Connection").
ConnectionNotShared ==
  /\ \A x \in Guests : tx[x] = "open" => at[0] # "run"
  /\ \A x, y \in Guests : tx[x] = "open" /\ tx[y] = "open" => x = y

\* No guest keeps the lock, whatever it does with its transaction.
LockComesBack == \A x \in Guests : tx[x] = "open" ~> tx[x] # "open"
=============================================================================
