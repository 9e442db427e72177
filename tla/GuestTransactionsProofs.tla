---------------------- MODULE GuestTransactionsProofs ----------------------
(***************************************************************************)
(* Theorems about the connection and its guests, for any calls, guests,    *)
(* closes and number of threads.                                           *)
(***************************************************************************)
EXTENDS GuestTransactions, TLAPS

\* A thread past its receive has a call; only the writer thread has writes.
JobsOK ==
  /\ \A t \in Threads : at[t] \in {"lock", "run", "unlock"} => job[t] \in Calls
  /\ \A t \in Threads : job[t] \in Writes => t = 0

\* The lock is held as the threads and guests believe it is.
LockOK ==
  /\ \A t \in Threads : at[t] \in {"run", "unlock"} =>
       /\ job[t] \in Writes => excl = t
       /\ job[t] \in Reads => t \in shared
  /\ excl # None => shared = {}
  /\ \A x \in Guests : tx[x] = "open" => excl = x

\* The connections are closed only after all threads have left.
ClosedOK == open \/ \A t \in Threads : at[t] = "exited"

LockInv == GuestTypeOK /\ JobsOK /\ LockOK /\ ClosedOK

LEMMA AppendFacts ==
  ASSUME NEW S, NEW q \in Seq(S), NEW x \in S
  PROVE  Append(q, x) \in Seq(S)
  OBVIOUS

LEMMA TailFacts ==
  ASSUME NEW S, NEW q \in Seq(S), q # <<>>
  PROVE  Head(q) \in S /\ Tail(q) \in Seq(S)
  OBVIOUS

LEMMA ThreadFacts ==
  /\ 0 \in Threads
  /\ None \notin Threads /\ None \notin Calls /\ None \notin Guests
  /\ Threads \cap Guests = {}
  BY ConstantsAssumption DEF Threads

LEMMA LockInit == GuestInit => LockInv
<1> SUFFICES ASSUME GuestInit PROVE LockInv
  OBVIOUS
<1>1. Empty \in [Writes \cup Guests -> 0 .. Rows]
  BY ConstantsAssumption DEF Empty
<1>2. <<>> \in Seq(Writes) /\ <<>> \in Seq(Reads \cup {Terminate})
  OBVIOUS
<1>3. TypeOK
  BY <1>1, <1>2, ConstantsAssumption DEF GuestInit, Init, TypeOK, Phases, Places
<1>4. tx \in [Guests -> TxPhases]
  BY DEF GuestInit, TxPhases
<1>5. JobsOK /\ LockOK /\ ClosedOK
  BY ThreadFacts DEF GuestInit, Init, JobsOK, LockOK, ClosedOK, Calls
<1> QED
  BY <1>3, <1>4, <1>5 DEF LockInv, GuestTypeOK

-----------------------------------------------------------------------------
(* The callers, and closing. *)

LEMMA LockCallers ==
  ASSUME LockInv, UNCHANGED tx,
         \/ \E w \in Writes : CallWriter(w)
         \/ \E r \in Reads : CallReader(r)
         \/ \E c \in Calls : Abandon(c)
         \/ DropHandles
  PROVE  LockInv'
<1> USE DEF threadVars, lockVars, dataVars, callVars
<1>1. UNCHANGED <<at, job, excl, shared, open, stored, seen, closer>>
  BY DEF CallWriter, CallReader, Abandon, DropHandles
<1>2. JobsOK' /\ LockOK' /\ ClosedOK'
  BY <1>1 DEF LockInv, JobsOK, LockOK, ClosedOK
<1>3. phase' \in [Calls -> Phases]
  BY DEF CallWriter, CallReader, Abandon, DropHandles, LockInv, GuestTypeOK, TypeOK, Phases
<1>4. writeQ' \in Seq(Writes)
  <2>1. writeQ \in Seq(Writes)
    BY DEF LockInv, GuestTypeOK, TypeOK
  <2>2. UNCHANGED writeQ \/ \E w \in Writes : writeQ' = Append(writeQ, w)
    BY DEF CallWriter, CallReader, Abandon, DropHandles
  <2> QED
    BY <2>1, <2>2, AppendFacts
<1>5. readQ' \in Seq(Reads \cup {Terminate})
  <2>1. readQ \in Seq(Reads \cup {Terminate})
    BY DEF LockInv, GuestTypeOK, TypeOK
  <2>2. UNCHANGED readQ \/ \E r \in Reads : readQ' = Append(readQ, r)
    BY DEF CallWriter, CallReader, Abandon, DropHandles
  <2>3. \A r \in Reads : Append(readQ, r) \in Seq(Reads \cup {Terminate})
    BY <2>1, AppendFacts
  <2> QED
    BY <2>1, <2>2, <2>3
<1>6. handles' \in BOOLEAN
  BY DEF CallWriter, CallReader, Abandon, DropHandles, LockInv, GuestTypeOK, TypeOK
<1> QED
  BY <1>1, <1>2, <1>3, <1>4, <1>5, <1>6 DEF LockInv, GuestTypeOK, TypeOK

LEMMA LockClosing ==
  ASSUME LockInv, UNCHANGED tx, NEW k \in Closers, Close(k) \/ CloseStep(k)
  PROVE  LockInv'
<1> USE DEF threadVars, lockVars, dataVars, callVars
<1>1. UNCHANGED <<at, job, excl, shared, stored, seen, phase, writeQ, handles>>
  BY DEF Close, CloseStep, SendTerminate, TakeConnections
<1>2. readQ' \in Seq(Reads \cup {Terminate})
  <2>1. readQ \in Seq(Reads \cup {Terminate})
    BY DEF LockInv, GuestTypeOK, TypeOK
  <2>2. UNCHANGED readQ \/ readQ' = Append(readQ, Terminate)
    BY DEF Close, CloseStep, SendTerminate, TakeConnections
  <2>3. Append(readQ, Terminate) \in Seq(Reads \cup {Terminate})
    BY <2>1, AppendFacts
  <2> QED
    BY <2>1, <2>2, <2>3
<1>3. \/ UNCHANGED open
      \/ open' = FALSE /\ \A t \in Threads : at[t] = "exited"
  BY DEF Close, CloseStep, SendTerminate, TakeConnections, MayClose, ReadersGone
<1>4. open' \in BOOLEAN /\ ClosedOK'
  BY <1>1, <1>3 DEF LockInv, GuestTypeOK, TypeOK, ClosedOK
<1>5. closer' \in [Closers -> {"idle", "terminating", "closed", "failed"}]
  BY DEF Close, CloseStep, SendTerminate, TakeConnections, LockInv, GuestTypeOK, TypeOK
<1>6. JobsOK' /\ LockOK'
  BY <1>1 DEF LockInv, JobsOK, LockOK
<1> QED
  BY <1>1, <1>2, <1>4, <1>5, <1>6 DEF LockInv, GuestTypeOK, TypeOK

-----------------------------------------------------------------------------
(* The event loops. *)

\* A thread leaves its loop without the lock.
LEMMA LeaveFacts ==
  ASSUME LockInv, NEW t \in Threads, NEW ph \in [Calls -> Phases], Leave(t, ph)
  PROVE  /\ at' = [at EXCEPT ![t] = "exited"]
         /\ job' = [job EXCEPT ![t] = None]
         /\ phase' \in [Calls -> Phases]
  BY DEF Leave, Phases

\* A thread receives a call it may run.
LEMMA LockReceive ==
  ASSUME LockInv, UNCHANGED tx, NEW t \in Threads, NEW c \in Calls,
         c \in Writes => t = 0,
         at[t] = "recv",
         job' = [job EXCEPT ![t] = c],
         at' = [at EXCEPT ![t] = "lock"],
         writeQ' \in Seq(Writes), readQ' \in Seq(Reads \cup {Terminate}),
         UNCHANGED <<phase, lockVars, open, dataVars, closer, handles>>
  PROVE  LockInv'
<1> USE DEF lockVars, dataVars
<1>1. GuestTypeOK'
  BY DEF LockInv, GuestTypeOK, TypeOK, Places
<1>2. JobsOK' /\ LockOK' /\ ClosedOK'
  BY DEF LockInv, GuestTypeOK, TypeOK, JobsOK, LockOK, ClosedOK
<1> QED
  BY <1>1, <1>2 DEF LockInv

\* A thread that leaves, and lets go of the lock if it holds it.
LEMMA LockLeave ==
  ASSUME LockInv, UNCHANGED tx, NEW t \in Threads, NEW ph \in [Calls -> Phases],
         Leave(t, ph),
         \/ at[t] \notin {"run", "unlock"} /\ UNCHANGED lockVars
         \/ at[t] \in {"run", "unlock"} /\ job[t] \in Writes /\ excl' = None /\ UNCHANGED shared
         \/ shared' = shared \ {t} /\ UNCHANGED excl,
         writeQ' \in Seq(Writes), readQ' \in Seq(Reads \cup {Terminate}),
         stored' \in [Writes \cup Guests -> 0 .. Rows],
         UNCHANGED <<open, seen, closer, handles>>
  PROVE  LockInv'
<1> USE DEF lockVars
<1>1. /\ at' = [at EXCEPT ![t] = "exited"]
      /\ job' = [job EXCEPT ![t] = None]
      /\ phase' \in [Calls -> Phases]
  BY LeaveFacts
<1>2. GuestTypeOK'
  BY <1>1 DEF LockInv, GuestTypeOK, TypeOK, Places
<1>3. JobsOK'
  BY <1>1, ThreadFacts DEF LockInv, GuestTypeOK, TypeOK, JobsOK, Calls
<1>4. ClosedOK'
  BY <1>1 DEF LockInv, GuestTypeOK, TypeOK, ClosedOK
<1>5. \A u \in Threads : at'[u] \in {"run", "unlock"} =>
        /\ at[u] \in {"run", "unlock"} /\ job'[u] = job[u] /\ u # t
  BY <1>1 DEF LockInv, GuestTypeOK, TypeOK
<1>6. at[t] \in {"run", "unlock"} /\ job[t] \in Writes => excl = t /\ t = 0
  BY DEF LockInv, LockOK, JobsOK
<1>7. LockOK'
  <2>1. CASE UNCHANGED lockVars
    BY <1>5, <2>1 DEF LockInv, LockOK
  <2>2. CASE at[t] \in {"run", "unlock"} /\ job[t] \in Writes /\ excl' = None /\ UNCHANGED shared
    BY <1>5, <1>6, <2>2, ThreadFacts DEF LockInv, LockOK, JobsOK
  <2>3. CASE shared' = shared \ {t} /\ UNCHANGED excl
    BY <1>5, <2>3 DEF LockInv, LockOK
  <2> QED
    BY <2>1, <2>2, <2>3
<1> QED
  BY <1>2, <1>3, <1>4, <1>7 DEF LockInv

LEMMA LockWork ==
  ASSUME LockInv, UNCHANGED tx, NEW t \in Threads, Work(t)
  PROVE  LockInv'
<1> USE DEF threadVars, lockVars, dataVars, callVars
<1> USE ThreadFacts
<1>0. /\ phase \in [Calls -> Phases] /\ writeQ \in Seq(Writes)
      /\ readQ \in Seq(Reads \cup {Terminate})
      /\ stored \in [Writes \cup Guests -> 0 .. Rows]
  BY DEF LockInv, GuestTypeOK, TypeOK
<1>1. CASE t = 0 /\ ReceiveWrite
  <2>1. Head(writeQ) \in Writes /\ writeQ' \in Seq(Writes)
    BY <1>0, <1>1, TailFacts DEF ReceiveWrite
  <2> QED
    BY <1>0, <1>1, <2>1, LockReceive DEF ReceiveWrite, Calls
<1>2. CASE t = 0 /\ Insert
  <2>1. stored' \in [Writes \cup Guests -> 0 .. Rows]
    <3>1. stored[job[0]] + 1 \in 0 .. Rows
      BY <1>0, <1>2, ConstantsAssumption DEF Insert
    <3>2. stored' = [stored EXCEPT ![job[0]] = stored[job[0]] + 1]
      BY <1>2 DEF Insert
    <3> QED
      BY <1>0, <3>1, <3>2
  <2>2. JobsOK' /\ LockOK' /\ ClosedOK'
    BY <1>2 DEF Insert, LockInv, JobsOK, LockOK, ClosedOK
  <2> QED
    BY <1>2, <2>1, <2>2 DEF Insert, LockInv, GuestTypeOK, TypeOK
<1>3. CASE ReceiveRead(t)
  <2>1. Head(readQ) \in Reads /\ readQ' \in Seq(Reads \cup {Terminate})
    BY <1>0, <1>3, TailFacts DEF ReceiveRead
  <2>2. Head(readQ) \notin Writes
    BY <2>1, ConstantsAssumption
  <2> QED
    BY <1>0, <1>3, <2>1, <2>2, LockReceive DEF ReceiveRead, Calls
<1>4. CASE ReceiveTerminate(t)
  <2>1. readQ' \in Seq(Reads \cup {Terminate})
    BY <1>0, <1>4, TailFacts DEF ReceiveTerminate
  <2> QED
    BY <1>0, <1>4, <2>1, LockLeave DEF ReceiveTerminate
<1>5. CASE Disconnected(t)
  BY <1>0, <1>5, LockLeave DEF Disconnected
<1>6. CASE Lock(t)
  <2>1. job[t] \in Calls /\ (job[t] \in Writes => t = 0) /\ (job[t] \in Writes <=> job[t] \notin Reads)
    BY <1>6, ConstantsAssumption DEF Lock, LockInv, JobsOK, Calls
  <2>2. excl = None /\ (job[t] \in Writes => shared = {})
    BY <1>6 DEF Lock, LockFreeFor
  <2>3. \/ job[t] \in Writes /\ excl' = t /\ UNCHANGED shared
        \/ job[t] \in Reads /\ shared' = shared \cup {t} /\ UNCHANGED excl
    BY <1>6, <2>1 DEF Lock
  <2>4. \E p \in {"unlock", "run"} : at' = [at EXCEPT ![t] = p]
    BY <1>6 DEF Lock
  <2>5. seen' \in [Reads -> [Writes \cup Guests -> 0 .. Rows]]
    <3>1. UNCHANGED seen \/ seen' = [seen EXCEPT ![job[t]] = stored]
      BY <1>6 DEF Lock
    <3>2. seen \in [Reads -> [Writes \cup Guests -> 0 .. Rows]]
      BY DEF LockInv, GuestTypeOK, TypeOK
    <3> QED
      BY <1>0, <3>1, <3>2
  <2>6. UNCHANGED <<job, open, stored, closer, handles, phase, writeQ, readQ>>
    BY <1>6 DEF Lock
  <2>7. GuestTypeOK'
    <3>1. at' \in [Threads -> Places]
      BY <2>4 DEF LockInv, GuestTypeOK, TypeOK, Places
    <3>2. excl' \in {None, 0} \cup Guests /\ shared' \subseteq Threads
      BY <2>1, <2>3 DEF LockInv, GuestTypeOK, TypeOK
    <3> QED
      BY <2>5, <2>6, <3>1, <3>2 DEF LockInv, GuestTypeOK, TypeOK
  <2>8. JobsOK'
    BY <1>6, <2>1, <2>4, <2>6 DEF Lock, LockInv, GuestTypeOK, TypeOK, JobsOK
  <2>9. ClosedOK'
    BY <1>6, <2>4, <2>6 DEF Lock, LockInv, GuestTypeOK, TypeOK, ClosedOK
  <2>10. LockOK'
    <3>1. \A x \in Guests : tx[x] # "open"
      BY <2>2 DEF LockInv, LockOK
    <3>2. \A u \in Threads \ {t} : at'[u] = at[u] /\ job'[u] = job[u]
      BY <2>4, <2>6 DEF LockInv, GuestTypeOK, TypeOK
    <3>3. \A u \in Threads \ {t} : at[u] \in {"run", "unlock"} =>
            job[u] \notin Writes /\ u \in shared
      BY <2>2 DEF LockInv, LockOK, JobsOK, Calls
    <3>4. \A u \in Threads \ {t} : at'[u] \in {"run", "unlock"} =>
            /\ job'[u] \in Writes => excl' = u
            /\ job'[u] \in Reads => u \in shared'
      BY <2>3, <3>2, <3>3
    <3>5. /\ job'[t] \in Writes => excl' = t
          /\ job'[t] \in Reads => t \in shared'
      BY <2>1, <2>3, <2>6
    <3>6. excl' # None => shared' = {}
      BY <2>2, <2>3
    <3> QED
      BY <3>1, <3>4, <3>5, <3>6 DEF LockOK
  <2> QED
    BY <2>7, <2>8, <2>9, <2>10 DEF LockInv
<1>7. CASE Finish(t)
  <2>1. job[t] \in Calls
    BY <1>7 DEF Finish, LockInv, JobsOK
  <2>2. phase' \in [Calls -> Phases]
    <3>1. Verdict(job[t]) \in Phases
      BY DEF Verdict, Phases
    <3>2. \E p \in Phases : phase' = [phase EXCEPT ![job[t]] = p]
      <4>1. phase[job[t]] \in Phases
        BY <1>0, <2>1
      <4>2. phase' = [phase EXCEPT ![job[t]] =
                        IF phase[job[t]] = "waiting" THEN Verdict(job[t]) ELSE phase[job[t]]]
        BY <1>7 DEF Finish
      <4> QED
        BY <3>1, <4>1, <4>2
    <3> QED
      BY <1>0, <3>2
  <2>3. stored' \in [Writes \cup Guests -> 0 .. Rows]
    <3>1. ASSUME job[t] \in Writes
          PROVE  Leaves(job[t]) \in 0 .. Rows
      <4>1. stored[job[t]] \in 0 .. Rows
        BY <1>0, <3>1
      <4>2. 0 \in 0 .. Rows
        BY ConstantsAssumption
      <4> QED
        BY <4>1, <4>2 DEF Leaves
    <3>2. CASE job[t] \in Writes
      <4>1. stored' = [stored EXCEPT ![job[t]] = Leaves(job[t])]
        BY <1>7, <3>2 DEF Finish
      <4> QED
        BY <1>0, <3>1, <3>2, <4>1
    <3>3. CASE job[t] \notin Writes
      BY <1>0, <1>7, <3>3 DEF Finish
    <3> QED
      BY <3>2, <3>3
  <2>4. at' = [at EXCEPT ![t] = "unlock"] /\ at[t] = "run"
    BY <1>7 DEF Finish
  <2>5. UNCHANGED <<job, excl, shared, open, seen, closer, handles, writeQ, readQ>>
    BY <1>7 DEF Finish
  <2>6. GuestTypeOK'
    BY <2>2, <2>3, <2>4, <2>5 DEF LockInv, GuestTypeOK, TypeOK, Places
  <2>7. JobsOK' /\ LockOK' /\ ClosedOK'
    BY <2>1, <2>4, <2>5 DEF LockInv, GuestTypeOK, TypeOK, JobsOK, LockOK, ClosedOK
  <2> QED
    BY <2>6, <2>7 DEF LockInv
<1>8. CASE Panic(t)
  <2>1. [phase EXCEPT ![job[t]] = IF @ = "waiting" THEN "refused" ELSE @] \in [Calls -> Phases]
    BY <1>0 DEF Phases
  <2>2. stored' \in [Writes \cup Guests -> 0 .. Rows]
    BY <1>0, <1>8, ConstantsAssumption DEF Panic
  <2>3. \/ at[t] \in {"run", "unlock"} /\ job[t] \in Writes /\ excl' = None /\ UNCHANGED shared
        \/ shared' = shared \ {t} /\ UNCHANGED excl
    BY <1>8 DEF Panic
  <2> QED
    BY <1>0, <1>8, <2>1, <2>2, <2>3, LockLeave DEF Panic
<1>9. CASE Unlock(t)
  <2>1. at' = [at EXCEPT ![t] = "recv"] /\ at[t] = "unlock" /\ job' = [job EXCEPT ![t] = None]
    BY <1>9 DEF Unlock
  <2>2. \/ job[t] \in Writes /\ excl' = None /\ UNCHANGED shared
        \/ shared' = shared \ {t} /\ UNCHANGED excl
    BY <1>9 DEF Unlock
  <2>3. UNCHANGED <<phase, writeQ, readQ, open, stored, seen, closer, handles>>
    BY <1>9 DEF Unlock
  <2>4. GuestTypeOK'
    BY <2>1, <2>2, <2>3 DEF LockInv, GuestTypeOK, TypeOK, Places
  <2>5. JobsOK'
    BY <2>1 DEF LockInv, GuestTypeOK, TypeOK, JobsOK, Calls
  <2>6. ClosedOK'
    BY <2>1, <2>3 DEF LockInv, ClosedOK
  <2>7. \A u \in Threads : at'[u] \in {"run", "unlock"} =>
          /\ at[u] \in {"run", "unlock"} /\ job'[u] = job[u] /\ u # t
    BY <2>1 DEF LockInv, GuestTypeOK, TypeOK
  <2>8. job[t] \in Writes => excl = t /\ t = 0
    BY <2>1 DEF LockInv, LockOK, JobsOK
  <2>9. LockOK'
    <3>1. CASE job[t] \in Writes /\ excl' = None /\ UNCHANGED shared
      BY <2>7, <2>8, <3>1 DEF LockInv, LockOK, JobsOK
    <3>2. CASE shared' = shared \ {t} /\ UNCHANGED excl
      BY <2>7, <3>2 DEF LockInv, LockOK
    <3> QED
      BY <2>2, <3>1, <3>2
  <2> QED
    BY <2>4, <2>5, <2>6, <2>9 DEF LockInv
<1> QED
  BY <1>1, <1>2, <1>3, <1>4, <1>5, <1>6, <1>7, <1>8, <1>9 DEF Work

-----------------------------------------------------------------------------
(* The guests. *)

LEMMA LockGuest ==
  ASSUME LockInv, NEW x \in Guests, GuestStep(x)
  PROVE  LockInv'
<1> USE DEF threadVars, lockVars, dataVars, callVars, vars
<1> USE ThreadFacts
<1>1. CASE Begin(x) \/ TimeOut(x)
  <2>1. \E p \in {"trying", "timedout"} : tx' = [tx EXCEPT ![x] = p]
    BY <1>1 DEF Begin, TimeOut
  <2>2. UNCHANGED vars
    BY <1>1 DEF Begin, TimeOut
  <2>3. GuestTypeOK'
    BY <2>1, <2>2 DEF LockInv, GuestTypeOK, TypeOK, TxPhases
  <2>4. JobsOK' /\ LockOK' /\ ClosedOK'
    BY <2>1, <2>2 DEF LockInv, GuestTypeOK, JobsOK, LockOK, ClosedOK
  <2> QED
    BY <2>3, <2>4 DEF LockInv
<1>2. CASE Acquire(x)
  <2>1. \/ tx' = [tx EXCEPT ![x] = "open"] /\ excl' = x
        \/ UNCHANGED excl /\ \E p \in {"failed", "crashed"} : tx' = [tx EXCEPT ![x] = p]
    BY <1>2 DEF Acquire
  <2>2. excl = None /\ shared = {}
    BY <1>2 DEF Acquire
  <2>3. UNCHANGED <<phase, writeQ, readQ, at, job, shared, open, stored, seen, closer, handles>>
    BY <1>2 DEF Acquire
  <2>4. GuestTypeOK'
    BY <2>1, <2>3 DEF LockInv, GuestTypeOK, TypeOK, TxPhases
  <2>5. JobsOK' /\ ClosedOK'
    BY <2>3 DEF LockInv, JobsOK, ClosedOK
  <2>6. LockOK'
    <3>1. \A t \in Threads : at[t] \notin {"run", "unlock"}
      BY <2>2 DEF LockInv, LockOK, JobsOK, Calls
    <3>2. \A y \in Guests : tx[y] # "open"
      BY <2>2 DEF LockInv, LockOK
    <3>3. \A y \in Guests : tx'[y] = "open" => excl' = y
      BY <2>1, <3>2 DEF LockInv, GuestTypeOK
    <3> QED
      BY <2>2, <2>3, <3>1, <3>3 DEF LockOK
  <2> QED
    BY <2>4, <2>5, <2>6 DEF LockInv
<1>3. CASE Execute(x)
  <2>1. stored' \in [Writes \cup Guests -> 0 .. Rows]
    <3>1. stored \in [Writes \cup Guests -> 0 .. Rows]
      BY DEF LockInv, GuestTypeOK, TypeOK
    <3>2. stored[x] + 1 \in 0 .. Rows
      BY <1>3, <3>1, ConstantsAssumption DEF Execute
    <3>3. stored' = [stored EXCEPT ![x] = stored[x] + 1]
      BY <1>3 DEF Execute
    <3> QED
      BY <3>1, <3>2, <3>3
  <2>2. JobsOK' /\ LockOK' /\ ClosedOK'
    BY <1>3 DEF Execute, LockInv, JobsOK, LockOK, ClosedOK
  <2> QED
    BY <1>3, <2>1, <2>2 DEF Execute, LockInv, GuestTypeOK, TypeOK
<1>4. ASSUME NEW p \in {"committed", "ended"}, End(x, p)
      PROVE  LockInv'
  <2>1. tx[x] = "open" /\ tx' = [tx EXCEPT ![x] = p] /\ excl' = None
    BY <1>4 DEF End
  <2>2. stored' \in [Writes \cup Guests -> 0 .. Rows]
    BY <1>4, ConstantsAssumption DEF End, LockInv, GuestTypeOK, TypeOK
  <2>3. UNCHANGED <<phase, writeQ, readQ, at, job, shared, open, seen, closer, handles>>
    BY <1>4 DEF End
  <2>4. GuestTypeOK'
    BY <2>1, <2>2, <2>3 DEF LockInv, GuestTypeOK, TypeOK, TxPhases
  <2>5. JobsOK' /\ ClosedOK'
    BY <2>3 DEF LockInv, JobsOK, ClosedOK
  <2>6. excl = x /\ shared = {}
    BY <2>1 DEF LockInv, LockOK
  <2>7. LockOK'
    <3>1. \A t \in Threads : at[t] \notin {"run", "unlock"}
      BY <2>6 DEF LockInv, LockOK, JobsOK, Calls
    <3>2. \A y \in Guests : tx'[y] # "open"
      BY <2>1, <2>6 DEF LockInv, LockOK, GuestTypeOK
    <3> QED
      BY <2>1, <2>3, <3>1, <3>2 DEF LockOK
  <2> QED
    BY <2>4, <2>5, <2>7 DEF LockInv
<1> QED
  BY <1>1, <1>2, <1>3, <1>4
  DEF GuestStep, Commit, Rollback, DropTransaction, ForceUnlock

-----------------------------------------------------------------------------

LEMMA LockStep ==
  ASSUME LockInv, [GuestNext]_gvars
  PROVE  LockInv'
<1>1. CASE UNCHANGED gvars
  BY <1>1
  DEF gvars, vars, callVars, threadVars, lockVars, dataVars,
      LockInv, GuestTypeOK, TypeOK, JobsOK, LockOK, ClosedOK
<1>2. CASE Shared
  BY <1>2, LockCallers, LockClosing, LockWork DEF Shared, Next
<1>3. CASE \E x \in Guests : GuestStep(x)
  BY <1>3, LockGuest
<1> QED
  BY <1>1, <1>2, <1>3 DEF GuestNext

\* Every variable keeps its type (GuestTransactions!GuestTypeOK).
THEOREM GuestTypeCorrect == GuestSpec => []GuestTypeOK
<1>1. GuestSpec => []LockInv
  BY LockInit, LockStep, PTL DEF GuestSpec
<1>2. LockInv => GuestTypeOK
  BY DEF LockInv
<1> QED
  BY <1>1, <1>2, PTL

\* The read-write connection has one user at a time, however many guests and
\* threads there are (GuestTransactions!ConnectionNotShared).
THEOREM ConnectionIsNotShared == GuestSpec => []ConnectionNotShared
<1>1. GuestSpec => []LockInv
  BY LockInit, LockStep, PTL DEF GuestSpec
<1>2. LockInv => ConnectionNotShared
  BY ThreadFacts DEF LockInv, JobsOK, LockOK, Calls, ConnectionNotShared
<1> QED
  BY <1>1, <1>2, PTL

\* No closure runs on a closed connection, also with several closes, guests,
\* panics and abandoned calls (Executor!NoUseAfterClose).
THEOREM NothingRunsAfterClose == GuestSpec => []NoUseAfterClose
<1>1. GuestSpec => []LockInv
  BY LockInit, LockStep, PTL DEF GuestSpec
<1>2. LockInv => NoUseAfterClose
  BY DEF LockInv, ClosedOK, NoUseAfterClose
<1> QED
  BY <1>1, <1>2, PTL

-----------------------------------------------------------------------------
(* The connection implements SerialStore.                                  *)

Pending(c) == c \in Queued(writeQ) \cup Queued(readQ)

OnceIn(q) == \A i, j \in DOMAIN q : q[i] = q[j] /\ q[i] \in Calls => i = j

\* A call is in one place: in a channel once, or with one thread.
PlaceOK ==
  /\ OnceIn(writeQ) /\ OnceIn(readQ)
  /\ \A t, u \in Threads : job[t] = job[u] /\ job[t] \in Calls => t = u
  /\ \A t \in Threads : job[t] \in Calls => ~Pending(job[t])
  /\ \A c \in Calls : phase[c] = "idle" => ~Pending(c) /\ \A t \in Threads : job[t] # c

\* The caller of a call that may still run was not answered.
Owed(c) == phase[c] \in {"waiting", "abandoned"}
OwedOK ==
  /\ \A t \in Threads : at[t] \in {"lock", "run"} => Owed(job[t])
  /\ ~WriterGone => \A c \in Queued(writeQ) : Owed(c)
  /\ ~ReadersGone => \A c \in Queued(readQ) \cap Reads : Owed(c)

\* What has not run yet left nothing, and neither did a guest's transaction
\* that is neither open nor committed.
UnservedOK ==
  /\ \A w \in Writes :
       phase[w] = "idle" \/ w \in Queued(writeQ) \/ (at[0] = "lock" /\ job[0] = w)
         => stored[w] = 0
  /\ \A x \in Guests : tx[x] \notin {"open", "committed"} => stored[x] = 0

\* While a read runs the store is as the read found it.
SnapshotOK ==
  \A t \in Threads : at[t] = "run" /\ job[t] \in Reads => seen[job[t]] = stored

StoreInv == LockInv /\ PlaceOK /\ OwedOK /\ UnservedOK /\ SnapshotOK

LEMMA AppendOnce ==
  ASSUME NEW S, NEW q \in Seq(S), NEW x \in S, OnceIn(q), x \notin Queued(q) \/ x \notin Calls
  PROVE  OnceIn(Append(q, x)) /\ Queued(Append(q, x)) = Queued(q) \cup {x}
<1>1. /\ DOMAIN q = 1 .. Len(q) /\ Len(q) \in Nat
      /\ DOMAIN Append(q, x) = 1 .. Len(q) + 1
      /\ \A i \in 1 .. Len(q) : Append(q, x)[i] = q[i]
      /\ Append(q, x)[Len(q) + 1] = x
  OBVIOUS
<1>2. OnceIn(Append(q, x))
  BY <1>1 DEF OnceIn, Queued
<1>3. Queued(Append(q, x)) = Queued(q) \cup {x}
  <2>1. ASSUME NEW y \in Queued(Append(q, x)) PROVE y \in Queued(q) \cup {x}
    BY <1>1, <2>1 DEF Queued
  <2>2. ASSUME NEW y \in Queued(q) \cup {x} PROVE y \in Queued(Append(q, x))
    <3>1. CASE y = x
      <4>1. Len(q) + 1 \in DOMAIN Append(q, x)
        BY <1>1
      <4> QED
        BY <1>1, <3>1, <4>1 DEF Queued
    <3>2. CASE y \in Queued(q)
      <4>1. PICK i \in DOMAIN q : y = q[i]
        BY <3>2 DEF Queued
      <4>2. i \in DOMAIN Append(q, x) /\ Append(q, x)[i] = y
        BY <1>1, <4>1
      <4> QED
        BY <4>2 DEF Queued
    <3> QED
      BY <2>2, <3>1, <3>2
  <2> QED
    BY <2>1, <2>2
<1> QED
  BY <1>2, <1>3

LEMMA TailOnce ==
  ASSUME NEW S, NEW q \in Seq(S), q # <<>>, OnceIn(q)
  PROVE  /\ OnceIn(Tail(q)) /\ Queued(Tail(q)) \subseteq Queued(q)
         /\ Head(q) \in Queued(q)
         /\ Head(q) \in Calls => Head(q) \notin Queued(Tail(q))
<1>1. /\ DOMAIN q = 1 .. Len(q) /\ Len(q) \in Nat \ {0}
      /\ DOMAIN Tail(q) = 1 .. Len(q) - 1
      /\ \A i \in 1 .. Len(q) - 1 : Tail(q)[i] = q[i + 1]
      /\ Head(q) = q[1]
  OBVIOUS
<1>2. \A i \in DOMAIN Tail(q) : i + 1 \in DOMAIN q /\ i + 1 # 1
  BY <1>1
<1>3. OnceIn(Tail(q))
  <2> SUFFICES ASSUME NEW i \in DOMAIN Tail(q), NEW j \in DOMAIN Tail(q),
                      Tail(q)[i] = Tail(q)[j], Tail(q)[i] \in Calls
               PROVE  i = j
    BY DEF OnceIn
  <2>1. i + 1 = j + 1
    BY <1>1, <1>2 DEF OnceIn
  <2> QED
    BY <1>1, <2>1
<1>4. Queued(Tail(q)) \subseteq Queued(q)
  BY <1>1, <1>2 DEF Queued
<1>5. Head(q) \in Queued(q)
  BY <1>1 DEF Queued
<1>6. Head(q) \in Calls => Head(q) \notin Queued(Tail(q))
  <2> SUFFICES ASSUME NEW i \in DOMAIN Tail(q), Tail(q)[i] = Head(q), Head(q) \in Calls
               PROVE  FALSE
    BY DEF Queued
  <2>1. q[i + 1] = q[1] /\ i + 1 \in DOMAIN q /\ 1 \in DOMAIN q
    BY <1>1, <1>2
  <2> QED
    BY <1>1, <1>2, <2>1 DEF OnceIn
<1> QED
  BY <1>3, <1>4, <1>5, <1>6

LEMMA StoreInitially == GuestInit => StoreInv
<1> SUFFICES ASSUME GuestInit PROVE StoreInv
  OBVIOUS
<1>1. Queued(writeQ) = {} /\ Queued(readQ) = {} /\ OnceIn(writeQ) /\ OnceIn(readQ)
  BY DEF GuestInit, Init, Queued, OnceIn
<1>2. PlaceOK
  BY <1>1, ThreadFacts DEF PlaceOK, Pending, GuestInit, Init
<1>3. OwedOK /\ SnapshotOK
  BY <1>1 DEF OwedOK, SnapshotOK, GuestInit, Init
<1>4. UnservedOK
  BY DEF UnservedOK, GuestInit, Init, Empty
<1> QED
  BY <1>2, <1>3, <1>4, LockInit DEF StoreInv

\* A step that moves no call from its place, answers none and changes no row.
LEMMA StoreQuiet ==
  ASSUME StoreInv, LockInv', UNCHANGED <<phase, writeQ, readQ, at, job, stored, seen>>,
         \A x \in Guests : tx'[x] \notin {"open", "committed"} => tx[x] \notin {"open", "committed"}
  PROVE  StoreInv'
BY DEF StoreInv, PlaceOK, Pending, OwedOK, Owed, UnservedOK, SnapshotOK, WriterGone, ReadersGone

LEMMA StoreCallers ==
  ASSUME StoreInv, LockInv', UNCHANGED tx,
         \/ \E w \in Writes : CallWriter(w)
         \/ \E r \in Reads : CallReader(r)
         \/ \E c \in Calls : Abandon(c)
         \/ DropHandles
  PROVE  StoreInv'
<1> USE DEF threadVars, dataVars, callVars
<1>0. /\ phase \in [Calls -> Phases] /\ writeQ \in Seq(Writes) /\ 0 \in Threads
      /\ readQ \in Seq(Reads \cup {Terminate})
  BY ThreadFacts DEF StoreInv, LockInv, GuestTypeOK, TypeOK
<1>1. UNCHANGED <<at, job, stored, seen, tx>>
  BY DEF CallWriter, CallReader, Abandon, DropHandles
<1>2. SnapshotOK'
  BY <1>1 DEF StoreInv, SnapshotOK
<1>3. ASSUME NEW w \in Writes, CallWriter(w) PROVE StoreInv'
  <2>1. /\ w \in Calls /\ ~Pending(w) /\ \A t \in Threads : job[t] # w
        /\ phase[w] = "idle" /\ stored[w] = 0
    BY <1>3 DEF CallWriter, StoreInv, PlaceOK, UnservedOK, Calls
  <2>2. CASE WriterGone
    <3>1. phase' = [phase EXCEPT ![w] = "refused"] /\ UNCHANGED <<writeQ, readQ>>
      BY <1>3, <2>2 DEF CallWriter
    <3>2. PlaceOK'
      BY <1>0, <1>1, <2>1, <3>1 DEF StoreInv, PlaceOK, Pending
    <3>3. OwedOK'
      BY <1>0, <1>1, <2>1, <3>1
      DEF StoreInv, LockInv, JobsOK, OwedOK, Owed, Pending, WriterGone, ReadersGone
    <3>4. UnservedOK'
      BY <1>0, <1>1, <2>1, <3>1 DEF StoreInv, UnservedOK
    <3> QED
      BY <1>2, <3>2, <3>3, <3>4 DEF StoreInv
  <2>3. CASE ~WriterGone
    <3>1. phase' = [phase EXCEPT ![w] = "waiting"] /\ writeQ' = Append(writeQ, w) /\ UNCHANGED readQ
      BY <1>3, <2>3 DEF CallWriter
    <3>2. OnceIn(writeQ') /\ Queued(writeQ') = Queued(writeQ) \cup {w}
      BY <1>0, <2>1, <3>1, AppendOnce DEF StoreInv, PlaceOK, Pending
    <3>3. PlaceOK'
      BY <1>0, <1>1, <2>1, <3>1, <3>2 DEF StoreInv, PlaceOK, Pending
    <3>4. OwedOK'
      BY <1>0, <1>1, <2>1, <3>1, <3>2
      DEF StoreInv, LockInv, JobsOK, OwedOK, Owed, Pending, WriterGone, ReadersGone
    <3>5. UnservedOK'
      BY <1>0, <1>1, <2>1, <3>1, <3>2 DEF StoreInv, UnservedOK
    <3> QED
      BY <1>2, <3>3, <3>4, <3>5 DEF StoreInv
  <2> QED
    BY <2>2, <2>3
<1>4. ASSUME NEW r \in Reads, CallReader(r) PROVE StoreInv'
  <2>1. /\ r \in Calls /\ ~Pending(r) /\ \A t \in Threads : job[t] # r
        /\ phase[r] = "idle" /\ r \notin Writes
    BY <1>4, ConstantsAssumption DEF CallReader, StoreInv, PlaceOK, UnservedOK, Calls
  <2>2. CASE ReadersGone
    <3>1. phase' = [phase EXCEPT ![r] = "refused"] /\ UNCHANGED <<writeQ, readQ>>
      BY <1>4, <2>2 DEF CallReader
    <3>2. PlaceOK'
      BY <1>0, <1>1, <2>1, <3>1 DEF StoreInv, PlaceOK, Pending
    <3>3. OwedOK'
      BY <1>0, <1>1, <2>1, <3>1
      DEF StoreInv, LockInv, JobsOK, OwedOK, Owed, Pending, WriterGone, ReadersGone
    <3>4. UnservedOK'
      BY <1>0, <1>1, <2>1, <3>1 DEF StoreInv, UnservedOK
    <3> QED
      BY <1>2, <3>2, <3>3, <3>4 DEF StoreInv
  <2>3. CASE ~ReadersGone
    <3>1. phase' = [phase EXCEPT ![r] = "waiting"] /\ readQ' = Append(readQ, r) /\ UNCHANGED writeQ
      BY <1>4, <2>3 DEF CallReader
    <3>2. OnceIn(readQ') /\ Queued(readQ') = Queued(readQ) \cup {r}
      BY <1>0, <2>1, <3>1, AppendOnce DEF StoreInv, PlaceOK, Pending
    <3>3. PlaceOK'
      BY <1>0, <1>1, <2>1, <3>1, <3>2 DEF StoreInv, PlaceOK, Pending
    <3>4. OwedOK'
      BY <1>0, <1>1, <2>1, <3>1, <3>2
      DEF StoreInv, LockInv, JobsOK, OwedOK, Owed, Pending, WriterGone, ReadersGone
    <3>5. UnservedOK'
      BY <1>0, <1>1, <2>1, <3>1 DEF StoreInv, UnservedOK
    <3> QED
      BY <1>2, <3>3, <3>4, <3>5 DEF StoreInv
  <2> QED
    BY <2>2, <2>3
<1>5. ASSUME NEW c \in Calls, Abandon(c) PROVE StoreInv'
  <2>1. phase' = [phase EXCEPT ![c] = "abandoned"] /\ phase[c] = "waiting"
        /\ UNCHANGED <<writeQ, readQ>>
    BY <1>5 DEF Abandon
  <2>2. PlaceOK'
    BY <1>0, <1>1, <2>1 DEF StoreInv, PlaceOK, Pending
  <2>3. OwedOK'
    BY <1>0, <1>1, <2>1 DEF StoreInv, LockInv, JobsOK, OwedOK, Owed, WriterGone, ReadersGone
  <2>4. UnservedOK'
    BY <1>0, <1>1, <2>1 DEF StoreInv, UnservedOK
  <2> QED
    BY <1>2, <2>2, <2>3, <2>4 DEF StoreInv
<1>6. CASE DropHandles
  BY <1>1, <1>6, StoreQuiet DEF DropHandles
<1> QED
  BY <1>3, <1>4, <1>5, <1>6

LEMMA StoreClosing ==
  ASSUME StoreInv, LockInv', UNCHANGED tx, NEW k \in Closers, Close(k) \/ CloseStep(k)
  PROVE  StoreInv'
<1> USE DEF threadVars, dataVars, callVars
<1>1. CASE Close(k) \/ TakeConnections(k)
  BY <1>1, StoreQuiet DEF Close, TakeConnections
<1>2. CASE SendTerminate(k)
  <2>1. UNCHANGED <<phase, writeQ, at, job, stored, seen, tx>> /\ readQ' = Append(readQ, Terminate)
    BY <1>2 DEF SendTerminate
  <2>2. readQ \in Seq(Reads \cup {Terminate}) /\ Terminate \notin Calls
    BY ConstantsAssumption DEF StoreInv, LockInv, GuestTypeOK, TypeOK
  <2>3. OnceIn(readQ') /\ Queued(readQ') = Queued(readQ) \cup {Terminate}
    BY <2>1, <2>2, AppendOnce DEF StoreInv, PlaceOK
  <2>4. PlaceOK'
    BY <2>1, <2>2, <2>3 DEF StoreInv, PlaceOK, Pending
  <2>5. OwedOK' /\ UnservedOK' /\ SnapshotOK'
    BY <2>1, <2>2, <2>3 DEF StoreInv, OwedOK, Owed, UnservedOK, SnapshotOK, WriterGone, ReadersGone, Calls
  <2> QED
    BY <2>4, <2>5 DEF StoreInv
<1> QED
  BY <1>1, <1>2 DEF CloseStep

LEMMA LeaveRefuses ==
  ASSUME NEW t \in Threads, NEW ph \in [Calls -> Phases], Leave(t, ph)
  PROVE  \E cs \in SUBSET {c \in Calls : ph[c] = "waiting"} :
           /\ phase' = [c \in Calls |-> IF c \in cs THEN "refused" ELSE ph[c]]
           /\ \A c \in cs : \/ t = 0 /\ c \in Queued(writeQ)
                            \/ /\ \A u \in Threads \ {t} : at[u] = "exited"
                               /\ c \in Queued(readQ)
<1> DEFINE stranded ==
        (IF t = 0 THEN Queued(writeQ) ELSE {}) \cup
        (IF \A u \in Threads \ {t} : at[u] = "exited" THEN Queued(readQ) ELSE {})
<1>1. PICK gone \in {{}, stranded} :
           phase' = [c \in Calls |->
                       IF c \in gone /\ ph[c] = "waiting" THEN "refused" ELSE ph[c]]
  BY DEF Leave
<1> DEFINE cs == {c \in Calls : c \in gone /\ ph[c] = "waiting"}
<1>2. phase' = [c \in Calls |-> IF c \in cs THEN "refused" ELSE ph[c]]
  BY <1>1
<1>3. \A c \in cs : \/ t = 0 /\ c \in Queued(writeQ)
                    \/ /\ \A u \in Threads \ {t} : at[u] = "exited"
                       /\ c \in Queued(readQ)
  BY <1>1
<1>4. cs \in SUBSET {c \in Calls : ph[c] = "waiting"}
  OBVIOUS
<1> QED
  BY <1>2, <1>3, <1>4

\* A thread leaves; the call it may be running ends with it.
LEMMA StoreLeave ==
  ASSUME StoreInv, LockInv', NEW t \in Threads, NEW ph \in [Calls -> Phases], Leave(t, ph),
         UNCHANGED <<writeQ, seen, tx>>,
         OnceIn(readQ'), Queued(readQ') \subseteq Queued(readQ),
         \A c \in Calls : ph[c] = phase[c] \/ (at[t] = "run" /\ c = job[t] /\ ph[c] = "refused"),
         stored' = stored \/ (at[t] = "run" /\ job[t] \in Writes
                              /\ \A w \in Writes \cup Guests : w # job[t] => stored'[w] = stored[w])
  PROVE  StoreInv'
<1> USE ThreadFacts
<1>0. /\ phase \in [Calls -> Phases] /\ at \in [Threads -> Places]
      /\ job \in [Threads -> Calls \cup {None}] /\ Queued(writeQ) \subseteq Writes
      /\ Queued(readQ) \subseteq Reads \cup {Terminate}
  BY DEF StoreInv, LockInv, GuestTypeOK, TypeOK, Queued
<1>1. /\ at' = [at EXCEPT ![t] = "exited"]
      /\ job' = [job EXCEPT ![t] = None]
  BY DEF Leave
<1>2. PICK cs \in SUBSET {c \in Calls : ph[c] = "waiting"} :
           /\ phase' = [c \in Calls |-> IF c \in cs THEN "refused" ELSE ph[c]]
           /\ \A c \in cs : \/ t = 0 /\ c \in Queued(writeQ)
                            \/ /\ \A u \in Threads \ {t} : at[u] = "exited"
                               /\ c \in Queued(readQ)
  BY LeaveRefuses
<1>3. \A c \in Calls :
        \/ phase'[c] = phase[c]
        \/ phase'[c] = "refused" /\ (c \in cs \/ (at[t] = "run" /\ c = job[t]))
  BY <1>2
<1>4. \A u \in Threads : u # t => at'[u] = at[u] /\ job'[u] = job[u]
  BY <1>0, <1>1
<1>5. at'[t] = "exited" /\ job'[t] = None
  BY <1>0, <1>1
<1>6. PlaceOK'
  <2>1. \A c \in Calls : Pending(c)' => Pending(c)
    BY DEF Pending
  <2>2. \A u \in Threads : job'[u] \in Calls => u # t /\ job'[u] = job[u]
    BY <1>4, <1>5
  <2>3. \A c \in Calls : phase'[c] = "idle" => phase[c] = "idle"
    BY <1>3
  <2> QED
    BY <2>1, <2>2, <2>3 DEF StoreInv, PlaceOK
<1>7. OwedOK'
  <2>1. ASSUME NEW u \in Threads, at'[u] \in {"lock", "run"} PROVE Owed(job[u])'
    <3>1. u # t /\ at[u] = at'[u] /\ job'[u] = job[u] /\ job[u] \in Calls
      BY <1>4, <1>5, <2>1 DEF StoreInv, LockInv, JobsOK
    <3>2. Owed(job[u]) /\ job[u] # job[t] /\ ~Pending(job[u])
      BY <2>1, <3>1 DEF StoreInv, PlaceOK, OwedOK
    <3>3. job[u] \notin cs
      BY <1>2, <3>2 DEF Pending
    <3> QED
      BY <1>3, <3>1, <3>2, <3>3 DEF Owed
  <2>2. ASSUME ~WriterGone', NEW c \in Queued(writeQ) PROVE Owed(c)'
    <3>1. t # 0 /\ at[0] # "exited"
      BY <1>4, <1>5, <2>2 DEF WriterGone
    <3>2. c \in Writes /\ c \notin Queued(readQ) /\ c \in Calls
      BY <1>0, ConstantsAssumption DEF Calls
    <3>3. c \notin cs
      BY <1>2, <3>1, <3>2
    <3>4. ~(at[t] = "run" /\ c = job[t])
      BY <3>2 DEF StoreInv, PlaceOK, Pending
    <3> QED
      BY <1>3, <3>1, <3>2, <3>3, <3>4 DEF StoreInv, OwedOK, Owed, WriterGone
  <2>3. ASSUME ~ReadersGone', NEW c \in Queued(readQ') \cap Reads PROVE Owed(c)'
    <3>1. \E u \in Threads \ {t} : at[u] # "exited"
      BY <1>4, <1>5, <2>3 DEF ReadersGone
    <3>2. c \in Queued(readQ) /\ c \notin Queued(writeQ) /\ c \in Calls
      BY <1>0, ConstantsAssumption DEF Calls
    <3>3. c \notin cs
      BY <1>2, <3>1, <3>2
    <3>4. ~(at[t] = "run" /\ c = job[t])
      BY <3>2 DEF StoreInv, PlaceOK, Pending
    <3> QED
      BY <1>3, <3>1, <3>2, <3>3, <3>4 DEF StoreInv, OwedOK, Owed, ReadersGone
  <2> QED
    BY <2>1, <2>2, <2>3 DEF OwedOK
<1>8. UnservedOK'
  <2>1. ASSUME NEW w \in Writes,
               phase'[w] = "idle" \/ w \in Queued(writeQ') \/ (at'[0] = "lock" /\ job'[0] = w)
        PROVE  stored'[w] = 0
    <3>1. w \in Calls
      BY DEF Calls
    <3>2. phase[w] = "idle" \/ w \in Queued(writeQ) \/ (at[0] = "lock" /\ job[0] = w /\ t # 0)
      BY <1>3, <1>4, <1>5, <2>1, <3>1
    <3>3. stored[w] = 0
      BY <3>2 DEF StoreInv, UnservedOK
    <3>4. at[t] = "run" => w # job[t]
      BY <3>1, <3>2 DEF StoreInv, PlaceOK, Pending
    <3> QED
      BY <3>3, <3>4
  <2>2. \A x \in Guests : stored'[x] = stored[x]
    BY ConstantsAssumption
  <2> QED
    BY <2>1, <2>2 DEF StoreInv, UnservedOK
<1>9. SnapshotOK'
  <2> SUFFICES ASSUME NEW u \in Threads, at'[u] = "run", job'[u] \in Reads
               PROVE  seen[job[u]] = stored' /\ job'[u] = job[u]
    BY DEF SnapshotOK
  <2>1. u # t /\ at[u] = "run" /\ job[u] \in Reads /\ job'[u] = job[u]
    BY <1>4, <1>5
  <2>2. u \in shared
    BY <2>1 DEF StoreInv, LockInv, LockOK
  <2>3. ~(at[t] = "run" /\ job[t] \in Writes)
    BY <2>2 DEF StoreInv, LockInv, LockOK
  <2> QED
    BY <2>1, <2>3 DEF StoreInv, SnapshotOK
<1> QED
  BY <1>6, <1>7, <1>8, <1>9 DEF StoreInv

\* A thread takes the next call of a channel.
LEMMA StoreReceive ==
  ASSUME StoreInv, LockInv', NEW t \in Threads, NEW c \in Calls,
         \/ c \in Queued(writeQ) /\ t = 0 /\ c \notin Queued(writeQ') /\ UNCHANGED readQ
         \/ c \in Queued(readQ) \cap Reads /\ c \notin Queued(readQ') /\ UNCHANGED writeQ,
         OnceIn(writeQ'), OnceIn(readQ'),
         Queued(writeQ') \subseteq Queued(writeQ), Queued(readQ') \subseteq Queued(readQ),
         at[t] = "recv",
         job' = [job EXCEPT ![t] = c],
         at' = [at EXCEPT ![t] = "lock"],
         UNCHANGED <<phase, stored, seen, tx>>
  PROVE  StoreInv'
<1> USE ThreadFacts
<1>0. /\ phase \in [Calls -> Phases] /\ at \in [Threads -> Places]
      /\ job \in [Threads -> Calls \cup {None}] /\ Queued(writeQ) \subseteq Writes
      /\ Queued(readQ) \subseteq Reads \cup {Terminate} /\ Writes \cap Reads = {}
      /\ Terminate \notin Writes
  BY ConstantsAssumption DEF StoreInv, LockInv, GuestTypeOK, TypeOK, Queued, Calls
<1>1. \A u \in Threads : u # t => at'[u] = at[u] /\ job'[u] = job[u]
  BY <1>0
<1>2. at'[t] = "lock" /\ job'[t] = c /\ at[t] = "recv"
  BY <1>0
<1>3. Pending(c) /\ \A u \in Threads : job[u] # c
  BY DEF StoreInv, PlaceOK, Pending
<1>4. c \notin Queued(writeQ') /\ c \notin Queued(readQ')
  BY <1>0
<1>5. PlaceOK'
  <2>1. \A d \in Calls : Pending(d)' => Pending(d) /\ d # c
    BY <1>4 DEF Pending
  <2> QED
    BY <1>1, <1>2, <1>3, <2>1 DEF StoreInv, PlaceOK
<1>6. OwedOK'
  <2>1. Owed(c)
    BY <1>2, ConstantsAssumption DEF StoreInv, OwedOK, WriterGone, ReadersGone
  <2>2. (WriterGone' <=> WriterGone) /\ (ReadersGone' <=> ReadersGone)
    BY <1>1, <1>2 DEF WriterGone, ReadersGone
  <2> QED
    BY <1>1, <1>2, <2>1, <2>2 DEF StoreInv, OwedOK, Owed
<1>7. UnservedOK'
  BY <1>0, <1>1, <1>2 DEF StoreInv, UnservedOK
<1>8. SnapshotOK'
  BY <1>1, <1>2 DEF StoreInv, SnapshotOK
<1> QED
  BY <1>5, <1>6, <1>7, <1>8 DEF StoreInv

\* The rows of what a thread runs change, or no rows do; it may end.
LEMMA StoreRun ==
  ASSUME StoreInv, LockInv', NEW t \in Threads, at[t] = "run", job[t] \in Calls,
         NEW p \in {"run", "unlock"}, at' = [at EXCEPT ![t] = p],
         stored' = stored \/ (job[t] \in Writes
                              /\ \A w \in Writes \cup Guests : w # job[t] => stored'[w] = stored[w]),
         \A c \in Calls : phase'[c] = phase[c] \/ (c = job[t] /\ phase'[c] # "idle" /\ p = "unlock"),
         UNCHANGED <<writeQ, readQ, job, seen, tx>>
  PROVE  StoreInv'
<1> USE ThreadFacts
<1>0. /\ at \in [Threads -> Places] /\ Queued(writeQ) \subseteq Writes
      /\ Writes \subseteq Calls /\ Reads \subseteq Calls
  BY DEF StoreInv, LockInv, GuestTypeOK, TypeOK, Queued, Calls
<1>1. \A u \in Threads : u # t => at'[u] = at[u] /\ job[u] # job[t]
  BY <1>0 DEF StoreInv, PlaceOK
<1>2. at'[t] = p
  BY <1>0
<1>3. ~Pending(job[t]) /\ \A c \in Calls : phase[c] = "idle" => c # job[t]
  BY DEF StoreInv, PlaceOK
<1>4. PlaceOK'
  BY <1>1, <1>2 DEF StoreInv, PlaceOK, Pending
<1>5. OwedOK'
  <2>1. (WriterGone' <=> WriterGone) /\ (ReadersGone' <=> ReadersGone)
    BY <1>1, <1>2 DEF WriterGone, ReadersGone
  <2>2. \A u \in Threads : at'[u] \in {"lock", "run"} => Owed(job[u])'
    <3> SUFFICES ASSUME NEW u \in Threads, at'[u] \in {"lock", "run"} PROVE Owed(job[u])'
      OBVIOUS
    <3>1. at[u] \in {"lock", "run"} /\ job[u] \in Calls /\ (u = t => p = "run")
      BY <1>1, <1>2 DEF StoreInv, LockInv, JobsOK
    <3>2. phase'[job[u]] = phase[job[u]]
      BY <1>1, <3>1
    <3> QED
      BY <3>1, <3>2 DEF StoreInv, OwedOK, Owed
  <2>3. \A c \in Calls : Pending(c) => phase'[c] = phase[c]
    BY <1>3
  <2> QED
    BY <1>0, <2>1, <2>2, <2>3 DEF StoreInv, OwedOK, Owed, Pending
<1>6. UnservedOK'
  <2>1. ASSUME NEW w \in Writes,
               phase'[w] = "idle" \/ w \in Queued(writeQ) \/ (at'[0] = "lock" /\ job[0] = w)
        PROVE  stored'[w] = 0
    <3>1. w # job[t] /\ w \in Calls
      BY <1>0, <1>1, <1>2, <1>3, <2>1 DEF Pending
    <3>2. phase[w] = "idle" \/ w \in Queued(writeQ) \/ (at[0] = "lock" /\ job[0] = w)
      BY <1>1, <1>2, <2>1, <3>1
    <3> QED
      BY <3>1, <3>2 DEF StoreInv, UnservedOK
  <2>2. \A x \in Guests : stored'[x] = stored[x]
    BY ConstantsAssumption
  <2> QED
    BY <2>1, <2>2 DEF StoreInv, UnservedOK
<1>7. SnapshotOK'
  <2> SUFFICES ASSUME NEW u \in Threads, at'[u] = "run", job[u] \in Reads
               PROVE  seen[job[u]] = stored'
    BY DEF SnapshotOK
  <2>1. at[u] = "run"
    BY <1>1, <1>2
  <2>2. u \in shared
    BY <2>1 DEF StoreInv, LockInv, LockOK
  <2>3. job[t] \notin Writes
    BY <2>2 DEF StoreInv, LockInv, LockOK
  <2> QED
    BY <2>1, <2>3 DEF StoreInv, SnapshotOK
<1> QED
  BY <1>4, <1>5, <1>6, <1>7 DEF StoreInv

LEMMA StoreWork ==
  ASSUME StoreInv, LockInv', UNCHANGED tx, NEW t \in Threads, Work(t)
  PROVE  StoreInv'
<1> USE DEF threadVars, lockVars, dataVars, callVars
<1> USE ThreadFacts
<1>0. /\ phase \in [Calls -> Phases] /\ writeQ \in Seq(Writes)
      /\ readQ \in Seq(Reads \cup {Terminate})
      /\ at \in [Threads -> Places] /\ job \in [Threads -> Calls \cup {None}]
      /\ stored \in [Writes \cup Guests -> 0 .. Rows]
      /\ seen \in [Reads -> [Writes \cup Guests -> 0 .. Rows]]
      /\ OnceIn(writeQ) /\ OnceIn(readQ)
  BY DEF StoreInv, PlaceOK, LockInv, GuestTypeOK, TypeOK
<1>1. CASE t = 0 /\ ReceiveWrite
  <2>1. /\ OnceIn(Tail(writeQ)) /\ Queued(Tail(writeQ)) \subseteq Queued(writeQ)
        /\ Head(writeQ) \in Queued(writeQ)
        /\ Head(writeQ) \in Calls => Head(writeQ) \notin Queued(Tail(writeQ))
    BY <1>0, <1>1, TailOnce DEF ReceiveWrite
  <2>2. Head(writeQ) \in Calls
    BY <1>0, <1>1, TailFacts DEF ReceiveWrite, Calls
  <2> QED
    BY <1>0, <1>1, <2>1, <2>2, StoreReceive DEF ReceiveWrite
<1>2. CASE t = 0 /\ Insert
  <2>1. job[t] \in Calls /\ at' = [at EXCEPT ![t] = "run"]
    BY <1>0, <1>2 DEF Insert, Calls
  <2>2. \A w \in Writes \cup Guests : w # job[t] => stored'[w] = stored[w]
    BY <1>0, <1>2 DEF Insert
  <2> QED
    BY <1>2, <2>1, <2>2, StoreRun DEF Insert
<1>3. CASE ReceiveRead(t)
  <2>1. /\ OnceIn(Tail(readQ)) /\ Queued(Tail(readQ)) \subseteq Queued(readQ)
        /\ Head(readQ) \in Queued(readQ)
        /\ Head(readQ) \in Calls => Head(readQ) \notin Queued(Tail(readQ))
    BY <1>0, <1>3, TailOnce DEF ReceiveRead
  <2>2. Head(readQ) \in Reads /\ Head(readQ) \in Calls
    BY <1>0, <1>3, TailFacts DEF ReceiveRead, Calls
  <2> QED
    BY <1>0, <1>3, <2>1, <2>2, StoreReceive DEF ReceiveRead
<1>4. CASE ReceiveTerminate(t)
  <2>1. OnceIn(readQ') /\ Queued(readQ') \subseteq Queued(readQ)
    BY <1>0, <1>4, TailOnce DEF ReceiveTerminate
  <2> QED
    BY <1>0, <1>4, <2>1, StoreLeave DEF ReceiveTerminate
<1>5. CASE Disconnected(t)
  BY <1>0, <1>5, StoreLeave DEF Disconnected
<1>6. CASE Lock(t)
  <2>1. PICK p \in {"unlock", "run"} : at' = [at EXCEPT ![t] = p]
    BY <1>6 DEF Lock
  <2>2. \A u \in Threads : u # t => at'[u] = at[u]
    BY <1>0, <2>1
  <2>3. at[t] = "lock" /\ at'[t] = p /\ job[t] \in Calls
    BY <1>0, <1>6, <2>1 DEF Lock, StoreInv, LockInv, JobsOK
  <2>4. UNCHANGED <<phase, writeQ, readQ, job, stored, tx>>
    BY <1>6 DEF Lock
  <2>5. PlaceOK'
    BY <2>2, <2>3, <2>4 DEF StoreInv, PlaceOK, Pending
  <2>6. OwedOK'
    <3>1. (WriterGone' <=> WriterGone) /\ (ReadersGone' <=> ReadersGone)
      BY <2>2, <2>3 DEF WriterGone, ReadersGone
    <3> QED
      BY <2>2, <2>3, <2>4, <3>1 DEF StoreInv, OwedOK, Owed
  <2>7. UnservedOK'
    BY <2>2, <2>3, <2>4 DEF StoreInv, UnservedOK
  <2>8. SnapshotOK'
    <3> SUFFICES ASSUME NEW u \in Threads, at'[u] = "run", job[u] \in Reads
                 PROVE  seen'[job[u]] = stored
      BY <2>4 DEF SnapshotOK
    <3>1. CASE u = t
      <4>1. phase[job[t]] # "abandoned"
        BY <1>0, <1>6, <2>3, <3>1 DEF Lock
      <4> QED
        BY <1>0, <1>6, <3>1, <4>1 DEF Lock
    <3>2. CASE u # t
      <4>1. at[u] = "run" /\ job[u] # job[t]
        BY <2>2, <2>3, <3>2 DEF StoreInv, PlaceOK
      <4>2. seen'[job[u]] = seen[job[u]]
        BY <1>0, <1>6, <4>1 DEF Lock
      <4> QED
        BY <4>1, <4>2 DEF StoreInv, SnapshotOK
    <3> QED
      BY <3>1, <3>2
  <2> QED
    BY <2>5, <2>6, <2>7, <2>8 DEF StoreInv
<1>7. CASE Finish(t)
  <2>1. at[t] = "run" /\ job[t] \in Calls /\ at' = [at EXCEPT ![t] = "unlock"]
    BY <1>7 DEF Finish, StoreInv, LockInv, JobsOK
  <2>2. stored' = stored \/ (job[t] \in Writes
                             /\ \A w \in Writes \cup Guests : w # job[t] => stored'[w] = stored[w])
    BY <1>0, <1>7 DEF Finish
  <2>3. \A c \in Calls : phase'[c] = phase[c] \/ (c = job[t] /\ phase'[c] # "idle")
    BY <1>0, <1>7, <2>1 DEF Finish, Verdict
  <2> QED
    BY <1>7, <2>1, <2>2, <2>3, StoreRun DEF Finish
<1>8. CASE Panic(t)
  <2> DEFINE ph == [phase EXCEPT ![job[t]] = IF @ = "waiting" THEN "refused" ELSE @]
  <2>1. /\ ph \in [Calls -> Phases] /\ Leave(t, ph) /\ at[t] = "run"
        /\ \A c \in Calls : ph[c] = phase[c] \/ (at[t] = "run" /\ c = job[t] /\ ph[c] = "refused")
    BY <1>0, <1>8 DEF Panic, Phases
  <2>2. stored' = stored \/ (at[t] = "run" /\ job[t] \in Writes
                             /\ \A w \in Writes \cup Guests : w # job[t] => stored'[w] = stored[w])
    BY <1>0, <1>8 DEF Panic
  <2>3. UNCHANGED <<writeQ, readQ, seen, tx>>
    BY <1>8 DEF Panic
  <2> HIDE DEF ph
  <2> QED
    BY <1>0, <2>1, <2>2, <2>3, StoreLeave, ZenonT(60)
<1>9. CASE Unlock(t)
  <2>1. at' = [at EXCEPT ![t] = "recv"] /\ at[t] = "unlock" /\ job' = [job EXCEPT ![t] = None]
    BY <1>9 DEF Unlock
  <2>2. UNCHANGED <<phase, writeQ, readQ, stored, seen, tx>>
    BY <1>9 DEF Unlock
  <2>3. \A u \in Threads : u # t => at'[u] = at[u] /\ job'[u] = job[u]
    BY <1>0, <2>1
  <2>4. at'[t] = "recv" /\ job'[t] = None
    BY <1>0, <2>1
  <2>5. PlaceOK'
    BY <2>2, <2>3, <2>4 DEF StoreInv, PlaceOK, Pending
  <2>6. OwedOK'
    <3>1. (WriterGone' <=> WriterGone) /\ (ReadersGone' <=> ReadersGone)
      BY <2>1, <2>3, <2>4 DEF WriterGone, ReadersGone
    <3> QED
      BY <2>2, <2>3, <2>4, <3>1 DEF StoreInv, OwedOK, Owed
  <2>7. UnservedOK' /\ SnapshotOK'
    BY <2>2, <2>3, <2>4 DEF StoreInv, UnservedOK, SnapshotOK
  <2> QED
    BY <2>5, <2>6, <2>7 DEF StoreInv
<1> QED
  BY <1>1, <1>2, <1>3, <1>4, <1>5, <1>6, <1>7, <1>8, <1>9 DEF Work

LEMMA StoreGuest ==
  ASSUME StoreInv, LockInv', NEW x \in Guests, GuestStep(x)
  PROVE  StoreInv'
<1> USE DEF vars, threadVars, lockVars, dataVars, callVars
<1>0. tx \in [Guests -> TxPhases] /\ stored \in [Writes \cup Guests -> 0 .. Rows]
  BY DEF StoreInv, LockInv, GuestTypeOK, TypeOK
<1>1. CASE Begin(x) \/ TimeOut(x) \/ Acquire(x)
  <2>1. UNCHANGED <<phase, writeQ, readQ, at, job, stored, seen>>
    BY <1>1 DEF Begin, TimeOut, Acquire
  <2>2. \A y \in Guests : tx'[y] = tx[y] \/ tx[y] \notin {"open", "committed"}
    BY <1>0, <1>1 DEF Begin, TimeOut, Acquire
  <2> QED
    BY <2>1, <2>2, StoreQuiet
<1>2. ASSUME tx[x] = "open", UNCHANGED <<phase, writeQ, readQ, at, job, seen>>,
             \A y \in Writes \cup Guests : y # x => stored'[y] = stored[y],
             \A y \in Guests : y # x => tx'[y] = tx[y],
             tx'[x] \notin {"open", "committed"} => stored'[x] = 0
      PROVE  StoreInv'
  <2>1. PlaceOK' /\ OwedOK'
    BY <1>2 DEF StoreInv, PlaceOK, Pending, OwedOK, Owed, WriterGone, ReadersGone
  <2>2. UnservedOK'
    BY <1>2, ConstantsAssumption DEF StoreInv, UnservedOK
  <2>3. \A t \in Threads : at[t] = "run" => job[t] \notin Reads
    BY <1>2, ThreadFacts DEF StoreInv, LockInv, LockOK
  <2>4. SnapshotOK'
    BY <1>2, <2>3 DEF SnapshotOK
  <2> QED
    BY <2>1, <2>2, <2>4 DEF StoreInv
<1>3. CASE Execute(x)
  BY <1>0, <1>2, <1>3 DEF Execute
<1>4. ASSUME NEW p \in {"committed", "ended"}, End(x, p) PROVE StoreInv'
  <2>1. /\ tx[x] = "open" /\ UNCHANGED <<phase, writeQ, readQ, at, job, seen>>
        /\ tx'[x] = p /\ \A y \in Guests : y # x => tx'[y] = tx[y]
    BY <1>0, <1>4 DEF End
  <2>2. /\ \A y \in Writes \cup Guests : y # x => stored'[y] = stored[y]
        /\ p # "committed" => stored'[x] = 0
    BY <1>0, <1>4 DEF End
  <2> QED
    BY <1>2, <2>1, <2>2
<1> QED
  BY <1>1, <1>3, <1>4 DEF GuestStep, Commit, Rollback, DropTransaction, ForceUnlock

LEMMA StoreStep ==
  ASSUME StoreInv, [GuestNext]_gvars
  PROVE  StoreInv'
<1>0. LockInv'
  BY LockStep DEF StoreInv
<1>1. CASE UNCHANGED gvars
  BY <1>0, <1>1, StoreQuiet DEF gvars, vars, callVars, threadVars, dataVars
<1>2. CASE Shared
  BY <1>0, <1>2, StoreCallers, StoreClosing, StoreWork DEF Shared, Next
<1>3. CASE \E x \in Guests : GuestStep(x)
  BY <1>0, <1>3, StoreGuest
<1> QED
  BY <1>1, <1>2, <1>3 DEF GuestNext

-----------------------------------------------------------------------------
(* Every step is a step of the store, or none. *)

TxStatus(p) ==
  CASE p = "idle" -> "idle"
    [] p \in {"trying", "open"} -> "waiting"
    [] p = "committed" -> "answered"
    [] OTHER -> "refused"

\* What write or guest w shows to the store.
Left(w) == IF Running(w) \/ (w \in Guests /\ tx[w] = "open") THEN 0 ELSE stored[w]

StoreAction == [Store!Next]_(Store!vars)

LEMMA MapFacts ==
  /\ Status = [c \in Calls \cup Guests |-> IF c \in Calls THEN phase[c] ELSE TxStatus(tx[c])]
  /\ Status' = [c \in Calls \cup Guests |-> IF c \in Calls THEN phase'[c] ELSE TxStatus(tx'[c])]
  /\ Settled = [w \in Writes \cup Guests |-> Left(w)]
  /\ Settled' = [w \in Writes \cup Guests |-> Left(w)']
  /\ Store!Calls = Calls \cup Guests
  /\ Guests \cap Calls = {}
  BY ConstantsAssumption DEF Status, Settled, TxStatus, Left, Store!Calls, Calls

LEMMA AnswersSame ==
  ASSUME \A r \in Reads : phase'[r] = "answered" <=> phase[r] = "answered",
         \A r \in Reads : phase[r] = "answered" => seen'[r] = seen[r]
  PROVE  Answers' = Answers
  BY DEF Answers, Empty

\* Threads go on, but none starts or ends a closure.
LEMMA RunningSame ==
  ASSUME \A u \in Threads : at'[u] = "run" <=> at[u] = "run",
         \A u \in Threads : at[u] = "run" => job'[u] = job[u]
  PROVE  \A w : Running(w)' <=> Running(w)
  BY DEF Running

LEMMA LeftSame ==
  ASSUME UNCHANGED <<stored, tx>>, \A w : Running(w)' <=> Running(w)
  PROVE  Settled' = Settled
  BY MapFacts DEF Left

\* Only the phases of calls move.
LEMMA CallsMove ==
  ASSUME UNCHANGED tx, NEW cs \in SUBSET Calls, NEW v,
         \A c \in Calls : phase'[c] = IF c \in cs THEN v ELSE phase[c]
  PROVE  Status' = [c \in Calls \cup Guests |-> IF c \in cs THEN v ELSE Status[c]]
<1>1. \A c \in Guests : c \notin cs /\ c \notin Calls
  BY MapFacts
<1> QED
  BY <1>1, MapFacts

\* Only one guest's transaction moves.
LEMMA GuestMoves ==
  ASSUME UNCHANGED phase, NEW x \in Guests, NEW p, \A y \in Guests : tx'[y] = IF y = x THEN p ELSE tx[y]
  PROVE  Status' = [c \in Calls \cup Guests |-> IF c \in {x} THEN TxStatus(p) ELSE Status[c]]
<1>1. x \notin Calls
  BY MapFacts
<1> QED
  BY <1>1, MapFacts

LEMMA Stutters ==
  ASSUME Status' = Status, Settled' = Settled, Answers' = Answers
  PROVE  StoreAction
  BY DEF StoreAction, Store!vars

LEMMA Refuses ==
  ASSUME NEW cs \in SUBSET (Calls \cup Guests), \A c \in cs : Status[c] \in {"idle", "waiting"},
         Status' = [c \in Calls \cup Guests |-> IF c \in cs THEN "refused" ELSE Status[c]],
         Settled' = Settled, Answers' = Answers
  PROVE  StoreAction
<1>1. cs \in SUBSET Store!Refusable
  BY MapFacts DEF Store!Refusable
<1>2. Store!Refuse
  BY <1>1, MapFacts DEF Store!Refuse
<1> QED
  BY <1>2 DEF StoreAction, Store!Next

LEMMA Calling ==
  ASSUME NEW c \in Calls \cup Guests, Status[c] = "idle",
         Status' = [d \in Calls \cup Guests |-> IF d \in {c} THEN "waiting" ELSE Status[d]],
         Settled' = Settled, Answers' = Answers
  PROVE  StoreAction
<1>1. Status' = [Status EXCEPT ![c] = "waiting"]
  BY MapFacts
<1>2. Store!Call(c)
  BY <1>1 DEF Store!Call
<1> QED
  BY <1>2, MapFacts DEF StoreAction, Store!Next

LEMMA Abandoning ==
  ASSUME NEW c \in Calls \cup Guests, Status[c] = "waiting",
         Status' = [d \in Calls \cup Guests |-> IF d \in {c} THEN "abandoned" ELSE Status[d]],
         Settled' = Settled, Answers' = Answers
  PROVE  StoreAction
<1>1. Status' = [Status EXCEPT ![c] = "abandoned"]
  BY MapFacts
<1>2. Store!Abandon(c)
  BY <1>1 DEF Store!Abandon
<1> QED
  BY <1>2, MapFacts DEF StoreAction, Store!Next

\* Apply, in the words of the connection: w leaves n rows and gets its verdict,
\* the calls in others are refused.
TakesEffect(w, n, verdict, others) ==
  /\ w \in Writes \cup Guests /\ Settled[w] = 0 /\ Status[w] \in {"waiting", "abandoned"}
  /\ n \in 0 .. Rows /\ verdict \in {"answered", "failed", "refused", "abandoned"}
  /\ others \in SUBSET Calls /\ \A c \in others : c # w /\ Status[c] \in {"idle", "waiting"}
  /\ verdict = "abandoned" <=> Status[w] = "abandoned"
  /\ w \in Atomic \cup Guests /\ verdict \in {"failed", "refused"} => n = 0
  /\ verdict \in {"answered", "failed"} => others = {}
  /\ Settled' = [Settled EXCEPT ![w] = n]
  /\ Status' = [c \in Calls \cup Guests |-> IF c = w THEN verdict
                                          ELSE IF c \in others THEN "refused" ELSE Status[c]]
  /\ Answers' = Answers

LEMMA Applies ==
  ASSUME NEW w, NEW n, NEW verdict, NEW others, TakesEffect(w, n, verdict, others)
  PROVE  StoreAction
<1> USE DEF TakesEffect
<1>2. others \in SUBSET (Store!Refusable \ {w})
  BY MapFacts DEF Store!Refusable
<1>3. Status' = [c \in Store!Calls |-> IF c = w THEN verdict
                                       ELSE IF c \in others THEN "refused" ELSE Status[c]]
  BY MapFacts
<1>4. Store!Apply(w)
  <2> SUFFICES
        \E m \in 0 .. Rows, v \in {"answered", "failed", "refused", "abandoned"},
           o \in SUBSET (Store!Refusable \ {w}) :
          /\ v = "abandoned" <=> Status[w] = "abandoned"
          /\ w \in Atomic \cup Guests /\ v \in {"failed", "refused"} => m = 0
          /\ v \in {"answered", "failed"} => o = {}
          /\ Settled' = [Settled EXCEPT ![w] = m]
          /\ Status' = [c \in Store!Calls |-> IF c = w THEN v
                                              ELSE IF c \in o THEN "refused" ELSE Status[c]]
    BY DEF Store!Apply
  <2> WITNESS n \in 0 .. Rows, verdict \in {"answered", "failed", "refused", "abandoned"},
              others \in SUBSET (Store!Refusable \ {w})
  <2> QED
    BY <1>3
<1> QED
  BY <1>4, MapFacts DEF StoreAction, Store!Next

LEMMA Reading ==
  ASSUME NEW r \in Reads, Status[r] = "waiting",
         Status' = [c \in Calls \cup Guests |-> IF c \in {r} THEN "answered" ELSE Status[c]],
         Settled' = Settled, Answers' = [Answers EXCEPT ![r] = Settled]
  PROVE  StoreAction
<1>1. Status' = [Status EXCEPT ![r] = "answered"]
  BY MapFacts DEF Calls
<1>2. Store!Read(r)
  BY <1>1 DEF Store!Read
<1> QED
  BY <1>2, MapFacts DEF StoreAction, Store!Next

LEMMA ImplInit == GuestInit => Store!Init
<1> SUFFICES ASSUME GuestInit PROVE Store!Init
  OBVIOUS
<1>1. Status = [c \in Calls \cup Guests |-> "idle"]
  BY MapFacts DEF GuestInit, Init, TxStatus
<1>2. Settled = [w \in Writes \cup Guests |-> 0]
  BY MapFacts DEF GuestInit, Init, Left, Empty
<1>3. Answers = [r \in Reads |-> [w \in Writes \cup Guests |-> 0]]
  BY DEF Answers, GuestInit, Init, Empty, Calls
<1> QED
  BY <1>1, <1>2, <1>3, MapFacts DEF Store!Init, Store!Empty

LEMMA ImplCallers ==
  ASSUME StoreInv, UNCHANGED tx,
         \/ \E w \in Writes : CallWriter(w)
         \/ \E r \in Reads : CallReader(r)
         \/ \E c \in Calls : Abandon(c)
         \/ DropHandles
  PROVE  StoreAction
<1> USE DEF threadVars, dataVars, callVars
<1>0. phase \in [Calls -> Phases] /\ Writes \subseteq Calls /\ Reads \subseteq Calls
  BY DEF StoreInv, LockInv, GuestTypeOK, TypeOK, Calls
<1>1. UNCHANGED <<at, job, stored, seen, tx>>
  BY DEF CallWriter, CallReader, Abandon, DropHandles
<1>2. Settled' = Settled
  BY <1>1, RunningSame, LeftSame
<1>3. ASSUME NEW c \in Calls, NEW v \in {"refused", "waiting", "abandoned"},
             phase' = [phase EXCEPT ![c] = v], phase[c] \in {"idle", "waiting"}
      PROVE  /\ Status' = [d \in Calls \cup Guests |-> IF d \in {c} THEN v ELSE Status[d]]
             /\ Status[c] = phase[c]
             /\ Answers' = Answers
  <2>1. \A d \in Calls : phase'[d] = IF d \in {c} THEN v ELSE phase[d]
    BY <1>0, <1>3
  <2>2. {c} \in SUBSET Calls
    BY <1>3
  <2>3. Status' = [d \in Calls \cup Guests |-> IF d \in {c} THEN v ELSE Status[d]]
    BY <1>1, <2>1, <2>2, CallsMove, ZenonT(60)
  <2>4. Answers' = Answers
    BY <1>0, <1>1, <1>3, <2>1, AnswersSame
  <2> QED
    BY <2>3, <2>4, MapFacts
<1>4. ASSUME NEW c \in Calls, phase[c] = "idle",
             phase' = [phase EXCEPT ![c] = "refused"] \/ phase' = [phase EXCEPT ![c] = "waiting"]
      PROVE  StoreAction
  <2>1. CASE phase' = [phase EXCEPT ![c] = "refused"]
    <3>1. /\ Status' = [d \in Calls \cup Guests |-> IF d \in {c} THEN "refused" ELSE Status[d]]
          /\ Status[c] = "idle" /\ Answers' = Answers
      BY <1>3, <1>4, <2>1
    <3>2. {c} \in SUBSET (Calls \cup Guests) /\ \A d \in {c} : Status[d] \in {"idle", "waiting"}
      BY <1>4, <3>1
    <3> QED
      BY <1>2, <3>1, <3>2, Refuses
  <2>2. CASE phase' = [phase EXCEPT ![c] = "waiting"]
    <3>1. /\ Status' = [d \in Calls \cup Guests |-> IF d \in {c} THEN "waiting" ELSE Status[d]]
          /\ Status[c] = "idle" /\ Answers' = Answers
      BY <1>3, <1>4, <2>2
    <3> QED
      BY <1>2, <1>4, <3>1, Calling
  <2> QED
    BY <1>4, <2>1, <2>2
<1>5. ASSUME \/ \E w \in Writes : CallWriter(w)
             \/ \E r \in Reads : CallReader(r)
      PROVE  StoreAction
  <2>1. \E c \in Calls :
          /\ phase[c] = "idle"
          /\ phase' = [phase EXCEPT ![c] = "refused"] \/ phase' = [phase EXCEPT ![c] = "waiting"]
    BY <1>0, <1>5 DEF CallWriter, CallReader
  <2> QED
    BY <1>4, <2>1
<1>6. ASSUME NEW c \in Calls, Abandon(c) PROVE StoreAction
  <2>1. /\ Status' = [d \in Calls \cup Guests |-> IF d \in {c} THEN "abandoned" ELSE Status[d]]
        /\ Status[c] = "waiting" /\ Answers' = Answers
    BY <1>3, <1>6 DEF Abandon
  <2> QED
    BY <1>2, <2>1, Abandoning
<1>7. CASE DropHandles
  <2>1. Status' = Status /\ Answers' = Answers
    BY <1>1, <1>7 DEF DropHandles, Status, Answers
  <2> QED
    BY <1>2, <2>1, Stutters
<1> QED
  BY <1>5, <1>6, <1>7

LEMMA ImplClosing ==
  ASSUME UNCHANGED tx, NEW k \in Closers, Close(k) \/ CloseStep(k)
  PROVE  StoreAction
<1>1. UNCHANGED <<at, job, stored, seen, tx, phase>>
  BY DEF Close, CloseStep, SendTerminate, TakeConnections, threadVars, dataVars, callVars
<1>2. Settled' = Settled
  BY <1>1, RunningSame, LeftSame
<1>3. Status' = Status /\ Answers' = Answers
  BY <1>1 DEF Status, Answers
<1> QED
  BY <1>2, <1>3, Stutters

\* Threads that leave, and calls they leave behind.
LEMMA ImplLeave ==
  ASSUME StoreInv, UNCHANGED <<tx, stored, seen>>, NEW t \in Threads, at[t] = "recv", Leave(t, phase)
  PROVE  StoreAction
<1>0. /\ phase \in [Calls -> Phases] /\ at \in [Threads -> Places] /\ Reads \subseteq Calls
      /\ job \in [Threads -> Calls \cup {None}]
  BY DEF StoreInv, LockInv, GuestTypeOK, TypeOK, Calls
<1>1. PICK cs \in SUBSET {c \in Calls : phase[c] = "waiting"} :
           phase' = [c \in Calls |-> IF c \in cs THEN "refused" ELSE phase[c]]
  BY <1>0, LeaveRefuses
<1>2. Settled' = Settled
  <2>1. \A u \in Threads : u # t => at'[u] = at[u] /\ job'[u] = job[u]
    BY <1>0 DEF Leave
  <2>2. at'[t] = "exited"
    BY <1>0 DEF Leave
  <2>3. \A w : Running(w)' <=> Running(w)
    BY <2>1, <2>2, RunningSame
  <2> QED
    BY <2>3, LeftSame
<1>3. Answers' = Answers
  BY <1>0, <1>1, AnswersSame
<1>4. Status' = [c \in Calls \cup Guests |-> IF c \in cs THEN "refused" ELSE Status[c]]
  BY <1>0, <1>1, CallsMove
<1>5. cs \in SUBSET (Calls \cup Guests) /\ \A c \in cs : Status[c] \in {"idle", "waiting"}
  BY MapFacts
<1> QED
  BY <1>2, <1>3, <1>4, <1>5, Refuses

\* A closure that is not running has begun, or ended.
LEMMA ImplLock ==
  ASSUME StoreInv, UNCHANGED tx, NEW t \in Threads, Lock(t)
  PROVE  StoreAction
<1>0. /\ phase \in [Calls -> Phases] /\ at \in [Threads -> Places] /\ Reads \subseteq Calls
      /\ seen \in [Reads -> [Writes \cup Guests -> 0 .. Rows]]
      /\ at[t] = "lock" /\ job[t] \in Calls
  BY DEF StoreInv, LockInv, GuestTypeOK, TypeOK, JobsOK, Calls, Lock
<1>1. UNCHANGED <<phase, job, stored>>
  BY DEF Lock, callVars
<1>2. PICK p \in {"unlock", "run"} : at' = [at EXCEPT ![t] = p]
  BY DEF Lock
<1>3. at'[t] = p /\ \A u \in Threads : u # t => at'[u] = at[u]
  BY <1>0, <1>2
<1>4. \A w : Running(w)' => Running(w) \/ w = job[t]
  BY <1>1, <1>3 DEF Running
<1>5. \A w : Running(w) => Running(w)'
  BY <1>0, <1>1, <1>3 DEF Running
<1>6. job[t] \in Writes => stored[job[t]] = 0
  BY <1>0 DEF StoreInv, UnservedOK, LockInv, JobsOK
<1>7. Settled' = Settled
  <2>1. ASSUME NEW w \in Writes \cup Guests PROVE Left(w)' = Left(w)
    <3>1. CASE w = job[t]
      <4>1. w \in Writes
        BY <1>0, <3>1, MapFacts
      <4> QED
        BY <1>1, <1>6, <3>1, <4>1 DEF Left
    <3>2. CASE w # job[t]
      BY <1>1, <1>4, <1>5, <3>2 DEF Left
    <3> QED
      BY <3>1, <3>2
  <2> QED
    BY <2>1, MapFacts
<1>8. Answers' = Answers
  <2>1. \A r \in Reads : phase[r] = "answered" => seen'[r] = seen[r]
    <3>1. phase[job[t]] # "answered"
      BY <1>0 DEF StoreInv, OwedOK, Owed
    <3>2. UNCHANGED seen \/ (job[t] \in Reads /\ seen' = [seen EXCEPT ![job[t]] = stored])
      BY DEF Lock
    <3> QED
      BY <1>0, <3>1, <3>2
  <2> QED
    BY <1>1, <2>1, AnswersSame
<1>9. Status' = Status
  BY <1>1 DEF Status
<1> QED
  BY <1>7, <1>8, <1>9, Stutters

\* What ends with the closure of a write.
LEMMA WriteEnds ==
  ASSUME StoreInv, UNCHANGED tx, NEW t \in Threads, at[t] = "run", job[t] \in Writes,
         at'[t] # "run", \A u \in Threads : u # t => at'[u] = at[u] /\ job'[u] = job[u],
         NEW n \in 0 .. Rows, stored'[job[t]] = n,
         \A w \in Writes \cup Guests : w # job[t] => stored'[w] = stored[w]
  PROVE  /\ Settled[job[t]] = 0
         /\ Settled' = [Settled EXCEPT ![job[t]] = n]
<1>0. PICK w \in Writes : w = job[t]
  OBVIOUS
<1>1. w \in Calls /\ Running(w) /\ w \notin Guests
  BY <1>0, ConstantsAssumption DEF Running, Calls
<1>2. ~Running(w)'
  BY <1>0, <1>1 DEF StoreInv, PlaceOK, Running
<1>3. \A v : v # w => (Running(v)' <=> Running(v))
  BY <1>0 DEF Running
<1>4. Left(w) = 0 /\ \A v \in Writes \cup Guests : Left(v)' = IF v = w THEN n ELSE Left(v)
  BY <1>0, <1>1, <1>2, <1>3 DEF Left
<1> QED
  BY <1>0, <1>4, MapFacts

\* What ends with the closure of a read leaves the store as it is, and the
\* read found it so.
LEMMA ReadEnds ==
  ASSUME StoreInv, UNCHANGED <<tx, stored>>, NEW t \in Threads, at[t] = "run", job[t] \in Reads,
         at'[t] # "run", \A u \in Threads : u # t => at'[u] = at[u] /\ job'[u] = job[u]
  PROVE  Settled' = Settled /\ seen[job[t]] = Settled
<1>1. t \in shared /\ excl = None
  BY DEF StoreInv, LockInv, LockOK
<1>2. \A w \in Writes : ~Running(w)
  BY <1>1, ThreadFacts DEF StoreInv, LockInv, LockOK, Running
<1>3. \A w \in Guests : ~Running(w)
  BY ThreadFacts, MapFacts DEF StoreInv, LockInv, JobsOK, Running
<1>4. \A x \in Guests : tx[x] # "open"
  BY <1>1, ThreadFacts DEF StoreInv, LockInv, LockOK
<1>5. \A w \in Writes \cup Guests : Left(w) = stored[w]
  BY <1>2, <1>3, <1>4 DEF Left
<1>6. \A w : Running(w)' => Running(w)
  BY DEF Running
<1>7. \A w \in Writes \cup Guests : Left(w)' = stored[w]
  BY <1>2, <1>3, <1>4, <1>6 DEF Left
<1>8. stored \in [Writes \cup Guests -> 0 .. Rows]
  BY DEF StoreInv, LockInv, GuestTypeOK, TypeOK
<1>9. Settled = stored
  BY <1>5, <1>8, MapFacts
<1> QED
  BY <1>5, <1>7, <1>9, MapFacts DEF StoreInv, SnapshotOK

LEMMA ImplFinish ==
  ASSUME StoreInv, UNCHANGED tx, NEW t \in Threads, Finish(t)
  PROVE  StoreAction
<1>0. /\ phase \in [Calls -> Phases] /\ at \in [Threads -> Places]
      /\ stored \in [Writes \cup Guests -> 0 .. Rows]
      /\ at[t] = "run" /\ job[t] \in Calls /\ phase[job[t]] \in {"waiting", "abandoned"}
      /\ Reads \subseteq Calls /\ Writes \subseteq Calls
  BY DEF StoreInv, OwedOK, Owed, LockInv, GuestTypeOK, TypeOK, JobsOK, Calls, Finish
<1> DEFINE verdict == IF phase[job[t]] = "waiting" THEN Verdict(job[t]) ELSE "abandoned"
<1>1. /\ UNCHANGED <<job, seen>> /\ at'[t] = "unlock"
      /\ \A u \in Threads : u # t => at'[u] = at[u]
  BY <1>0 DEF Finish
<1>2. \A c \in Calls : phase'[c] = IF c = job[t] THEN verdict ELSE phase[c]
  BY <1>0 DEF Finish
<1>3. /\ verdict \in {"answered", "failed", "abandoned"}
      /\ verdict = "abandoned" <=> phase[job[t]] = "abandoned"
      /\ verdict = "failed" => job[t] \in Writes /\ stored[job[t]] < Rows
  BY <1>0 DEF Verdict
<1> HIDE DEF verdict
<1>4. Status' = [c \in Calls \cup Guests |-> IF c = job[t] THEN verdict ELSE Status[c]]
  <2>1. \A c \in Guests : c # job[t] /\ c \notin Calls
    BY <1>0, MapFacts
  <2> QED
    BY <1>0, <1>2, <2>1, MapFacts
<1>5. CASE job[t] \in Writes
  <2>1. /\ \A w \in Writes \cup Guests : w # job[t] => stored'[w] = stored[w]
        /\ stored'[job[t]] = Leaves(job[t])
    BY <1>0, <1>5 DEF Finish
  <2>2. PICK n \in 0 .. Rows : n = Leaves(job[t])
    <3>1. stored[job[t]] \in 0 .. Rows /\ 0 \in 0 .. Rows
      BY <1>0, <1>5, ConstantsAssumption
    <3> QED
      BY <3>1 DEF Leaves
  <2>3. Settled[job[t]] = 0 /\ Settled' = [Settled EXCEPT ![job[t]] = n]
    BY <1>0, <1>1, <1>5, <2>1, <2>2, WriteEnds
  <2>4. job[t] \in Atomic \cup Guests /\ verdict \in {"failed", "refused"} => Leaves(job[t]) = 0
    <3>1. job[t] \notin Guests
      BY <1>0, MapFacts
    <3> QED
      BY <1>3, <3>1 DEF Leaves
  <2>5. Answers' = Answers
    <3>1. \A r \in Reads : r # job[t]
      BY <1>5, ConstantsAssumption
    <3> QED
      BY <1>0, <1>1, <1>2, <3>1, AnswersSame
  <2>6. /\ Status[job[t]] = phase[job[t]]
        /\ Status' = [c \in Calls \cup Guests |-> IF c = job[t] THEN verdict
                        ELSE IF c \in {} THEN "refused" ELSE Status[c]]
    BY <1>0, <1>4, MapFacts
  <2>7. /\ {} \in SUBSET Calls /\ job[t] \in Writes \cup Guests
        /\ verdict \in {"answered", "failed", "refused", "abandoned"}
    BY <1>3, <1>5
  <2> QED
    <3>1. TakesEffect(job[t], n, verdict, {})
      BY <1>0, <1>3, <2>2, <2>3, <2>4, <2>5, <2>6, <2>7 DEF TakesEffect
    <3> QED
      BY <3>1, Applies
<1>6. CASE job[t] \in Reads
  <2>1. job[t] \notin Writes
    BY <1>6, ConstantsAssumption
  <2>2. Settled' = Settled /\ seen[job[t]] = Settled
    BY <1>0, <1>1, <1>6, <2>1, ReadEnds DEF Finish
  <2>3. CASE phase[job[t]] = "waiting"
    <3>1. verdict = "answered"
      BY <1>3, <2>1, <2>3
    <3>2. Answers' = [Answers EXCEPT ![job[t]] = Settled]
      BY <1>0, <1>1, <1>2, <2>2, <3>1, ZenonT(60) DEF Answers, Empty
    <3>3. Status[job[t]] = "waiting"
      BY <1>0, <2>3, MapFacts
    <3>4. Status' = [c \in Calls \cup Guests |-> IF c \in {job[t]} THEN "answered" ELSE Status[c]]
      BY <1>4, <3>1
    <3> QED
      BY <1>6, <2>2, <3>2, <3>3, <3>4, Reading
  <2>4. CASE phase[job[t]] = "abandoned"
    <3>1. \A c \in Calls : phase'[c] = phase[c]
      BY <1>2, <1>3, <2>4
    <3>2. Status' = Status /\ Answers' = Answers
      BY <1>0, <1>1, <3>1 DEF Status, Answers, Empty
    <3> QED
      BY <2>2, <3>2, Stutters
  <2> QED
    BY <1>0, <2>3, <2>4
<1> QED
  BY <1>0, <1>5, <1>6 DEF Calls

LEMMA ImplPanic ==
  ASSUME StoreInv, UNCHANGED tx, NEW t \in Threads, Panic(t)
  PROVE  StoreAction
<1> DEFINE ph == [phase EXCEPT ![job[t]] = IF @ = "waiting" THEN "refused" ELSE @]
<1>0. /\ phase \in [Calls -> Phases] /\ at \in [Threads -> Places]
      /\ job \in [Threads -> Calls \cup {None}]
      /\ stored \in [Writes \cup Guests -> 0 .. Rows]
      /\ at[t] = "run" /\ job[t] \in Calls /\ phase[job[t]] \in {"waiting", "abandoned"}
      /\ Reads \subseteq Calls /\ Writes \subseteq Calls
  BY DEF StoreInv, OwedOK, Owed, LockInv, GuestTypeOK, TypeOK, JobsOK, Calls, Panic
<1>1. Leave(t, ph) /\ ph \in [Calls -> Phases] /\ UNCHANGED seen
  BY <1>0 DEF Panic, Phases
<1>2. /\ \A c \in Calls : c # job[t] => ph[c] = phase[c]
      /\ ph[job[t]] = IF phase[job[t]] = "waiting" THEN "refused" ELSE "abandoned"
  BY <1>0
<1> HIDE DEF ph
<1>3. at'[t] = "exited" /\ \A u \in Threads : u # t => at'[u] = at[u] /\ job'[u] = job[u]
  BY <1>0, <1>1 DEF Leave
<1>4. PICK cs \in SUBSET {c \in Calls : ph[c] = "waiting"} :
           phase' = [c \in Calls |-> IF c \in cs THEN "refused" ELSE ph[c]]
  BY <1>1, LeaveRefuses
<1>5. \A c \in cs : c \in Calls /\ c # job[t] /\ phase[c] = "waiting"
  BY <1>2, <1>4
<1>6. Answers' = Answers
  BY <1>0, <1>1, <1>2, <1>4, <1>5, AnswersSame
<1>7. CASE job[t] \in Writes
  <2>1. PICK n \in 0 .. Rows : n = IF job[t] \in Atomic THEN 0 ELSE stored[job[t]]
    BY <1>0, <1>7, ConstantsAssumption
  <2>2. job[t] \in Atomic \cup Guests => n = 0
    BY <1>0, <2>1, MapFacts
  <2>3. Settled[job[t]] = 0 /\ Settled' = [Settled EXCEPT ![job[t]] = n]
    <3>1. /\ \A w \in Writes \cup Guests : w # job[t] => stored'[w] = stored[w]
          /\ stored'[job[t]] = n
      BY <1>0, <1>7, <2>1 DEF Panic
    <3> QED
      BY <1>0, <1>3, <1>7, <3>1, WriteEnds
  <2>4. /\ Status[job[t]] = phase[job[t]]
        /\ Status' = [c \in Calls \cup Guests |-> IF c = job[t] THEN ph[job[t]]
                        ELSE IF c \in cs THEN "refused" ELSE Status[c]]
        /\ \A c \in cs : c # job[t] /\ Status[c] \in {"idle", "waiting"}
    <3>1. \A c \in Calls : phase'[c] = IF c = job[t] THEN ph[job[t]]
                                       ELSE IF c \in cs THEN "refused" ELSE phase[c]
      BY <1>2, <1>4, <1>5
    <3>2. \A c \in Guests : c \notin cs /\ c # job[t] /\ c \notin Calls
      BY <1>0, <1>5, MapFacts
    <3> QED
      BY <1>0, <1>5, <3>1, <3>2, MapFacts
  <2>5. /\ ph[job[t]] \in {"answered", "failed", "refused", "abandoned"}
        /\ ph[job[t]] \notin {"answered", "failed"}
        /\ ph[job[t]] = "abandoned" <=> phase[job[t]] = "abandoned"
        /\ cs \in SUBSET Calls /\ job[t] \in Writes \cup Guests
    BY <1>0, <1>2, <1>7
  <2> QED
    <3>1. TakesEffect(job[t], n, ph[job[t]], cs)
      BY <1>0, <1>6, <2>1, <2>2, <2>3, <2>4, <2>5 DEF TakesEffect
    <3> QED
      BY <3>1, Applies
<1>8. CASE job[t] \in Reads
  <2> DEFINE out == cs \cup (IF phase[job[t]] = "waiting" THEN {job[t]} ELSE {})
  <2>1. job[t] \notin Writes
    BY <1>8, ConstantsAssumption
  <2>2. Settled' = Settled
    BY <1>0, <1>3, <1>8, <2>1, ReadEnds DEF Panic
  <2>3. out \in SUBSET Calls /\ \A c \in out : phase[c] = "waiting"
    BY <1>0, <1>5
  <2>4. \A c \in Calls : phase'[c] = IF c \in out THEN "refused" ELSE phase[c]
    BY <1>0, <1>2, <1>4
  <2> HIDE DEF out
  <2>5. Status' = [c \in Calls \cup Guests |-> IF c \in out THEN "refused" ELSE Status[c]]
    BY <2>3, <2>4, CallsMove
  <2>6. out \in SUBSET (Calls \cup Guests) /\ \A c \in out : Status[c] \in {"idle", "waiting"}
    BY <2>3, MapFacts
  <2> QED
    BY <1>6, <2>2, <2>5, <2>6, Refuses
<1> QED
  BY <1>0, <1>7, <1>8 DEF Calls

LEMMA ImplWork ==
  ASSUME StoreInv, UNCHANGED tx, NEW t \in Threads, Work(t)
  PROVE  StoreAction
<1> USE DEF threadVars, lockVars, dataVars, callVars
<1>0. /\ at \in [Threads -> Places] /\ stored \in [Writes \cup Guests -> 0 .. Rows]
      /\ job \in [Threads -> Calls \cup {None}]
  BY DEF StoreInv, LockInv, GuestTypeOK, TypeOK, Calls
<1>1. CASE (t = 0 /\ ReceiveWrite) \/ ReceiveRead(t) \/ Unlock(t)
  <2>1. /\ UNCHANGED <<phase, stored, seen>>
        /\ \A u \in Threads : at'[u] = "run" <=> at[u] = "run"
        /\ \A u \in Threads : at[u] = "run" => job'[u] = job[u]
    BY <1>0, <1>1 DEF ReceiveWrite, ReceiveRead, Unlock
  <2>2. Settled' = Settled
    BY <2>1, RunningSame, LeftSame
  <2>3. Status' = Status /\ Answers' = Answers
    BY <2>1 DEF Status, Answers
  <2> QED
    BY <2>2, <2>3, Stutters
<1>2. CASE t = 0 /\ Insert
  <2>1. Running(job[0]) /\ (\A w : Running(w)' <=> Running(w))
    BY <1>2 DEF Insert, Running
  <2>2. \A w \in Writes \cup Guests : w # job[0] => stored'[w] = stored[w]
    BY <1>0, <1>2 DEF Insert
  <2>3. \A w \in Writes \cup Guests : Left(w)' = Left(w)
    BY <2>1, <2>2 DEF Left
  <2>4. Settled' = Settled /\ Status' = Status /\ Answers' = Answers
    BY <1>2, <2>3, MapFacts DEF Insert, Status, Answers
  <2> QED
    BY <2>4, Stutters
<1>3. CASE ReceiveTerminate(t) \/ Disconnected(t)
  BY <1>3, ImplLeave DEF ReceiveTerminate, Disconnected
<1> QED
  BY <1>1, <1>2, <1>3, ImplLock, ImplFinish, ImplPanic DEF Work

LEMMA ImplGuest ==
  ASSUME StoreInv, NEW x \in Guests, GuestStep(x)
  PROVE  StoreAction
<1> USE DEF vars, threadVars, lockVars, dataVars, callVars
<1>0. /\ tx \in [Guests -> TxPhases] /\ stored \in [Writes \cup Guests -> 0 .. Rows]
  BY DEF StoreInv, LockInv, GuestTypeOK, TypeOK
<1>1. /\ UNCHANGED <<phase, at, job, seen>>
      /\ \A y \in Writes \cup Guests : y # x => stored'[y] = stored[y]
      /\ \A y \in Guests : y # x => tx'[y] = tx[y]
  BY <1>0 DEF GuestStep, Begin, Acquire, TimeOut, Execute, Commit, Rollback,
             DropTransaction, ForceUnlock, End
<1>2. Answers' = Answers
  BY <1>1 DEF Answers
<1>3. /\ \A w : Running(w)' <=> Running(w)
      /\ ~Running(x)
  BY <1>1, ThreadFacts, MapFacts, RunningSame DEF StoreInv, LockInv, JobsOK, Running
<1>4. \A v \in Writes \cup Guests : v # x => Left(v)' = Left(v)
  BY <1>1, <1>3 DEF Left
<1>5. /\ Left(x) = IF tx[x] = "open" THEN 0 ELSE stored[x]
      /\ Left(x)' = IF tx'[x] = "open" THEN 0 ELSE stored'[x]
  BY <1>3 DEF Left
<1>6. tx[x] \notin {"open", "committed"} => stored[x] = 0
  BY DEF StoreInv, UnservedOK
<1>7. Status' = [c \in Calls \cup Guests |-> IF c \in {x} THEN TxStatus(tx'[x]) ELSE Status[c]]
  <2>1. PICK p : p = tx'[x]
    OBVIOUS
  <2>2. \A y \in Guests : tx'[y] = IF y = x THEN p ELSE tx[y]
    BY <1>1, <2>1
  <2> QED
    BY <1>1, <2>1, <2>2, GuestMoves
<1>8. Status[x] = TxStatus(tx[x])
  BY MapFacts
<1>9. Left(x)' = Left(x) => Settled' = Settled
  BY <1>4, MapFacts
<1>10. CASE Begin(x)
  <2>1. tx[x] = "idle" /\ tx'[x] = "trying" /\ stored' = stored
    BY <1>0, <1>10 DEF Begin
  <2>2. Settled' = Settled
    BY <1>5, <1>9, <2>1
  <2>3. TxStatus(tx'[x]) = "waiting" /\ Status[x] = "idle"
    BY <1>8, <2>1 DEF TxStatus
  <2> QED
    BY <1>2, <1>7, <2>2, <2>3, Calling
<1>11. ASSUME tx[x] \in {"trying", "open"}, tx'[x] \in {"trying", "open"} PROVE StoreAction
  <2>1. Left(x)' = Left(x)
    BY <1>1, <1>5, <1>6, <1>11, <1>0 DEF GuestStep, Begin, Acquire, TimeOut, Execute, Commit, Rollback,
             DropTransaction, ForceUnlock, End
  <2>2. Status' = Status
    BY <1>7, <1>8, <1>11, MapFacts DEF TxStatus
  <2> QED
    BY <1>2, <1>9, <2>1, <2>2, Stutters
<1>12. ASSUME tx[x] \in {"trying", "open"}, tx'[x] \in {"timedout", "failed", "crashed", "ended"},
              stored'[x] = 0
       PROVE  StoreAction
  <2>1. Settled' = Settled
    BY <1>5, <1>6, <1>9, <1>12
  <2>2. TxStatus(tx'[x]) = "refused" /\ Status[x] = "waiting"
    BY <1>8, <1>12 DEF TxStatus
  <2>3. {x} \in SUBSET (Calls \cup Guests) /\ \A c \in {x} : Status[c] \in {"idle", "waiting"}
    BY <2>2
  <2> QED
    BY <1>2, <1>7, <2>1, <2>2, <2>3, Refuses
<1>13. CASE End(x, "committed")
  <2>1. tx[x] = "open" /\ tx'[x] = "committed" /\ stored' = stored
    BY <1>0, <1>13 DEF End
  <2>2. TxStatus(tx'[x]) = "answered" /\ Status[x] = "waiting"
    BY <1>8, <2>1 DEF TxStatus
  <2>3. PICK n \in 0 .. Rows : n = stored[x]
    BY <1>0
  <2>4. Settled[x] = 0 /\ Settled' = [Settled EXCEPT ![x] = n]
    BY <1>4, <1>5, <2>1, <2>3, MapFacts
  <2>5. Status' = [c \in Calls \cup Guests |-> IF c = x THEN "answered"
                     ELSE IF c \in {} THEN "refused" ELSE Status[c]]
    BY <1>7, <2>2
  <2>6. {} \in SUBSET Calls /\ x \in Writes \cup Guests
    OBVIOUS
  <2> QED
    <3>1. TakesEffect(x, n, "answered", {})
      BY <1>2, <2>2, <2>4, <2>5, <2>6 DEF TakesEffect
    <3> QED
      BY <3>1, Applies
<1>14. CASE TimeOut(x) \/ End(x, "ended")
  BY <1>0, <1>6, <1>12, <1>14 DEF TimeOut, End
<1>15. CASE Acquire(x)
  BY <1>0, <1>6, <1>11, <1>12, <1>15 DEF Acquire
<1>16. CASE Execute(x)
  BY <1>11, <1>16 DEF Execute
<1> QED
  BY <1>10, <1>13, <1>14, <1>15, <1>16
  DEF GuestStep, Commit, Rollback, DropTransaction, ForceUnlock

LEMMA ImplStep ==
  ASSUME StoreInv, [GuestNext]_gvars
  PROVE  StoreAction
<1>1. CASE UNCHANGED gvars
  <2>1. Status' = Status /\ Answers' = Answers
    BY <1>1 DEF gvars, vars, callVars, threadVars, dataVars, Status, Answers
  <2>2. Settled' = Settled
    BY <1>1, RunningSame, LeftSame DEF gvars, vars, callVars, threadVars, dataVars
  <2> QED
    BY <2>1, <2>2, Stutters
<1>2. CASE Shared
  BY <1>2, ImplCallers, ImplClosing, ImplWork DEF Shared, Next
<1>3. CASE \E x \in Guests : GuestStep(x)
  BY <1>3, ImplGuest
<1> QED
  BY <1>1, <1>2, <1>3 DEF GuestNext

\* Calls of the threads and transactions of guests take effect at once, one
\* after the other: the connection implements the serial store
\* (GuestTransactions!ImplementsStore).
THEOREM ConnectionIsSerial == GuestSpec => ImplementsStore
<1>1. GuestInit => Store!Init
  BY ImplInit
<1>2. GuestSpec => []StoreInv
  BY StoreInitially, StoreStep, PTL DEF GuestSpec
<1>3. StoreInv /\ [GuestNext]_gvars => [Store!Next]_(Store!vars)
  BY ImplStep DEF StoreAction
<1> QED
  BY <1>1, <1>2, <1>3, PTL DEF GuestSpec, ImplementsStore, Store!Spec
=============================================================================
