---------------------------- MODULE SerialStore ----------------------------
(***************************************************************************)
(* What a caller of a database connection may rely on: every call takes    *)
(* effect at once, somewhere between its start and its answer; a read      *)
(* returns the whole store as it is at that point; a write that is one     *)
(* transaction and did not succeed leaves nothing behind.  The connection  *)
(* may refuse calls, and a caller may stop waiting for one.                *)
(***************************************************************************)
EXTENDS Integers

CONSTANTS
  Writes, Reads,
  Atomic,   \* writes that are one transaction
  Rows      \* rows a write can leave at most

VARIABLES
  status,   \* of a call
  store,    \* rows left by each write
  answer    \* the store a read returned

vars == <<status, store, answer>>

Calls == Writes \cup Reads
Stores == [Writes -> 0 .. Rows]
Empty == [w \in Writes |-> 0]

Init ==
  /\ status = [c \in Calls |-> "idle"]
  /\ store = Empty
  /\ answer = [r \in Reads |-> Empty]

Call(c) ==
  /\ status[c] = "idle"
  /\ status' = [status EXCEPT ![c] = "waiting"]
  /\ UNCHANGED <<store, answer>>

Abandon(c) ==
  /\ status[c] = "waiting"
  /\ status' = [status EXCEPT ![c] = "abandoned"]
  /\ UNCHANGED <<store, answer>>

Refusable == {c \in Calls : status[c] \in {"idle", "waiting"}}

\* A write takes effect, at most once, and its caller, if it still waits,
\* learns how it went.  A write that ends badly may take the connection with
\* it: other calls are refused at the same time.
Apply(w) ==
  /\ store[w] = 0
  /\ status[w] \in {"waiting", "abandoned"}
  /\ \E n \in 0 .. Rows, verdict \in {"answered", "failed", "refused", "abandoned"},
        others \in SUBSET (Refusable \ {w}) :
       /\ verdict = "abandoned" <=> status[w] = "abandoned"
       /\ w \in Atomic /\ verdict \in {"failed", "refused"} => n = 0
       /\ verdict \in {"answered", "failed"} => others = {}
       /\ store' = [store EXCEPT ![w] = n]
       /\ status' = [c \in Calls |-> IF c = w THEN verdict
                                     ELSE IF c \in others THEN "refused" ELSE status[c]]
  /\ UNCHANGED answer

Read(r) ==
  /\ status[r] = "waiting"
  /\ status' = [status EXCEPT ![r] = "answered"]
  /\ answer' = [answer EXCEPT ![r] = store]
  /\ UNCHANGED store

\* Calls are refused without any effect.
Refuse ==
  /\ \E cs \in SUBSET Refusable :
       status' = [c \in Calls |-> IF c \in cs THEN "refused" ELSE status[c]]
  /\ UNCHANGED <<store, answer>>

Next ==
  \/ \E c \in Calls : Call(c) \/ Abandon(c)
  \/ \E w \in Writes : Apply(w)
  \/ \E r \in Reads : Read(r)
  \/ Refuse

Spec == Init /\ [][Next]_vars
=============================================================================
