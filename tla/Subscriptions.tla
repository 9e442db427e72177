--------------------------- MODULE Subscriptions ---------------------------
(***************************************************************************)
(* Realtime subscriptions on one database connection: the subscription     *)
(* manager, the per-connection subscription state, SQLite's preupdate      *)
(* hook, the broker thread that drains it, and the event stream of every   *)
(* client (crates/core/src/records/subscribe).                             *)
(*                                                                         *)
(* Actors: one request per element of Subs (its handler, later its event   *)
(* stream), the connection's writer thread, one broker thread per installed *)
(* hook, and config reloads.                                               *)
(*                                                                         *)
(* A hook, with its channel and broker thread, is named by the request     *)
(* that installed it, and a PerConnectionState by the request that created *)
(* it: a request does each at most once.                                   *)
(***************************************************************************)
EXTENDS Integers, Sequences, FiniteSets

CONSTANTS
  Tables,       \* tables of the connection
  Rows,         \* row ids
  Subs,         \* subscription requests, one client each
  TableOf,      \* [Subs -> Tables]: the table a request subscribes to
  RowOf,        \* [Subs -> Rows \cup {AnyRow}]: its record, or AnyRow for "*"
  AnyRow,
  Sse,          \* requests served as SSE; the others are WebSockets
  None,         \* no hook installed; no state for the connection
  HookCap,      \* capacity of the hook's channel (hook.rs: CAPACITY, 16 * 1024)
  ChanCap,      \* capacity of a client's channel (manager.rs: 64)
  Written,      \* bound: the tables whose rows change
  MaxChanges,   \* bound: row changes in a behaviour
  Schemas,      \* bound: the sets of tables there can be after a reload
  MaxReloads    \* bound: config or schema reloads in a behaviour

ASSUME ConstantsAssumption ==
  /\ TableOf \in [Subs -> Tables]
  /\ RowOf \in [Subs -> Rows \cup {AnyRow}]
  /\ AnyRow \notin Rows
  /\ Sse \subseteq Subs
  /\ None \notin Subs
  /\ HookCap \in Nat \ {0}
  /\ ChanCap \in Nat \ {0}
  /\ Written \subseteq Tables
  /\ Schemas \subseteq SUBSET Tables
  /\ MaxChanges \in Nat
  /\ MaxReloads \in Nat

VARIABLES
  \* The SQLite connection.
  changes,    \* rows changed so far, as the preupdate hook sees them
  hook,       \* the installed preupdate hook
  stuck,      \* the writer waits, inside its hook, for the lock it holds
  \* A hook's closure, its channel and its broker thread.
  cnt,        \* calls of the hook
  queue,      \* the channel: call number and change
  broker,     \* the broker thread's place in its loop
  expected,   \* the call number the broker expects next
  \* The subscription manager and the configuration it observes.
  apis,       \* tables with a record API that enables subscriptions
  schema,     \* tables in the connection's metadata
  reloads,    \* reloads so far
  current,    \* the manager's PerConnectionState for the connection
  \* A PerConnectionState.
  known,      \* tables in its copy of the metadata
  entries,    \* keys of its `subscriptions` map
  rowEntries, \* keys of the entries' `record` maps, as <<table, row>>
  listed,     \* subscriptions in its vectors
  dropped,    \* states whose destructor has run
  \* A request and its event stream.
  phase,      \* where it is between the API lookup and the stream's end
  home,       \* the PerConnectionState it attached to
  metadata,   \* the metadata of the API it looked up
  chan,       \* its channel: candidate sequence number and change
  candSeq,    \* Subscription.candidate_seq
  greetSeq,   \* the number its "established" event took
  validSeq,   \* ValidateEventArgs.expected_candidate_seq
  \* What its client has observed (history).
  since,      \* changes made before it was listed
  seen,       \* changes forwarded, or withheld by filter or access rule
  lost,       \* changes that found its channel full
  told,       \* event-loss errors the client got
  \* What the brokers went through (history).
  doubled     \* states that got a second hook while they had one

connVars   == <<changes, hook, stuck>>
hookVars   == <<cnt, queue, broker, expected>>
configVars == <<apis, schema, reloads, current>>
stateVars  == <<known, entries, rowEntries, listed, dropped>>
reqVars    == <<phase, home, metadata, chan, candSeq, greetSeq, validSeq>>
clientVars == <<since, seen, lost, told, doubled>>
vars == <<connVars, hookVars, configVars, stateVars, reqVars, clientVars>>

Phases == {"idle", "found", "attached", "hooking", "greeting", "sending",
           "streaming", "ending", "unhooking", "abandoned", "closed"}
BrokerPlaces == {"off", "check", "recv", "unhook", "done"}
Established == 0        \* the change number of an "established" event
Changes == 1 .. MaxChanges

-----------------------------------------------------------------------------
(* Derived state. *)

BrokerRuns(g) == broker[g] \in {"check", "recv", "unhook"}

\* The state's mutex is held while the hook is being removed: uninstall_hook
\* runs under it and waits for the connection's write lock.
Locked(p) ==
  \/ \E g \in Subs : home[g] = p /\ broker[g] = "unhook"
  \/ \E s \in Subs : home[s] = p /\ phase[s] = "unhooking"

\* Strong references to a PerConnectionState: the manager's map, the broker
\* threads and the requests that have not built their stream yet.
Referenced(p) ==
  \/ current = p
  \/ \E g \in Subs : home[g] = p /\ BrokerRuns(g)
  \/ \E s \in Subs : home[s] = p /\ phase[s] \in
        {"attached", "hooking", "greeting", "sending", "unhooking"}

\* A change is of interest to a subscription on its table or on its record.
Matches(s, c) ==
  /\ changes[c].table = TableOf[s]
  /\ RowOf[s] \in {AnyRow, changes[c].row}

\* Mutant: the record subscriptions are forgotten.
EntryEmptyButRecords(t, subs, rows) ==
  \A s \in subs : ~(TableOf[s] = t /\ RowOf[s] = AnyRow)

\* Subscriptions::is_empty of table t, for given lists and row keys.
EntryEmpty(t, subs, rows) ==
  /\ \A s \in subs : ~(TableOf[s] = t /\ RowOf[s] = AnyRow)
  /\ \A k \in rows : k[1] # t

\* The receiver and its channel are dropped; with them ends what the client
\* observes.
EndStream(s) ==
  /\ chan' = [chan EXCEPT ![s] = <<>>]
  /\ candSeq' = [candSeq EXCEPT ![s] = 0]
  /\ greetSeq' = [greetSeq EXCEPT ![s] = 0]
  /\ validSeq' = [validSeq EXCEPT ![s] = 0]
  /\ since' = [since EXCEPT ![s] = 0]
  /\ seen' = [seen EXCEPT ![s] = {}]
  /\ lost' = [lost EXCEPT ![s] = 0]
  /\ told' = [told EXCEPT ![s] = 0]
  /\ UNCHANGED doubled

\* After the subscription is in place, only SSE requests send an event first.
Subscribed(s) == IF s \in Sse THEN "greeting" ELSE "streaming"

\* The receiver of an abandoned request is gone.
ReceiverGone(s) == phase[s] = "abandoned"

\* The first subscriber of an empty map has to install the hook.
NeedsHook(s) == entries[home[s]] = {}

\* A hook of state p is on its way, or in place with a broker that runs.
HasHook(p) ==
  \E h \in Subs : /\ home[h] = p
                 /\ \/ phase[h] = "hooking"
                    \/ hook = h /\ BrokerRuns(h)

\* Mutant: only table subscriptions are removed.
WithoutTableSub(s) ==
  IF RowOf[s] = AnyRow THEN listed[home[s]] \ {s} ELSE listed[home[s]]

\* The subscriptions left when s is removed.
Without(s) == listed[home[s]] \ {s}

\* Mutant: the broker starts to count at zero.
InSequenceFromZero(g) == Head(queue[g]).cnt = expected[g] - 1

\* The next event in the hook's channel carries the call number expected.
InSequence(g) == Head(queue[g]).cnt = expected[g]

\* Mutant: the number is taken back when the channel is full.
NumberedWithRoom(to, dead) == {s \in to \ dead : Len(chan[s]) < ChanCap}

\* Mutant: numbers count the events of the whole connection.
NumberedOnConnection(to, dead) == Subs \ dead

\* An event takes a number of every subscription it is for, room or not.
Numbered(to, dead) == to

-----------------------------------------------------------------------------
Init ==
  /\ changes = <<>> /\ hook = None /\ stuck = FALSE
  /\ cnt = [g \in Subs |-> 0]
  /\ queue = [g \in Subs |-> <<>>]
  /\ broker = [g \in Subs |-> "off"]
  /\ expected = [g \in Subs |-> 1]
  /\ apis = Tables /\ schema = Tables /\ reloads = 0
  /\ current = None
  /\ known = [p \in Subs |-> {}]
  /\ entries = [p \in Subs |-> {}]
  /\ rowEntries = [p \in Subs |-> {}]
  /\ listed = [p \in Subs |-> {}]
  /\ dropped = {}
  /\ phase = [s \in Subs |-> "idle"]
  /\ home = [s \in Subs |-> None]
  /\ metadata = [s \in Subs |-> {}]
  /\ chan = [s \in Subs |-> <<>>]
  /\ candSeq = [s \in Subs |-> 0]
  /\ greetSeq = [s \in Subs |-> 0]
  /\ validSeq = [s \in Subs |-> 0]
  /\ since = [s \in Subs |-> 0]
  /\ seen = [s \in Subs |-> {}]
  /\ lost = [s \in Subs |-> 0]
  /\ told = [s \in Subs |-> 0]
  /\ doubled = {}

-----------------------------------------------------------------------------
(* The request: from the API lookup to the event stream. *)

\* add_subscription_sse_and_ws_handler: the API must exist and allow
\* subscriptions; the request keeps the API, and so its metadata, it found.
Lookup(s) ==
  /\ phase[s] = "idle"
  /\ TableOf[s] \in apis
  /\ phase' = [phase EXCEPT ![s] = "found"]
  /\ metadata' = [metadata EXCEPT ![s] = schema]
  /\ UNCHANGED <<connVars, hookVars, configVars, stateVars, clientVars,
                 home, chan, candSeq, greetSeq, validSeq>>

\* get_per_connection_state: the manager's state for the connection, or a new
\* one that starts with the metadata of the request's API.
Attach(s) ==
  /\ phase[s] = "found"
  /\ phase' = [phase EXCEPT ![s] = "attached"]
  /\ \/ /\ current # None
        /\ home' = [home EXCEPT ![s] = current]
        /\ UNCHANGED <<current, known>>
     \/ /\ current = None
        /\ home' = [home EXCEPT ![s] = s]
        /\ current' = s
        /\ known' = [known EXCEPT ![s] = metadata[s]]
  /\ metadata' = [metadata EXCEPT ![s] = {}]
  /\ UNCHANGED <<connVars, hookVars, clientVars, apis, schema, reloads, entries,
                 rowEntries, listed, dropped, chan, candSeq, greetSeq, validSeq>>

\* add_record_subscription: the record has no row, the request fails.
RecordNotFound(s) ==
  /\ phase[s] = "attached"
  /\ RowOf[s] # AnyRow
  /\ phase' = [phase EXCEPT ![s] = "closed"]
  /\ UNCHANGED <<connVars, hookVars, configVars, stateVars, clientVars,
                 home, metadata, chan, candSeq, greetSeq, validSeq>>

\* add_table_subscription, add_record_subscription: under the lock the
\* subscription joins the map; the first one has the hook to install.
Push(s) ==
  LET p == home[s]
      t == TableOf[s]
  IN
  /\ phase[s] = "attached"
  /\ ~Locked(p)
  /\ phase' = [phase EXCEPT ![s] =
       IF NeedsHook(s) THEN "hooking" ELSE Subscribed(s)]
  /\ entries' = [entries EXCEPT ![p] = @ \cup {t}]
  /\ listed' = [listed EXCEPT ![p] = @ \cup {s}]
  /\ rowEntries' = [rowEntries EXCEPT ![p] =
       IF RowOf[s] = AnyRow THEN @ ELSE @ \cup {<<t, RowOf[s]>>}]
  /\ since' = [since EXCEPT ![s] = Len(changes)]
  /\ doubled' = IF NeedsHook(s) /\ HasHook(p) THEN doubled \cup {p} ELSE doubled
  /\ UNCHANGED <<connVars, hookVars, configVars, known, dropped, home,
                 metadata, chan, candSeq, greetSeq, validSeq, seen, lost, told>>

\* add_hook: after unlocking, install a hook with a fresh channel, in place of
\* any other, and start its broker thread.
AddHook(s) ==
  /\ phase[s] = "hooking"
  /\ ~stuck
  /\ hook' = s
  /\ broker' = [broker EXCEPT ![s] = "check"]
  /\ phase' = [phase EXCEPT ![s] = Subscribed(s)]
  /\ UNCHANGED <<changes, stuck, cnt, queue, expected, configVars, stateVars,
                 clientVars, home, metadata, chan, candSeq, greetSeq, validSeq>>

\* add_sse_*_subscription: the "established" event takes its number ...
TakeGreetSeq(s) ==
  /\ phase[s] = "greeting"
  /\ phase' = [phase EXCEPT ![s] = "sending"]
  /\ greetSeq' = [greetSeq EXCEPT ![s] = candSeq[s]]
  /\ candSeq' = [candSeq EXCEPT ![s] = @ + 1]
  /\ UNCHANGED <<connVars, hookVars, configVars, stateVars, clientVars, home,
                 metadata, chan, validSeq>>

\* Mutant: the event is forced into a full channel.
SendGreetingForced(s) ==
  /\ phase[s] = "sending"
  /\ phase' = [phase EXCEPT ![s] = "streaming"]
  /\ chan' = [chan EXCEPT ![s] =
       Append(@, [seq |-> greetSeq[s], chg |-> Established])]
  /\ greetSeq' = [greetSeq EXCEPT ![s] = 0]
  /\ UNCHANGED <<connVars, hookVars, configVars, stateVars, clientVars, home,
                 metadata, candSeq, validSeq>>

\* ... and is sent, once the channel has room; then the stream is built.
SendGreeting(s) ==
  /\ phase[s] = "sending"
  /\ Len(chan[s]) < ChanCap
  /\ phase' = [phase EXCEPT ![s] = "streaming"]
  /\ chan' = [chan EXCEPT ![s] =
       Append(@, [seq |-> greetSeq[s], chg |-> Established])]
  /\ greetSeq' = [greetSeq EXCEPT ![s] = 0]
  /\ UNCHANGED <<connVars, hookVars, configVars, stateVars, clientVars, home,
                 metadata, candSeq, validSeq>>

\* The client goes away while that send waits: the request's future is dropped
\* with the receiver, and no AutoCleanupEventStream removes the subscription.
Cancel(s) ==
  /\ phase[s] = "sending"
  /\ Len(chan[s]) >= ChanCap
  /\ phase' = [phase EXCEPT ![s] = "abandoned"]
  /\ EndStream(s)
  /\ UNCHANGED <<connVars, hookVars, configVars, stateVars, home, metadata>>

-----------------------------------------------------------------------------
(* The event stream. *)

\* validate_event: a number other than the expected one becomes an event-loss
\* error, and the expected number is set to the one received.
ReceiveOutOfSeq(s) ==
  /\ phase[s] = "streaming"
  /\ chan[s] # <<>>
  /\ Head(chan[s]).seq # validSeq[s]
  /\ chan' = [chan EXCEPT ![s] = Tail(@)]
  /\ validSeq' = [validSeq EXCEPT ![s] = Head(chan[s]).seq]
  /\ told' = [told EXCEPT ![s] = @ + 1]
  /\ UNCHANGED <<connVars, hookVars, configVars, stateVars, phase, home,
                 metadata, candSeq, greetSeq, since, seen, lost, doubled>>

\* validate_event on the expected number, then subscribe_sse/subscribe_ws. The
\* change is forwarded, or withheld by the filter or (for a table) the access
\* rule, or because its API is gone; a record subscription denied access ends.
ReceiveInSeq(s) ==
  LET ev == Head(chan[s])
  IN
  /\ phase[s] = "streaming"
  /\ chan[s] # <<>>
  /\ ev.seq = validSeq[s]
  /\ chan' = [chan EXCEPT ![s] = Tail(@)]
  /\ validSeq' = [validSeq EXCEPT ![s] = @ + 1]
  /\ seen' = [seen EXCEPT ![s] = @ \cup ({ev.chg} \ {Established})]
  /\ \/ UNCHANGED phase
     \/ /\ ev.chg # Established
        /\ RowOf[s] # AnyRow
        /\ TableOf[s] \in apis
        /\ phase' = [phase EXCEPT ![s] = "ending"]
  /\ UNCHANGED <<connVars, hookVars, configVars, stateVars, home, metadata,
                 candSeq, greetSeq, since, lost, told, doubled>>

\* AutoCleanupEventStreamState::drop, remove_subscription2: the client goes
\* away, or the stream ended. An entry left empty is removed from the map; if
\* it was the last one the hook is removed too, with the lock still held.
Leave(s) ==
  LET p == home[s]
      t == TableOf[s]
      subs == Without(s)
      rows == IF /\ RowOf[s] # AnyRow
                 /\ \A o \in subs : <<TableOf[o], RowOf[o]>> # <<t, RowOf[s]>>
              THEN rowEntries[p] \ {<<t, RowOf[s]>>}
              ELSE rowEntries[p]
      tables == IF EntryEmpty(t, subs, rows) THEN entries[p] \ {t}
                                             ELSE entries[p]
  IN
  /\ phase[s] \in {"streaming", "ending"}
  /\ \/ /\ Referenced(p)
        /\ ~Locked(p)
        /\ entries' = [entries EXCEPT ![p] = tables]
        /\ rowEntries' = [rowEntries EXCEPT ![p] = rows]
        /\ listed' = [listed EXCEPT ![p] = subs]
        /\ phase' = [phase EXCEPT ![s] =
             IF t \in entries[p] /\ tables = {} THEN "unhooking" ELSE "closed"]
     \/ /\ ~Referenced(p)
        /\ phase' = [phase EXCEPT ![s] = "closed"]
        /\ UNCHANGED <<entries, rowEntries, listed>>
  /\ EndStream(s)
  /\ UNCHANGED <<connVars, hookVars, configVars, known, dropped, home, metadata>>

\* Mutant: the last subscriber leaves the hook behind.
LeaveKeepsHook(s) ==
  /\ phase[s] = "unhooking"
  /\ phase' = [phase EXCEPT ![s] = "closed"]
  /\ UNCHANGED <<connVars, hookVars, configVars, stateVars, clientVars,
                 home, metadata, chan, candSeq, greetSeq, validSeq>>

\* uninstall_hook at the end of remove_subscription2.
LeaveUnhook(s) ==
  /\ phase[s] = "unhooking"
  /\ ~stuck
  /\ hook' = None
  /\ phase' = [phase EXCEPT ![s] = "closed"]
  /\ UNCHANGED <<changes, stuck, hookVars, configVars, stateVars, clientVars,
                 home, metadata, chan, candSeq, greetSeq, validSeq>>

-----------------------------------------------------------------------------
(* The writer thread. *)

\* A row changes; the closure of install_hook counts the call and forwards
\* it, drops it when its channel is full, and when the broker is gone tries to
\* uninstall itself, which waits for the write lock its own thread holds.
Change(t, r) ==
  LET c == Len(changes) + 1
      g == hook
  IN
  /\ ~stuck
  /\ Len(changes) < MaxChanges
  /\ changes' = Append(changes, [table |-> t, row |-> r])
  /\ \/ /\ hook = None
        /\ UNCHANGED <<stuck, cnt, queue>>
     \/ /\ hook # None
        /\ cnt' = [cnt EXCEPT ![g] = @ + 1]
        /\ stuck' = (broker[g] = "done")
        /\ queue' = [queue EXCEPT ![g] =
             IF broker[g] # "done" /\ Len(@) < HookCap
             THEN Append(@, [cnt |-> cnt[g] + 1, chg |-> c])
             ELSE @]
  /\ UNCHANGED <<hook, broker, expected, configVars, stateVars, reqVars,
                 clientVars>>

-----------------------------------------------------------------------------
(* The broker thread of hook g. *)

\* The loop's first test: the hook, which owns the only sender, still exists.
BrokerCheck(g) ==
  /\ broker[g] = "check"
  /\ \/ /\ hook = g
        /\ broker' = [broker EXCEPT ![g] = "recv"]
        /\ UNCHANGED queue
     \/ /\ hook # g
        /\ broker' = [broker EXCEPT ![g] = "done"]
        /\ queue' = [queue EXCEPT ![g] = <<>>]
  /\ UNCHANGED <<connVars, cnt, expected, configVars, stateVars, reqVars,
                 clientVars>>

\* recv() fails once the channel is empty and the sender gone.
BrokerDisconnected(g) ==
  /\ broker[g] = "recv"
  /\ queue[g] = <<>>
  /\ hook # g
  /\ broker' = [broker EXCEPT ![g] = "done"]
  /\ UNCHANGED <<connVars, cnt, queue, expected, configVars, stateVars,
                 reqVars, clientVars>>

\* A missing call number: the hook's channel overflowed. All subscriptions are
\* removed and the thread ends; the hook stays installed.
BrokerOverflow(g) ==
  LET p == home[g]
  IN
  /\ broker[g] = "recv"
  /\ queue[g] # <<>>
  /\ ~InSequence(g)
  /\ ~Locked(p)
  /\ entries' = [entries EXCEPT ![p] = {}]
  /\ rowEntries' = [rowEntries EXCEPT ![p] = {}]
  /\ listed' = [listed EXCEPT ![p] = {}]
  /\ broker' = [broker EXCEPT ![g] = "done"]
  /\ queue' = [queue EXCEPT ![g] = <<>>]
  /\ UNCHANGED <<connVars, cnt, expected, configVars, known, dropped,
                 reqVars, clientVars>>

\* broker() for a table the metadata no longer has: its entry is removed, and
\* the hook with the last entry.
BrokerTableGone(g) ==
  LET p == home[g]
      t == changes[Head(queue[g]).chg].table
  IN
  /\ broker[g] = "recv"
  /\ queue[g] # <<>>
  /\ InSequence(g)
  /\ ~Locked(p)
  /\ t \notin known[p]
  /\ expected' = [expected EXCEPT ![g] = @ + 1]
  /\ queue' = [queue EXCEPT ![g] = Tail(@)]
  /\ entries' = [entries EXCEPT ![p] = @ \ {t}]
  /\ rowEntries' = [rowEntries EXCEPT ![p] = {k \in @ : k[1] # t}]
  /\ listed' = [listed EXCEPT ![p] = {s \in @ : TableOf[s] # t}]
  /\ broker' = [broker EXCEPT ![g] =
       IF entries[p] \subseteq {t} THEN "unhook" ELSE "check"]
  /\ UNCHANGED <<connVars, cnt, configVars, known, dropped, reqVars, clientVars>>

\* broker(), broker_subscriptions: every matching subscription's counter moves;
\* the event enters the channels with room; subscriptions whose receiver is
\* gone are removed from their vector (an emptied vector keeps its key), and
\* when nothing is left for the table the hook is removed.
BrokerDispatch(g) ==
  LET p == home[g]
      c == Head(queue[g]).chg
      t == changes[c].table
      to == {s \in listed[p] : Matches(s, c)}
      dead == {s \in to : ReceiverGone(s)}
      subs == listed[p] \ dead
      relevant == \/ <<t, changes[c].row>> \in rowEntries[p]
                  \/ \E s \in listed[p] : TableOf[s] = t /\ RowOf[s] = AnyRow
  IN
  /\ broker[g] = "recv"
  /\ queue[g] # <<>>
  /\ InSequence(g)
  /\ ~Locked(p)
  /\ t \in known[p]
  /\ expected' = [expected EXCEPT ![g] = @ + 1]
  /\ queue' = [queue EXCEPT ![g] = Tail(@)]
  /\ candSeq' = [s \in Subs |->
       IF s \in Numbered(to, dead) THEN candSeq[s] + 1 ELSE candSeq[s]]
  /\ chan' = [s \in Subs |->
       IF s \in to \ dead /\ Len(chan[s]) < ChanCap
       THEN Append(chan[s], [seq |-> candSeq[s], chg |-> c])
       ELSE chan[s]]
  /\ lost' = [s \in Subs |->
       IF s \in to \ dead /\ Len(chan[s]) >= ChanCap THEN lost[s] + 1 ELSE lost[s]]
  /\ listed' = [listed EXCEPT ![p] = subs]
  /\ broker' = [broker EXCEPT ![g] =
       IF relevant /\ EntryEmpty(t, subs, rowEntries[p])
       THEN "unhook" ELSE "check"]
  /\ UNCHANGED <<connVars, cnt, configVars, known, entries, rowEntries, dropped,
                 phase, home, metadata, greetSeq, validSeq, since, seen, told,
                 doubled>>

\* uninstall_hook at the end of broker().
BrokerUnhook(g) ==
  /\ broker[g] = "unhook"
  /\ ~stuck
  /\ hook' = None
  /\ broker' = [broker EXCEPT ![g] = "check"]
  /\ UNCHANGED <<changes, stuck, cnt, queue, expected, configVars, stateVars,
                 reqVars, clientVars>>

-----------------------------------------------------------------------------
(* The manager's observer of the configuration, and the state's destructor. *)

\* A reload in which the connection keeps an API with subscriptions: its state
\* gets the new metadata.
ReloadKeeps ==
  /\ reloads < MaxReloads
  /\ \E m \in Schemas : \E a \in SUBSET m :
       /\ a # {}
       /\ apis' = a
       /\ schema' = m
       /\ \/ /\ current = None
             /\ UNCHANGED known
          \/ /\ current # None
             /\ ~Locked(current)
             /\ known' = [known EXCEPT ![current] = m]
  /\ reloads' = reloads + 1
  /\ UNCHANGED <<connVars, hookVars, current, entries, rowEntries, listed,
                 dropped, reqVars, clientVars>>

\* A reload that leaves it none: the manager forgets the state. Its last
\* reference gone, its destructor removes the hook, still within the reload.
ReloadForgets ==
  /\ reloads < MaxReloads
  /\ apis' = {}
  /\ schema' \in Schemas
  /\ current' = None
  /\ \/ /\ current = None
        /\ UNCHANGED <<dropped, hook>>
     \/ /\ current # None
        /\ \/ /\ Referenced(current)'
              /\ UNCHANGED <<dropped, hook>>
           \/ /\ ~Referenced(current)'
              /\ ~stuck
              /\ dropped' = dropped \cup {current}
              /\ hook' = None
  /\ reloads' = reloads + 1
  /\ UNCHANGED <<changes, stuck, hookVars, known, entries, rowEntries, listed,
                 reqVars, clientVars>>

\* PerConnectionState::drop after another thread let go of the last reference.
DropState(p) ==
  /\ \E s \in Subs : home[s] = p
  /\ p \notin dropped
  /\ ~Referenced(p)
  /\ ~stuck
  /\ dropped' = dropped \cup {p}
  /\ hook' = None
  /\ UNCHANGED <<changes, stuck, hookVars, configVars, known, entries,
                 rowEntries, listed, reqVars, clientVars>>

-----------------------------------------------------------------------------
Request(s) ==
  \/ Lookup(s) \/ Attach(s) \/ RecordNotFound(s) \/ Push(s) \/ AddHook(s)
  \/ TakeGreetSeq(s) \/ SendGreeting(s)

Stream(s) == ReceiveOutOfSeq(s) \/ ReceiveInSeq(s)

Broker(g) ==
  \/ BrokerCheck(g) \/ BrokerDisconnected(g) \/ BrokerOverflow(g)
  \/ BrokerTableGone(g) \/ BrokerDispatch(g) \/ BrokerUnhook(g)

Writer == \E t \in Written, r \in Rows : Change(t, r)

Next ==
  \/ \E s \in Subs : Request(s) \/ Cancel(s) \/ Stream(s)
                     \/ Leave(s) \/ LeaveUnhook(s)
  \/ \E g \in Subs : Broker(g)
  \/ \E p \in Subs : DropState(p)
  \/ Writer \/ ReloadKeeps \/ ReloadForgets

Spec == Init /\ [][Next]_vars

\* Requests, streams, broker threads and destructors keep running. Nothing
\* makes a row change, a client leave or the configuration change.
Fairness ==
  /\ \A s \in Subs : WF_vars(Request(s)) /\ WF_vars(Stream(s))
                     /\ WF_vars(LeaveUnhook(s))
  /\ \A g \in Subs : WF_vars(Broker(g))
  /\ \A p \in Subs : WF_vars(DropState(p))

LiveSpec == Spec /\ Fairness

-----------------------------------------------------------------------------
(* Properties. *)

HookEvents == [cnt : Nat, chg : Changes]
Candidates == [seq : Nat, chg : Changes \cup {Established}]

ConnTypeOK ==
  /\ changes \in Seq([table : Tables, row : Rows])
  /\ Len(changes) <= MaxChanges
  /\ hook \in Subs \cup {None}
  /\ stuck \in BOOLEAN

HookTypeOK ==
  /\ cnt \in [Subs -> Nat]
  /\ expected \in [Subs -> Nat]
  /\ broker \in [Subs -> BrokerPlaces]
  /\ queue \in [Subs -> Seq(HookEvents)]
  /\ \A g \in Subs : Len(queue[g]) <= HookCap

ConfigTypeOK ==
  /\ apis \subseteq Tables
  /\ schema \subseteq Tables
  /\ reloads \in 0 .. MaxReloads
  /\ current \in Subs \cup {None}

StateTypeOK ==
  /\ known \in [Subs -> SUBSET Tables]
  /\ entries \in [Subs -> SUBSET Tables]
  /\ rowEntries \in [Subs -> SUBSET (Tables \X Rows)]
  /\ listed \in [Subs -> SUBSET Subs]
  /\ dropped \subseteq Subs

ReqTypeOK ==
  /\ phase \in [Subs -> Phases]
  /\ home \in [Subs -> Subs \cup {None}]
  /\ metadata \in [Subs -> SUBSET Tables]
  /\ candSeq \in [Subs -> Nat]
  /\ greetSeq \in [Subs -> Nat]
  /\ validSeq \in [Subs -> Nat]
  /\ chan \in [Subs -> Seq(Candidates)]
  /\ \A s \in Subs : Len(chan[s]) <= ChanCap

ClientTypeOK ==
  /\ since \in [Subs -> Nat]
  /\ lost \in [Subs -> Nat]
  /\ told \in [Subs -> Nat]
  /\ seen \in [Subs -> SUBSET Changes]
  /\ doubled \subseteq Subs \cup {None}

\* The types of all variables, and the capacities of the channels.
TypeOK == /\ ConnTypeOK /\ HookTypeOK /\ ConfigTypeOK
          /\ StateTypeOK /\ ReqTypeOK /\ ClientTypeOK

\* While the connection has subscribers, and the request that must install the
\* hook is through, the hook is in place and its broker runs for them. There are
\* two exceptions: a state the manager forgot takes down whatever hook there is,
\* its successor's too; and a dispatch that finds the last subscriber of one
\* table gone (its request was abandoned) takes the hook from all tables.
HookServesSubscribers ==
  /\ current # None
  /\ listed[current] # {}
  /\ \A s \in Subs : /\ home[s] \in {None, current}
                     /\ phase[s] \notin {"hooking", "abandoned"}
  => hook # None /\ home[hook] = current /\ BrokerRuns(hook)

\* The writer gets stuck in a hook only after that hook's channel overflowed:
\* there is no other way to lose the broker thread while the hook is in place.
\* The writer thread then waits for the lock it holds (hook.rs: "In principle
\* this should not happen.").
StuckOnlyAfterOverflow ==
  stuck => /\ hook # None
           /\ broker[hook] = "done"
           /\ expected[hook] > HookCap
           /\ cnt[hook] > expected[hook] + 1

\* The layered sequence numbers do their work: between two changes a client
\* observed it missed none that matched its subscription, unless it was told.
\* They count per broker and per subscription: two brokers that serve one state
\* at a time can interleave what a client gets.
NoSilentGap ==
  \A s \in Subs : told[s] = 0 /\ home[s] \notin doubled =>
    \A a, b \in seen[s] : since[s] < a => \A c \in (a + 1) .. (b - 1) :
      Matches(s, c) => c \in seen[s]

\* A WebSocket's event-loss error stands for a loss. (An SSE stream's may not:
\* its established event can be overtaken after it took its number.)
LossReportsAreReal == \A s \in Subs \ Sse : told[s] > 0 => lost[s] > 0

\* A client that is gone is in no vector of a state that still runs.
NoGhostSubscription ==
  \A s \in Subs : phase[s] \in {"closed", "unhooking"} /\ home[s] # None =>
    s \notin listed[home[s]] \/ ~Referenced(home[s])

\* Every change made while a client streams and the hook is in place is
\* observed by it or reported lost, unless the client leaves first.
ChangesReachClients ==
  \A s \in Subs, c \in Changes :
    [](/\ phase[s] = "streaming" /\ Len(changes) = c - 1
       /\ hook # None /\ home[hook] = home[s]
       => \/ <>[](Len(changes) < c)
          \/ <>(\/ phase[s] # "streaming"
                \/ Len(changes) >= c /\ ~Matches(s, c)
                \/ c \in seen[s]
                \/ told[s] > 0))

\* When no client is left the hook is removed and its broker thread ends.
ThreadsEnd ==
  <>[](\A s \in Subs : phase[s] = "closed")
    => <>[](hook = None /\ \A g \in Subs : ~BrokerRuns(g))
=============================================================================
