------------------------ MODULE SubscriptionsProofs ------------------------
(***************************************************************************)
(* Theorems about Subscriptions, for any tables, rows, requests,           *)
(* capacities and bounds.                                                  *)
(***************************************************************************)
EXTENDS Subscriptions, TLAPS

LEMMA AppendFacts ==
  ASSUME NEW S, NEW q \in Seq(S), NEW x \in S
  PROVE  Append(q, x) \in Seq(S) /\ Len(Append(q, x)) = Len(q) + 1
  OBVIOUS

LEMMA TailFacts ==
  ASSUME NEW S, NEW q \in Seq(S), q # <<>>
  PROVE  /\ Head(q) \in S
         /\ Tail(q) \in Seq(S)
         /\ Len(Tail(q)) = Len(q) - 1
  OBVIOUS

\* What an update of one channel has to respect.
LEMMA ChanUpdate ==
  ASSUME TypeOK, NEW s \in Subs, NEW q \in Seq(Candidates), Len(q) <= ChanCap,
         chan' = [chan EXCEPT ![s] = q]
  PROVE  chan' \in [Subs -> Seq(Candidates)]
         /\ \A o \in Subs : Len(chan'[o]) <= ChanCap
  BY DEF TypeOK, ReqTypeOK

LEMMA QueueUpdate ==
  ASSUME TypeOK, NEW g \in Subs, NEW q \in Seq(HookEvents), Len(q) <= HookCap,
         queue' = [queue EXCEPT ![g] = q]
  PROVE  queue' \in [Subs -> Seq(HookEvents)]
         /\ \A o \in Subs : Len(queue'[o]) <= HookCap
  BY DEF TypeOK, HookTypeOK

LEMMA TypeInit == Init => TypeOK
<1> USE ConstantsAssumption
<1> SUFFICES ASSUME Init PROVE TypeOK
  OBVIOUS
<1>1. ConnTypeOK
  <2>1. changes \in Seq([table : Tables, row : Rows])
    BY DEF Init, ConnTypeOK
  <2>2. Len(changes) <= MaxChanges
    BY DEF Init, ConnTypeOK
  <2>3. hook \in Subs \cup {None}
    BY DEF Init, ConnTypeOK
  <2>4. stuck \in BOOLEAN
    BY DEF Init, ConnTypeOK
  <2> QED
    BY <2>1, <2>2, <2>3, <2>4 DEF ConnTypeOK
<1>2. HookTypeOK
  BY DEF Init, HookTypeOK, BrokerPlaces
<1>3. ConfigTypeOK
  BY DEF Init, ConfigTypeOK
<1>4. StateTypeOK
  BY DEF Init, StateTypeOK
<1>5. ReqTypeOK
  BY DEF Init, ReqTypeOK, Phases
<1>6. ClientTypeOK
  BY DEF Init, ClientTypeOK
<1> QED
  BY <1>1, <1>2, <1>3, <1>4, <1>5, <1>6 DEF TypeOK

LEMMA TypeKept ==
  ASSUME TypeOK
  PROVE  /\ UNCHANGED connVars => ConnTypeOK'
         /\ UNCHANGED hookVars => HookTypeOK'
         /\ UNCHANGED configVars => ConfigTypeOK'
         /\ UNCHANGED stateVars => StateTypeOK'
         /\ UNCHANGED reqVars => ReqTypeOK'
         /\ UNCHANGED clientVars => ClientTypeOK'
<1>1. UNCHANGED connVars => ConnTypeOK'
  BY DEF TypeOK, ConnTypeOK, connVars
<1>2. UNCHANGED hookVars => HookTypeOK'
  BY DEF TypeOK, HookTypeOK, hookVars
<1>3. UNCHANGED configVars => ConfigTypeOK'
  BY DEF TypeOK, ConfigTypeOK, configVars
<1>4. UNCHANGED stateVars => StateTypeOK'
  BY DEF TypeOK, StateTypeOK, stateVars
<1>5. UNCHANGED reqVars => ReqTypeOK'
  BY DEF TypeOK, ReqTypeOK, reqVars
<1>6. UNCHANGED clientVars => ClientTypeOK'
  BY DEF TypeOK, ClientTypeOK, clientVars
<1> QED
  BY <1>1, <1>2, <1>3, <1>4, <1>5, <1>6


LEMMA TypeRequest ==
  ASSUME TypeOK, NEW s \in Subs, Request(s) \/ Cancel(s)
  PROVE  TypeOK'
<1> USE ConstantsAssumption
<1>1. CASE Lookup(s)
  <2>1. ReqTypeOK'
    BY <1>1 DEF TypeOK, ReqTypeOK, ConfigTypeOK, Lookup, Phases
  <2> QED
    BY <1>1, TypeKept, <2>1
    DEF TypeOK, Lookup, connVars, hookVars, configVars, stateVars, reqVars, clientVars
<1>2. CASE Attach(s)
  <2>1. ConfigTypeOK'
    BY <1>2 DEF TypeOK, ConfigTypeOK, ReqTypeOK, Attach
  <2>2. StateTypeOK'
    <3>1. UNCHANGED <<entries, rowEntries, listed, dropped>>
      BY <1>2 DEF Attach
    <3>2. UNCHANGED known \/ known' = [known EXCEPT ![s] = metadata[s]]
      BY <1>2 DEF Attach
    <3>3. metadata[s] \in SUBSET Tables
      BY DEF TypeOK, ReqTypeOK
    <3>4. known' \in [Subs -> SUBSET Tables]
      BY <3>2, <3>3 DEF TypeOK, StateTypeOK
    <3> QED
      BY <3>1, <3>4 DEF TypeOK, StateTypeOK
  <2>3. ReqTypeOK'
    <3>1. phase' \in [Subs -> Phases]
      BY <1>2 DEF TypeOK, ReqTypeOK, ConfigTypeOK, Attach, Phases
    <3>2. home' \in [Subs -> Subs \cup {None}]
      <4>1. \/ home' = [home EXCEPT ![s] = current]
            \/ home' = [home EXCEPT ![s] = s]
        BY <1>2 DEF Attach
      <4>2. current \in Subs \cup {None}
        BY DEF TypeOK, ConfigTypeOK
      <4>3. \E h \in Subs \cup {None} : home' = [home EXCEPT ![s] = h]
        BY <4>1, <4>2
      <4>4. home \in [Subs -> Subs \cup {None}]
        BY DEF TypeOK, ReqTypeOK
      <4> QED
        BY <4>3, <4>4
    <3>3. metadata' \in [Subs -> SUBSET Tables]
      BY <1>2 DEF TypeOK, ReqTypeOK, ConfigTypeOK, Attach, Phases
    <3>4. candSeq' \in [Subs -> Nat]
      BY <1>2 DEF TypeOK, ReqTypeOK, ConfigTypeOK, Attach, Phases
    <3>5. greetSeq' \in [Subs -> Nat]
      BY <1>2 DEF TypeOK, ReqTypeOK, ConfigTypeOK, Attach, Phases
    <3>6. validSeq' \in [Subs -> Nat]
      BY <1>2 DEF TypeOK, ReqTypeOK, ConfigTypeOK, Attach, Phases
    <3>7. chan' \in [Subs -> Seq(Candidates)]
      BY <1>2 DEF TypeOK, ReqTypeOK, ConfigTypeOK, Attach, Phases
    <3>8. \A o \in Subs : Len(chan'[o]) <= ChanCap
      BY <1>2 DEF TypeOK, ReqTypeOK, ConfigTypeOK, Attach, Phases
    <3> QED
      BY <3>1, <3>2, <3>3, <3>4, <3>5, <3>6, <3>7, <3>8 DEF ReqTypeOK
  <2> QED
    BY <1>2, TypeKept, <2>1, <2>2, <2>3
    DEF TypeOK, Attach, connVars, hookVars, configVars, stateVars, reqVars, clientVars
<1>3. CASE RecordNotFound(s)
  <2>1. ReqTypeOK'
    BY <1>3 DEF TypeOK, ReqTypeOK, ConfigTypeOK, RecordNotFound, Phases
  <2> QED
    BY <1>3, TypeKept, <2>1
    DEF TypeOK, RecordNotFound, connVars, hookVars, configVars, stateVars, reqVars, clientVars
<1>4. CASE Push(s)
  <2>1. StateTypeOK'
    <3>1. known' \in [Subs -> SUBSET Tables]
      BY <1>4 DEF TypeOK, StateTypeOK, ConfigTypeOK, ReqTypeOK, Push
    <3>2. entries' \in [Subs -> SUBSET Tables]
      <4>1. TableOf[s] \in Tables
        OBVIOUS
      <4>2. entries' = [entries EXCEPT ![home[s]] = @ \cup {TableOf[s]}]
        BY <1>4 DEF Push
      <4> QED
        BY <4>1, <4>2, ZenonT(60) DEF TypeOK, StateTypeOK
    <3>3. rowEntries' \in [Subs -> SUBSET (Tables \X Rows)]
      <4>1. RowOf[s] # AnyRow => <<TableOf[s], RowOf[s]>> \in Tables \X Rows
        OBVIOUS
      <4>2. rowEntries' = [rowEntries EXCEPT ![home[s]] =
                IF RowOf[s] = AnyRow THEN @ ELSE @ \cup {<<TableOf[s], RowOf[s]>>}]
        BY <1>4 DEF Push
      <4>3. rowEntries \in [Subs -> SUBSET (Tables \X Rows)]
        BY DEF TypeOK, StateTypeOK
      <4>4. CASE RowOf[s] = AnyRow
        BY <4>2, <4>3, <4>4
      <4>5. CASE RowOf[s] # AnyRow
        BY <4>1, <4>2, <4>3, <4>5
      <4> QED
        BY <4>4, <4>5
    <3>4. listed' \in [Subs -> SUBSET Subs]
      BY <1>4, ZenonT(60) DEF TypeOK, StateTypeOK, ConfigTypeOK, ReqTypeOK, Push
    <3>5. dropped' \subseteq Subs
      BY <1>4 DEF TypeOK, StateTypeOK, ConfigTypeOK, ReqTypeOK, Push
    <3> QED
      BY <3>1, <3>2, <3>3, <3>4, <3>5 DEF StateTypeOK
  <2>2. ReqTypeOK'
    BY <1>4 DEF TypeOK, ReqTypeOK, ConfigTypeOK, Push, Phases, Subscribed
  <2>3. ClientTypeOK'
    <3>1. home[s] \in Subs \cup {None}
      BY DEF TypeOK, ReqTypeOK
    <3>2. doubled' \subseteq Subs \cup {None}
      BY <1>4, <3>1 DEF TypeOK, ClientTypeOK, Push
    <3> QED
      BY <1>4, <3>2 DEF TypeOK, ClientTypeOK, ConnTypeOK, Push
  <2> QED
    BY <1>4, TypeKept, <2>1, <2>2, <2>3
    DEF TypeOK, Push, connVars, hookVars, configVars, stateVars, reqVars, clientVars
<1>5. CASE AddHook(s)
  <2>1. ConnTypeOK'
    BY <1>5 DEF TypeOK, ConnTypeOK, AddHook
  <2>2. HookTypeOK'
    BY <1>5 DEF TypeOK, HookTypeOK, AddHook, BrokerPlaces
  <2>3. ReqTypeOK'
    BY <1>5 DEF TypeOK, ReqTypeOK, ConfigTypeOK, AddHook, Phases, Subscribed
  <2> QED
    BY <1>5, TypeKept, <2>1, <2>2, <2>3
    DEF TypeOK, AddHook, connVars, hookVars, configVars, stateVars, reqVars, clientVars
<1>6. CASE TakeGreetSeq(s)
  <2>1. ReqTypeOK'
    BY <1>6 DEF TypeOK, ReqTypeOK, ConfigTypeOK, TakeGreetSeq, Phases
  <2> QED
    BY <1>6, TypeKept, <2>1
    DEF TypeOK, TakeGreetSeq, connVars, hookVars, configVars, stateVars, reqVars, clientVars
<1>7. CASE SendGreeting(s)
  <2>1. ReqTypeOK'
    <3>1. phase' \in [Subs -> Phases]
      BY <1>7 DEF TypeOK, ReqTypeOK, ConfigTypeOK, SendGreeting, Phases, Candidates
    <3>2. home' \in [Subs -> Subs \cup {None}]
      BY <1>7 DEF TypeOK, ReqTypeOK, ConfigTypeOK, SendGreeting, Phases, Candidates
    <3>3. metadata' \in [Subs -> SUBSET Tables]
      BY <1>7 DEF TypeOK, ReqTypeOK, ConfigTypeOK, SendGreeting, Phases, Candidates
    <3>4. candSeq' \in [Subs -> Nat]
      BY <1>7 DEF TypeOK, ReqTypeOK, ConfigTypeOK, SendGreeting, Phases, Candidates
    <3>5. greetSeq' \in [Subs -> Nat]
      BY <1>7 DEF TypeOK, ReqTypeOK, ConfigTypeOK, SendGreeting, Phases, Candidates
    <3>6. validSeq' \in [Subs -> Nat]
      BY <1>7 DEF TypeOK, ReqTypeOK, ConfigTypeOK, SendGreeting, Phases, Candidates
    <3> DEFINE ev == [seq |-> greetSeq[s], chg |-> Established]
    <3>a. ev \in Candidates
      BY DEF TypeOK, ReqTypeOK, Candidates
    <3>b. chan[s] \in Seq(Candidates) /\ Len(chan[s]) < ChanCap
      BY <1>7 DEF TypeOK, ReqTypeOK, SendGreeting
    <3>c. chan' = [chan EXCEPT ![s] = Append(chan[s], ev)]
      BY <1>7 DEF SendGreeting
    <3> HIDE DEF ev
    <3>d. Append(chan[s], ev) \in Seq(Candidates) /\ Len(Append(chan[s], ev)) <= ChanCap
      BY <3>a, <3>b, AppendFacts
    <3>7. chan' \in [Subs -> Seq(Candidates)]
      BY <3>c, <3>d, ChanUpdate
    <3>8. \A o \in Subs : Len(chan'[o]) <= ChanCap
      BY <3>c, <3>d, ChanUpdate
    <3> QED
      BY <3>1, <3>2, <3>3, <3>4, <3>5, <3>6, <3>7, <3>8 DEF ReqTypeOK
  <2> QED
    BY <1>7, TypeKept, <2>1
    DEF TypeOK, SendGreeting, connVars, hookVars, configVars, stateVars, reqVars, clientVars
<1>8. CASE Cancel(s)
  <2>1. ReqTypeOK'
    BY <1>8 DEF TypeOK, ReqTypeOK, ConfigTypeOK, Cancel, Phases, EndStream
  <2>2. ClientTypeOK'
    BY <1>8 DEF TypeOK, ClientTypeOK, ReqTypeOK, ConnTypeOK, Cancel, EndStream
  <2> QED
    BY <1>8, TypeKept, <2>1, <2>2
    DEF TypeOK, Cancel, connVars, hookVars, configVars, stateVars, reqVars, clientVars
<1> QED
  BY <1>1, <1>2, <1>3, <1>4, <1>5, <1>6, <1>7, <1>8 DEF Request

LEMMA TypeStream ==
  ASSUME TypeOK, NEW s \in Subs, Stream(s) \/ Leave(s) \/ LeaveUnhook(s)
  PROVE  TypeOK'
<1> USE ConstantsAssumption
<1>1. CASE ReceiveOutOfSeq(s)
  <2>1. ReqTypeOK'
    <3>1. phase' \in [Subs -> Phases]
      BY <1>1 DEF TypeOK, ReqTypeOK, ConfigTypeOK, ReceiveOutOfSeq, Candidates
    <3>2. home' \in [Subs -> Subs \cup {None}]
      BY <1>1 DEF TypeOK, ReqTypeOK, ConfigTypeOK, ReceiveOutOfSeq, Candidates
    <3>3. metadata' \in [Subs -> SUBSET Tables]
      BY <1>1 DEF TypeOK, ReqTypeOK, ConfigTypeOK, ReceiveOutOfSeq, Candidates
    <3>4. candSeq' \in [Subs -> Nat]
      BY <1>1 DEF TypeOK, ReqTypeOK, ConfigTypeOK, ReceiveOutOfSeq, Candidates
    <3>5. greetSeq' \in [Subs -> Nat]
      BY <1>1 DEF TypeOK, ReqTypeOK, ConfigTypeOK, ReceiveOutOfSeq, Candidates
    <3>a. chan[s] \in Seq(Candidates) /\ chan[s] # <<>> /\ Len(chan[s]) <= ChanCap
      BY <1>1 DEF TypeOK, ReqTypeOK, ReceiveOutOfSeq
    <3>b. Head(chan[s]).seq \in Nat
      <4>1. Head(chan[s]) \in Candidates
        BY <3>a, TailFacts
      <4> QED
        BY <4>1 DEF Candidates
    <3>c. Tail(chan[s]) \in Seq(Candidates) /\ Len(Tail(chan[s])) <= ChanCap
      BY <3>a, TailFacts
    <3>d. chan' = [chan EXCEPT ![s] = Tail(chan[s])]
      BY <1>1 DEF ReceiveOutOfSeq
    <3>6. validSeq' \in [Subs -> Nat]
      BY <1>1, <3>b DEF TypeOK, ReqTypeOK, ReceiveOutOfSeq
    <3>7. chan' \in [Subs -> Seq(Candidates)]
      BY <3>c, <3>d, ChanUpdate
    <3>8. \A o \in Subs : Len(chan'[o]) <= ChanCap
      BY <3>c, <3>d, ChanUpdate
    <3> QED
      BY <3>1, <3>2, <3>3, <3>4, <3>5, <3>6, <3>7, <3>8 DEF ReqTypeOK
  <2>2. ClientTypeOK'
    <3>1. UNCHANGED <<since, seen, lost, doubled>>
      BY <1>1 DEF ReceiveOutOfSeq
    <3>2. told' = [told EXCEPT ![s] = told[s] + 1]
      BY <1>1 DEF ReceiveOutOfSeq
    <3>3. told' \in [Subs -> Nat]
      BY <3>2 DEF TypeOK, ClientTypeOK
    <3> QED
      BY <3>1, <3>3 DEF TypeOK, ClientTypeOK
  <2> QED
    BY <1>1, TypeKept, <2>1, <2>2
    DEF TypeOK, ReceiveOutOfSeq, connVars, hookVars, configVars, stateVars, reqVars, clientVars
<1>2. CASE ReceiveInSeq(s)
  <2>1. ReqTypeOK'
    <3>1. phase' \in [Subs -> Phases]
      BY <1>2 DEF TypeOK, ReqTypeOK, ConfigTypeOK, ReceiveInSeq, Phases, Candidates
    <3>2. home' \in [Subs -> Subs \cup {None}]
      BY <1>2 DEF TypeOK, ReqTypeOK, ConfigTypeOK, ReceiveInSeq, Phases, Candidates
    <3>3. metadata' \in [Subs -> SUBSET Tables]
      BY <1>2 DEF TypeOK, ReqTypeOK, ConfigTypeOK, ReceiveInSeq, Phases, Candidates
    <3>4. candSeq' \in [Subs -> Nat]
      BY <1>2 DEF TypeOK, ReqTypeOK, ConfigTypeOK, ReceiveInSeq, Phases, Candidates
    <3>5. greetSeq' \in [Subs -> Nat]
      BY <1>2 DEF TypeOK, ReqTypeOK, ConfigTypeOK, ReceiveInSeq, Phases, Candidates
    <3>a. chan[s] \in Seq(Candidates) /\ chan[s] # <<>> /\ Len(chan[s]) <= ChanCap
      BY <1>2 DEF TypeOK, ReqTypeOK, ReceiveInSeq
    <3>b. Head(chan[s]).seq \in Nat
      <4>1. Head(chan[s]) \in Candidates
        BY <3>a, TailFacts
      <4> QED
        BY <4>1 DEF Candidates
    <3>c. Tail(chan[s]) \in Seq(Candidates) /\ Len(Tail(chan[s])) <= ChanCap
      BY <3>a, TailFacts
    <3>d. chan' = [chan EXCEPT ![s] = Tail(chan[s])]
      BY <1>2 DEF ReceiveInSeq
    <3>6. validSeq' \in [Subs -> Nat]
      BY <1>2, <3>b DEF TypeOK, ReqTypeOK, ReceiveInSeq
    <3>7. chan' \in [Subs -> Seq(Candidates)]
      BY <3>c, <3>d, ChanUpdate
    <3>8. \A o \in Subs : Len(chan'[o]) <= ChanCap
      BY <3>c, <3>d, ChanUpdate
    <3> QED
      BY <3>1, <3>2, <3>3, <3>4, <3>5, <3>6, <3>7, <3>8 DEF ReqTypeOK
  <2>2. ClientTypeOK'
    <3>1. since' \in [Subs -> Nat]
      BY <1>2 DEF TypeOK, ClientTypeOK, ReqTypeOK, ConnTypeOK, ReceiveInSeq, Candidates
    <3>2. lost' \in [Subs -> Nat]
      BY <1>2 DEF TypeOK, ClientTypeOK, ReqTypeOK, ConnTypeOK, ReceiveInSeq, Candidates
    <3>3. told' \in [Subs -> Nat]
      BY <1>2 DEF TypeOK, ClientTypeOK, ReqTypeOK, ConnTypeOK, ReceiveInSeq, Candidates
    <3>4. seen' \in [Subs -> SUBSET Changes]
      <4>1. chan[s] \in Seq(Candidates) /\ chan[s] # <<>>
        BY <1>2 DEF TypeOK, ReqTypeOK, ReceiveInSeq
      <4>2. {Head(chan[s]).chg} \ {Established} \subseteq Changes
        <5>1. Head(chan[s]) \in Candidates
          BY <4>1, TailFacts
        <5> QED
          BY <5>1 DEF Candidates
      <4>3. seen' = [seen EXCEPT ![s] = @ \cup ({Head(chan[s]).chg} \ {Established})]
        BY <1>2 DEF ReceiveInSeq
      <4> QED
        BY <4>2, <4>3 DEF TypeOK, ClientTypeOK
    <3>5. doubled' \subseteq Subs \cup {None}
      BY <1>2 DEF TypeOK, ClientTypeOK, ReceiveInSeq
    <3> QED
      BY <3>1, <3>2, <3>3, <3>4, <3>5 DEF ClientTypeOK
  <2> QED
    BY <1>2, TypeKept, <2>1, <2>2
    DEF TypeOK, ReceiveInSeq, connVars, hookVars, configVars, stateVars, reqVars, clientVars
<1>3. CASE Leave(s)
  <2>1. StateTypeOK'
    <3>1. known' \in [Subs -> SUBSET Tables]
      BY <1>3 DEF TypeOK, StateTypeOK, ConfigTypeOK, ReqTypeOK, Leave, Without
    <3>2. entries' \in [Subs -> SUBSET Tables]
      <4>1. entries \in [Subs -> SUBSET Tables]
        BY DEF TypeOK, StateTypeOK
      <4>2. \/ entries' = entries
            \/ \E w \in SUBSET entries[home[s]] :
                 entries' = [entries EXCEPT ![home[s]] = w]
        BY <1>3 DEF Leave, Without
      <4> QED
        BY <4>1, <4>2
    <3>3. rowEntries' \in [Subs -> SUBSET (Tables \X Rows)]
      <4>1. rowEntries \in [Subs -> SUBSET (Tables \X Rows)]
        BY DEF TypeOK, StateTypeOK
      <4>2. \/ rowEntries' = rowEntries
            \/ \E w \in SUBSET rowEntries[home[s]] :
                 rowEntries' = [rowEntries EXCEPT ![home[s]] = w]
        BY <1>3 DEF Leave, Without
      <4> QED
        BY <4>1, <4>2
    <3>4. listed' \in [Subs -> SUBSET Subs]
      <4>1. listed \in [Subs -> SUBSET Subs]
        BY DEF TypeOK, StateTypeOK
      <4>2. \/ listed' = listed
            \/ \E w \in SUBSET listed[home[s]] :
                 listed' = [listed EXCEPT ![home[s]] = w]
        BY <1>3 DEF Leave, Without
      <4> QED
        BY <4>1, <4>2
    <3>5. dropped' \subseteq Subs
      BY <1>3 DEF TypeOK, StateTypeOK, ConfigTypeOK, ReqTypeOK, Leave, Without
    <3> QED
      BY <3>1, <3>2, <3>3, <3>4, <3>5 DEF StateTypeOK
  <2>2. ReqTypeOK'
    <3>1. phase' \in [Subs -> Phases]
      BY <1>3 DEF TypeOK, ReqTypeOK, ConfigTypeOK, Leave, Phases, EndStream
    <3>2. home' \in [Subs -> Subs \cup {None}]
      BY <1>3 DEF TypeOK, ReqTypeOK, ConfigTypeOK, Leave, Phases, EndStream
    <3>3. metadata' \in [Subs -> SUBSET Tables]
      BY <1>3 DEF TypeOK, ReqTypeOK, ConfigTypeOK, Leave, Phases, EndStream
    <3>4. candSeq' \in [Subs -> Nat]
      BY <1>3 DEF TypeOK, ReqTypeOK, ConfigTypeOK, Leave, Phases, EndStream
    <3>5. greetSeq' \in [Subs -> Nat]
      BY <1>3 DEF TypeOK, ReqTypeOK, ConfigTypeOK, Leave, Phases, EndStream
    <3>6. validSeq' \in [Subs -> Nat]
      BY <1>3 DEF TypeOK, ReqTypeOK, ConfigTypeOK, Leave, Phases, EndStream
    <3>7. chan' \in [Subs -> Seq(Candidates)]
      BY <1>3 DEF TypeOK, ReqTypeOK, ConfigTypeOK, Leave, Phases, EndStream
    <3>8. \A o \in Subs : Len(chan'[o]) <= ChanCap
      BY <1>3 DEF TypeOK, ReqTypeOK, ConfigTypeOK, Leave, Phases, EndStream
    <3> QED
      BY <3>1, <3>2, <3>3, <3>4, <3>5, <3>6, <3>7, <3>8 DEF ReqTypeOK
  <2>3. ClientTypeOK'
    BY <1>3 DEF TypeOK, ClientTypeOK, ReqTypeOK, ConnTypeOK, Leave, EndStream
  <2> QED
    BY <1>3, TypeKept, <2>1, <2>2, <2>3
    DEF TypeOK, Leave, connVars, hookVars, configVars, stateVars, reqVars, clientVars
<1>4. CASE LeaveUnhook(s)
  <2>1. ConnTypeOK'
    BY <1>4 DEF TypeOK, ConnTypeOK, LeaveUnhook
  <2>2. ReqTypeOK'
    BY <1>4 DEF TypeOK, ReqTypeOK, ConfigTypeOK, LeaveUnhook, Phases
  <2> QED
    BY <1>4, TypeKept, <2>1, <2>2
    DEF TypeOK, LeaveUnhook, connVars, hookVars, configVars, stateVars, reqVars, clientVars
<1> QED
  BY <1>1, <1>2, <1>3, <1>4 DEF Stream

LEMMA TypeWriter ==
  ASSUME TypeOK, NEW t \in Tables, NEW r \in Rows, Change(t, r)
  PROVE  TypeOK'
<1> USE ConstantsAssumption
<1>1. CASE Change(t, r)
  <2>1. ConnTypeOK'
    <3>1. changes' \in Seq([table : Tables, row : Rows])
      BY <1>1 DEF TypeOK, ConnTypeOK, Change
    <3>2. Len(changes') <= MaxChanges
      BY <1>1 DEF TypeOK, ConnTypeOK, Change
    <3>3. hook' \in Subs \cup {None}
      BY <1>1 DEF TypeOK, ConnTypeOK, Change
    <3>4. stuck' \in BOOLEAN
      BY <1>1 DEF TypeOK, ConnTypeOK, Change
    <3> QED
      BY <3>1, <3>2, <3>3, <3>4 DEF ConnTypeOK
  <2>2. HookTypeOK'
    <3>a. cnt \in [Subs -> Nat] /\ queue \in [Subs -> Seq(HookEvents)]
      BY DEF TypeOK, HookTypeOK
    <3>b. Len(changes) + 1 \in Changes
      BY <1>1 DEF TypeOK, ConnTypeOK, Change, Changes
    <3>c. \/ UNCHANGED <<cnt, queue>>
          \/ /\ hook \in Subs
             /\ cnt' = [cnt EXCEPT ![hook] = cnt[hook] + 1]
             /\ UNCHANGED queue
          \/ /\ hook \in Subs
             /\ cnt' = [cnt EXCEPT ![hook] = cnt[hook] + 1]
             /\ Len(queue[hook]) < HookCap
             /\ queue' = [queue EXCEPT ![hook] = Append(queue[hook],
                             [cnt |-> cnt[hook] + 1, chg |-> Len(changes) + 1])]
      <4>1. CASE hook = None
        BY <1>1, <4>1 DEF Change
      <4>2. CASE hook # None /\ broker[hook] # "done" /\ Len(queue[hook]) < HookCap
        BY <1>1, <4>2 DEF Change, TypeOK, ConnTypeOK
      <4>3. CASE hook # None /\ ~(broker[hook] # "done" /\ Len(queue[hook]) < HookCap)
        <5>1. queue' = [queue EXCEPT ![hook] = queue[hook]]
          BY <1>1, <4>3 DEF Change
        <5>2. queue' = queue
          BY <5>1, <3>a
        <5>3. hook \in Subs /\ cnt' = [cnt EXCEPT ![hook] = cnt[hook] + 1]
          BY <1>1, <4>3 DEF Change, TypeOK, ConnTypeOK
        <5> QED
          BY <5>2, <5>3
      <4> QED
        BY <4>1, <4>2, <4>3
    <3>1. cnt' \in [Subs -> Nat]
      BY <3>a, <3>c
    <3>2. expected' \in [Subs -> Nat]
      BY <1>1 DEF TypeOK, HookTypeOK, ConnTypeOK, Change, HookEvents, Changes
    <3>3. broker' \in [Subs -> BrokerPlaces]
      BY <1>1 DEF TypeOK, HookTypeOK, ConnTypeOK, Change, HookEvents, Changes
    <3>d. /\ queue' \in [Subs -> Seq(HookEvents)]
          /\ \A g \in Subs : Len(queue'[g]) <= HookCap
      <4>1. CASE UNCHANGED queue
        BY <4>1 DEF TypeOK, HookTypeOK
      <4>2. CASE ~UNCHANGED queue
        <5> DEFINE ev == [cnt |-> cnt[hook] + 1, chg |-> Len(changes) + 1]
        <5>1. hook \in Subs /\ Len(queue[hook]) < HookCap
              /\ queue' = [queue EXCEPT ![hook] = Append(queue[hook], ev)]
          BY <3>c, <4>2
        <5>2. ev \in HookEvents
          BY <3>a, <3>b, <5>1 DEF HookEvents
        <5> HIDE DEF ev
        <5>3. queue[hook] \in Seq(HookEvents)
          BY <3>a, <5>1
        <5>4. Append(queue[hook], ev) \in Seq(HookEvents)
              /\ Len(Append(queue[hook], ev)) <= HookCap
          BY <5>1, <5>2, <5>3, AppendFacts
        <5> QED
          BY <5>1, <5>4, QueueUpdate
      <4> QED
        BY <4>1, <4>2
    <3>4. queue' \in [Subs -> Seq(HookEvents)]
      BY <3>d
    <3>5. \A g \in Subs : Len(queue'[g]) <= HookCap
      BY <3>d
    <3> QED
      BY <3>1, <3>2, <3>3, <3>4, <3>5 DEF HookTypeOK
  <2> QED
    BY <1>1, TypeKept, <2>1, <2>2
    DEF TypeOK, Change, connVars, hookVars, configVars, stateVars, reqVars, clientVars
<1> QED
  BY <1>1

LEMMA TypeBroker ==
  ASSUME TypeOK, NEW g \in Subs, Broker(g)
  PROVE  TypeOK'
<1> USE ConstantsAssumption
<1>1. CASE BrokerCheck(g)
  <2>1. HookTypeOK'
    <3>1. cnt' \in [Subs -> Nat]
      BY <1>1 DEF TypeOK, HookTypeOK, BrokerCheck, BrokerPlaces
    <3>2. expected' \in [Subs -> Nat]
      BY <1>1 DEF TypeOK, HookTypeOK, BrokerCheck, BrokerPlaces
    <3>3. broker' \in [Subs -> BrokerPlaces]
      BY <1>1 DEF TypeOK, HookTypeOK, BrokerCheck, BrokerPlaces
    <3>a. UNCHANGED queue \/ queue' = [queue EXCEPT ![g] = <<>>]
      BY <1>1 DEF BrokerCheck
    <3>b. /\ queue' \in [Subs -> Seq(HookEvents)]
          /\ \A o \in Subs : Len(queue'[o]) <= HookCap
      <4>1. CASE UNCHANGED queue
        BY <4>1 DEF TypeOK, HookTypeOK
      <4>2. CASE queue' = [queue EXCEPT ![g] = <<>>]
        <5>1. <<>> \in Seq(HookEvents) /\ Len(<<>>) <= HookCap
          OBVIOUS
        <5> QED
          BY <4>2, <5>1, QueueUpdate
      <4> QED
        BY <3>a, <4>1, <4>2
    <3>4. queue' \in [Subs -> Seq(HookEvents)]
      BY <3>b
    <3>5. \A o \in Subs : Len(queue'[o]) <= HookCap
      BY <3>b
    <3> QED
      BY <3>1, <3>2, <3>3, <3>4, <3>5 DEF HookTypeOK
  <2> QED
    BY <1>1, TypeKept, <2>1
    DEF TypeOK, BrokerCheck, connVars, hookVars, configVars, stateVars, reqVars, clientVars
<1>2. CASE BrokerDisconnected(g)
  <2>1. HookTypeOK'
    BY <1>2 DEF TypeOK, HookTypeOK, BrokerDisconnected, BrokerPlaces
  <2> QED
    BY <1>2, TypeKept, <2>1
    DEF TypeOK, BrokerDisconnected, connVars, hookVars, configVars, stateVars, reqVars, clientVars
<1>3. CASE BrokerOverflow(g)
  <2>1. HookTypeOK'
    BY <1>3 DEF TypeOK, HookTypeOK, BrokerOverflow, BrokerPlaces
  <2>2. StateTypeOK'
    BY <1>3 DEF TypeOK, StateTypeOK, ConfigTypeOK, ReqTypeOK, BrokerOverflow
  <2> QED
    BY <1>3, TypeKept, <2>1, <2>2
    DEF TypeOK, BrokerOverflow, connVars, hookVars, configVars, stateVars, reqVars, clientVars
<1>4. CASE BrokerTableGone(g)
  <2>1. HookTypeOK'
    BY <1>4, SMTT(40) DEF TypeOK, HookTypeOK, BrokerTableGone, BrokerPlaces
  <2>2. StateTypeOK'
    BY <1>4 DEF TypeOK, StateTypeOK, ConfigTypeOK, ReqTypeOK, BrokerTableGone
  <2> QED
    BY <1>4, TypeKept, <2>1, <2>2
    DEF TypeOK, BrokerTableGone, connVars, hookVars, configVars, stateVars, reqVars, clientVars
<1>5. CASE BrokerDispatch(g)
  <2>1. HookTypeOK'
    <3>1. queue[g] \in Seq(HookEvents) /\ queue[g] # <<>>
      BY <1>5 DEF TypeOK, HookTypeOK, BrokerDispatch
    <3>2. /\ Tail(queue[g]) \in Seq(HookEvents)
          /\ Len(Tail(queue[g])) <= HookCap
      BY <3>1, TailFacts, SMTT(40) DEF TypeOK, HookTypeOK
    <3>3. queue' = [queue EXCEPT ![g] = Tail(queue[g])]
      BY <1>5 DEF BrokerDispatch
    <3>4. /\ queue' \in [Subs -> Seq(HookEvents)]
          /\ \A o \in Subs : Len(queue'[o]) <= HookCap
      BY <3>2, <3>3, QueueUpdate
    <3>5. expected' = [expected EXCEPT ![g] = expected[g] + 1]
      BY <1>5 DEF BrokerDispatch
    <3>6. expected' \in [Subs -> Nat]
      BY <3>5, SMTT(40) DEF TypeOK, HookTypeOK
    <3>7. \E b \in {"unhook", "check"} : broker' = [broker EXCEPT ![g] = b]
      BY <1>5 DEF BrokerDispatch
    <3>8. broker' \in [Subs -> BrokerPlaces]
      BY <3>7 DEF TypeOK, HookTypeOK, BrokerPlaces
    <3>9. UNCHANGED cnt
      BY <1>5 DEF BrokerDispatch
    <3> QED
      BY <3>4, <3>6, <3>8, <3>9 DEF TypeOK, HookTypeOK
  <2>2. StateTypeOK'
    BY <1>5 DEF TypeOK, StateTypeOK, ConfigTypeOK, ReqTypeOK, BrokerDispatch
  <2>3. ReqTypeOK'
    <3>1. phase' \in [Subs -> Phases]
      BY <1>5 DEF TypeOK, ReqTypeOK, ConfigTypeOK, HookTypeOK, BrokerDispatch, Candidates, HookEvents, Numbered
    <3>2. home' \in [Subs -> Subs \cup {None}]
      BY <1>5 DEF TypeOK, ReqTypeOK, ConfigTypeOK, HookTypeOK, BrokerDispatch, Candidates, HookEvents, Numbered
    <3>3. metadata' \in [Subs -> SUBSET Tables]
      BY <1>5 DEF TypeOK, ReqTypeOK, ConfigTypeOK, HookTypeOK, BrokerDispatch, Candidates, HookEvents, Numbered
    <3>4. candSeq' \in [Subs -> Nat]
      <4>1. candSeq \in [Subs -> Nat]
        BY SMTT(40) DEF TypeOK, ReqTypeOK
      <4>2. \E N : candSeq' = [s \in Subs |-> IF s \in N THEN candSeq[s] + 1
                                                     ELSE candSeq[s]]
        BY <1>5 DEF BrokerDispatch
      <4> QED
        BY <4>1, <4>2
    <3>5. greetSeq' \in [Subs -> Nat]
      BY <1>5 DEF TypeOK, ReqTypeOK, ConfigTypeOK, HookTypeOK, BrokerDispatch, Candidates, HookEvents, Numbered
    <3>6. validSeq' \in [Subs -> Nat]
      BY <1>5 DEF TypeOK, ReqTypeOK, ConfigTypeOK, HookTypeOK, BrokerDispatch, Candidates, HookEvents, Numbered
    <3> DEFINE c == Head(queue[g]).chg
               ev(s) == [seq |-> candSeq[s], chg |-> c]
    <3>a. c \in Changes
      <4>1. queue[g] \in Seq(HookEvents) /\ queue[g] # <<>>
        BY <1>5 DEF TypeOK, HookTypeOK, BrokerDispatch
      <4>2. Head(queue[g]) \in HookEvents
        BY <4>1, TailFacts, SMTT(40)
      <4> QED
        BY <4>2 DEF HookEvents
    <3>b. PICK to : chan' = [s \in Subs |->
                       IF s \in to /\ Len(chan[s]) < ChanCap
                       THEN Append(chan[s], ev(s)) ELSE chan[s]]
      BY <1>5 DEF BrokerDispatch
    <3>c. \A s \in Subs : ev(s) \in Candidates
      BY <3>a DEF TypeOK, ReqTypeOK, Candidates
    <3>d. \A s \in Subs : chan[s] \in Seq(Candidates) /\ Len(chan[s]) <= ChanCap
      BY DEF TypeOK, ReqTypeOK
    <3> HIDE DEF ev
    <3>e. \A s \in Subs : /\ Append(chan[s], ev(s)) \in Seq(Candidates)
                          /\ Len(Append(chan[s], ev(s))) = Len(chan[s]) + 1
      BY <3>c, <3>d, AppendFacts
    <3>f. \A s \in Subs : chan'[s] \in Seq(Candidates) /\ Len(chan'[s]) <= ChanCap
      <4> TAKE s \in Subs
      <4>1. Len(chan[s]) \in Nat
        BY <3>d
      <4> QED
        BY <3>b, <3>d, <3>e, <4>1
    <3>7. chan' \in [Subs -> Seq(Candidates)]
      BY <3>b, <3>f
    <3>8. \A s \in Subs : Len(chan'[s]) <= ChanCap
      BY <3>f
    <3> QED
      BY <3>1, <3>2, <3>3, <3>4, <3>5, <3>6, <3>7, <3>8 DEF ReqTypeOK
  <2>4. ClientTypeOK'
    <3>1. since' \in [Subs -> Nat]
      BY <1>5 DEF TypeOK, ClientTypeOK, ReqTypeOK, ConnTypeOK, BrokerDispatch
    <3>2. lost' \in [Subs -> Nat]
      <4>1. lost \in [Subs -> Nat]
        BY SMTT(40) DEF TypeOK, ClientTypeOK
      <4>2. \E N : lost' = [s \in Subs |-> IF s \in N /\ Len(chan[s]) >= ChanCap
                                            THEN lost[s] + 1 ELSE lost[s]]
        BY <1>5 DEF BrokerDispatch
      <4> QED
        BY <4>1, <4>2
    <3>3. told' \in [Subs -> Nat]
      BY <1>5, SMTT(40) DEF TypeOK, ClientTypeOK, ReqTypeOK, ConnTypeOK, BrokerDispatch
    <3>4. seen' \in [Subs -> SUBSET Changes]
      BY <1>5, SMTT(40) DEF TypeOK, ClientTypeOK, ReqTypeOK, ConnTypeOK, BrokerDispatch
    <3>5. doubled' \subseteq Subs \cup {None}
      BY <1>5 DEF TypeOK, ClientTypeOK, BrokerDispatch
    <3> QED
      BY <3>1, <3>2, <3>3, <3>4, <3>5 DEF ClientTypeOK
  <2> QED
    BY <1>5, TypeKept, <2>1, <2>2, <2>3, <2>4
    DEF TypeOK, BrokerDispatch, connVars, hookVars, configVars, stateVars, reqVars, clientVars
<1>6. CASE BrokerUnhook(g)
  <2>1. ConnTypeOK'
    BY <1>6 DEF TypeOK, ConnTypeOK, BrokerUnhook
  <2>2. HookTypeOK'
    BY <1>6 DEF TypeOK, HookTypeOK, BrokerUnhook, BrokerPlaces
  <2> QED
    BY <1>6, TypeKept, <2>1, <2>2
    DEF TypeOK, BrokerUnhook, connVars, hookVars, configVars, stateVars, reqVars, clientVars
<1> QED
  BY <1>1, <1>2, <1>3, <1>4, <1>5, <1>6 DEF Broker

LEMMA TypeManager ==
  ASSUME TypeOK, ReloadKeeps \/ ReloadForgets \/ \E p \in Subs : DropState(p)
  PROVE  TypeOK'
<1> USE ConstantsAssumption
<1>1. CASE ReloadKeeps
  <2>1. ConfigTypeOK'
    BY <1>1 DEF TypeOK, ConfigTypeOK, ReqTypeOK, ReloadKeeps
  <2>2. StateTypeOK'
    <3>1. known' \in [Subs -> SUBSET Tables]
      <4>1. PICK m \in SUBSET Tables :
              UNCHANGED known \/ known' = [known EXCEPT ![current] = m]
        BY <1>1 DEF ReloadKeeps
      <4> QED
        BY <4>1 DEF TypeOK, StateTypeOK
    <3>2. entries' \in [Subs -> SUBSET Tables]
      BY <1>1 DEF TypeOK, StateTypeOK, ConfigTypeOK, ReqTypeOK, ReloadKeeps
    <3>3. rowEntries' \in [Subs -> SUBSET (Tables \X Rows)]
      BY <1>1 DEF TypeOK, StateTypeOK, ConfigTypeOK, ReqTypeOK, ReloadKeeps
    <3>4. listed' \in [Subs -> SUBSET Subs]
      BY <1>1 DEF TypeOK, StateTypeOK, ConfigTypeOK, ReqTypeOK, ReloadKeeps
    <3>5. dropped' \subseteq Subs
      BY <1>1 DEF TypeOK, StateTypeOK, ConfigTypeOK, ReqTypeOK, ReloadKeeps
    <3> QED
      BY <3>1, <3>2, <3>3, <3>4, <3>5 DEF StateTypeOK
  <2> QED
    BY <1>1, TypeKept, <2>1, <2>2
    DEF TypeOK, ReloadKeeps, connVars, hookVars, configVars, stateVars, reqVars, clientVars
<1>2. CASE ReloadForgets
  <2>1. ConnTypeOK'
    BY <1>2 DEF TypeOK, ConnTypeOK, ReloadForgets
  <2>2. ConfigTypeOK'
    BY <1>2 DEF TypeOK, ConfigTypeOK, ReqTypeOK, ReloadForgets
  <2>3. StateTypeOK'
    BY <1>2 DEF TypeOK, StateTypeOK, ConfigTypeOK, ReqTypeOK, ReloadForgets
  <2> QED
    BY <1>2, TypeKept, <2>1, <2>2, <2>3
    DEF TypeOK, ReloadForgets, connVars, hookVars, configVars, stateVars, reqVars, clientVars
<1>3. CASE \E p \in Subs : DropState(p)
  <2>1. ConnTypeOK'
    BY <1>3 DEF TypeOK, ConnTypeOK, DropState
  <2>2. StateTypeOK'
    BY <1>3 DEF TypeOK, StateTypeOK, ConfigTypeOK, ReqTypeOK, DropState
  <2> QED
    BY <1>3, TypeKept, <2>1, <2>2
    DEF TypeOK, DropState, connVars, hookVars, configVars, stateVars, reqVars, clientVars
<1> QED
  BY <1>1, <1>2, <1>3

LEMMA TypeNext == TypeOK /\ [Next]_vars => TypeOK'
<1> SUFFICES ASSUME TypeOK, [Next]_vars PROVE TypeOK'
  OBVIOUS
<1>1. CASE UNCHANGED vars
  BY <1>1, TypeKept DEF TypeOK, vars
<1>2. CASE Next
  BY <1>2, TypeRequest, TypeStream, TypeWriter, TypeBroker, TypeManager,
     ConstantsAssumption
  DEF Next, Writer
<1> QED
  BY <1>1, <1>2

\* Every variable keeps its type, and no channel ever holds more than its
\* capacity: neither the hook's (install_hook) nor a client's.
THEOREM TypeCorrect == Spec => []TypeOK
<1>1. Init => TypeOK
  BY TypeInit
<1>2. TypeOK /\ [Next]_vars => TypeOK'
  BY TypeNext
<1> QED
  BY <1>1, <1>2, PTL DEF Spec

-----------------------------------------------------------------------------
(***************************************************************************)
(* The writer gets stuck only after an overflow. The property is not       *)
(* inductive: that a broker thread ended for a reason must be read off the *)
(* call numbers in its hook's channel.                                     *)
(***************************************************************************)

\* The call numbers in the channel of a hook whose broker has not ended: the
\* i-th is the i-th one expected, unless the channel was full before.
InFlight(g) ==
  broker[g] # "done" =>
    /\ expected[g] >= 1
    /\ cnt[g] >= expected[g] + Len(queue[g]) - 1
    /\ cnt[g] # expected[g] + Len(queue[g]) - 1
         => expected[g] + Len(queue[g]) > HookCap
    /\ \A i \in 1 .. Len(queue[g]) :
         /\ queue[g][i].cnt <= cnt[g]
         /\ queue[g][i].cnt >= expected[g] + i - 1
         /\ queue[g][i].cnt # expected[g] + i - 1 => expected[g] + i - 1 > HookCap

\* A request installs a hook under its name only once.
Fresh(s) ==
  phase[s] \in {"idle", "found", "attached", "hooking"} => broker[s] = "off"

\* A broker that ended while its hook is installed ended on a missing number.
EndedOnOverflow(g) ==
  hook = g /\ broker[g] = "done" =>
    /\ expected[g] > HookCap
    /\ cnt[g] > expected[g]

HookInv ==
  /\ TypeOK
  /\ \A g \in Subs : InFlight(g) /\ Fresh(g) /\ EndedOnOverflow(g)
  /\ StuckOnlyAfterOverflow

LEMMA HookInvInit == Init => HookInv
<1> SUFFICES ASSUME Init PROVE HookInv
  OBVIOUS
<1>1. TypeOK
  BY TypeInit
<1>2. ASSUME NEW g \in Subs PROVE InFlight(g) /\ Fresh(g) /\ EndedOnOverflow(g)
  BY <1>2, ConstantsAssumption DEF Init, InFlight, Fresh, EndedOnOverflow
<1>3. StuckOnlyAfterOverflow
  BY DEF Init, StuckOnlyAfterOverflow
<1> QED
  BY <1>1, <1>2, <1>3 DEF HookInv

\* Steps that leave the connection's hook and the hooks' variables alone.
LEMMA HookInvFrame ==
  ASSUME HookInv, TypeOK', UNCHANGED <<hook, stuck, cnt, queue, broker, expected>>,
         \A s \in Subs :
           phase'[s] \in {"idle", "found", "attached", "hooking"} =>
             phase[s] \in {"idle", "found", "attached", "hooking"}
  PROVE  HookInv'
  BY DEF HookInv, InFlight, Fresh, EndedOnOverflow, StuckOnlyAfterOverflow

\* Steps that remove the hook, or put a fresh one in its place.
LEMMA HookInvHook ==
  ASSUME HookInv, TypeOK', ~stuck, UNCHANGED <<stuck, cnt, queue, expected>>,
         \/ hook' = None
         \/ hook' \in Subs /\ broker'[hook'] = "check",
         \A g \in Subs : broker'[g] = "done" <=> broker[g] = "done",
         \A g \in Subs : broker[g] = "done" => hook' # g,
         \A s \in Subs : Fresh(s)'
  PROVE  HookInv'
<1>1. ASSUME NEW g \in Subs PROVE InFlight(g)'
  BY <1>1 DEF HookInv, InFlight
<1>2. ASSUME NEW g \in Subs PROVE EndedOnOverflow(g)'
  BY <1>2, ConstantsAssumption DEF EndedOnOverflow
<1>3. StuckOnlyAfterOverflow'
  BY DEF StuckOnlyAfterOverflow
<1> QED
  BY <1>1, <1>2, <1>3 DEF HookInv

LEMMA HookInvRequest ==
  ASSUME HookInv, TypeOK', NEW s \in Subs, Request(s) \/ Cancel(s)
  PROVE  HookInv'
<1>1. CASE Lookup(s) \/ Attach(s) \/ RecordNotFound(s) \/ Push(s)
           \/ TakeGreetSeq(s) \/ SendGreeting(s) \/ Cancel(s)
  <2>1. UNCHANGED <<hook, stuck, cnt, queue, broker, expected>>
    BY <1>1 DEF Lookup, Attach, RecordNotFound, Push, TakeGreetSeq, SendGreeting,
                Cancel, connVars, hookVars
  <2>2. \A o \in Subs :
           phase'[o] \in {"idle", "found", "attached", "hooking"} =>
             phase[o] \in {"idle", "found", "attached", "hooking"}
    BY <1>1 DEF Lookup, Attach, RecordNotFound, Push, TakeGreetSeq, SendGreeting,
                Cancel, Subscribed, HookInv, TypeOK, ReqTypeOK
  <2> QED
    BY <2>1, <2>2, HookInvFrame
<1>2. CASE AddHook(s)
  <2>1. broker[s] = "off"
    BY <1>2 DEF AddHook, HookInv, Fresh
  <2>2. broker' = [broker EXCEPT ![s] = "check"] /\ hook' = s
    BY <1>2 DEF AddHook
  <2>3. broker \in [Subs -> BrokerPlaces] /\ phase \in [Subs -> Phases]
    BY DEF HookInv, TypeOK, HookTypeOK, ReqTypeOK
  <2>4. \A o \in Subs : Fresh(o)'
    <3>1. phase' = [phase EXCEPT ![s] = Subscribed(s)]
      BY <1>2 DEF AddHook
    <3>2. Subscribed(s) \in {"greeting", "streaming"}
      BY DEF Subscribed
    <3> QED
      BY <2>2, <2>3, <3>1, <3>2 DEF HookInv, Fresh
  <2>5. ~stuck /\ UNCHANGED <<stuck, cnt, queue, expected>>
    BY <1>2 DEF AddHook
  <2>6. \A g \in Subs : broker[g] = "done" => broker'[g] = "done" /\ hook' # g
    BY <2>1, <2>2, <2>3
  <2>7. \A g \in Subs : broker'[g] = "done" <=> broker[g] = "done"
    BY <2>1, <2>2, <2>3
  <2>8. hook' \in Subs /\ broker'[hook'] = "check"
    BY <2>2, <2>3
  <2> QED
    BY <2>4, <2>5, <2>6, <2>7, <2>8, HookInvHook
<1> QED
  BY <1>1, <1>2 DEF Request

LEMMA HookInvStream ==
  ASSUME HookInv, TypeOK', NEW s \in Subs, Stream(s) \/ Leave(s) \/ LeaveUnhook(s)
  PROVE  HookInv'
<1>1. CASE Stream(s) \/ Leave(s)
  <2>1. UNCHANGED <<hook, stuck, cnt, queue, broker, expected>>
    BY <1>1 DEF Stream, ReceiveOutOfSeq, ReceiveInSeq, Leave, connVars, hookVars
  <2>2. \A o \in Subs :
           phase'[o] \in {"idle", "found", "attached", "hooking"} =>
             phase[o] \in {"idle", "found", "attached", "hooking"}
    BY <1>1 DEF Stream, ReceiveOutOfSeq, ReceiveInSeq, Leave, HookInv, TypeOK, ReqTypeOK
  <2> QED
    BY <2>1, <2>2, HookInvFrame, SMTT(40)
<1>2. CASE LeaveUnhook(s)
  <2>1. ~stuck /\ hook' = None /\ UNCHANGED <<stuck, cnt, queue, expected, broker>>
    BY <1>2 DEF LeaveUnhook, hookVars
  <2>2. \A o \in Subs : Fresh(o)'
    BY <1>2 DEF LeaveUnhook, hookVars, HookInv, Fresh, TypeOK, ReqTypeOK
  <2>3. \A g \in Subs : hook' # g
    BY <2>1, ConstantsAssumption
  <2> QED
    BY <2>1, <2>2, <2>3, HookInvHook
<1> QED
  BY <1>1, <1>2

LEMMA HookInvManager ==
  ASSUME HookInv, TypeOK', ReloadKeeps \/ ReloadForgets \/ \E p \in Subs : DropState(p)
  PROVE  HookInv'
<1>1. UNCHANGED <<stuck, cnt, queue, expected, broker, phase>>
  BY DEF ReloadKeeps, ReloadForgets, DropState, connVars, hookVars, reqVars
<1>2. UNCHANGED hook \/ (~stuck /\ hook' = None)
  BY DEF ReloadKeeps, ReloadForgets, DropState, connVars
<1>3. CASE UNCHANGED hook
  BY <1>1, <1>3, HookInvFrame
<1>4. CASE ~stuck /\ hook' = None
  <2>1. \A o \in Subs : Fresh(o)'
    BY <1>1 DEF HookInv, Fresh
  <2>2. \A g \in Subs : hook' # g
    BY <1>4, ConstantsAssumption
  <2> QED
    BY <1>1, <1>4, <2>1, <2>2, HookInvHook
<1> QED
  BY <1>2, <1>3, <1>4
LEMMA HookInvWriter ==
  ASSUME HookInv, TypeOK', NEW t \in Tables, NEW r \in Rows, Change(t, r)
  PROVE  HookInv'
<1>1. /\ ~stuck
      /\ UNCHANGED <<hook, broker, expected, phase>>
  BY DEF Change, configVars, stateVars, reqVars, clientVars
<1>2. /\ broker \in [Subs -> BrokerPlaces] /\ cnt \in [Subs -> Nat]
      /\ expected \in [Subs -> Nat] /\ queue \in [Subs -> Seq(HookEvents)]
      /\ hook \in Subs \cup {None} /\ HookCap \in Nat
  BY ConstantsAssumption DEF HookInv, TypeOK, ConnTypeOK, HookTypeOK
<1>3. CASE hook = None
  <2>1. UNCHANGED <<hook, stuck, cnt, queue, broker, expected>>
    BY <1>1, <1>3 DEF Change
  <2> QED
    BY <1>1, <2>1, HookInvFrame
<1>4. CASE hook # None
  <2> PICK g \in Subs : hook = g
    BY <1>2, <1>4
  <2>1. /\ cnt' = [cnt EXCEPT ![g] = cnt[g] + 1]
        /\ stuck' = (broker[g] = "done")
    BY <1>2, <1>4 DEF Change
  <2>2. \A o \in Subs : o # g => cnt'[o] = cnt[o] /\ queue'[o] = queue[o]
    BY <1>2, <1>4, <2>1 DEF Change
  <2>3. \A o \in Subs : o # g => InFlight(o)'
    BY <1>1, <2>2 DEF HookInv, InFlight
  <2>4. cnt'[g] = cnt[g] + 1
    BY <1>2, <2>1
  <2>5. InFlight(g)'
    <3>1. CASE broker[g] = "done"
      BY <1>1, <3>1 DEF InFlight
    <3>2. CASE broker[g] # "done" /\ Len(queue[g]) < HookCap
      <4> DEFINE ev == [cnt |-> cnt[g] + 1, chg |-> Len(changes) + 1]
                 q == queue[g]
      <4>1. queue'[g] = Append(q, ev)
        BY <1>2, <1>4, <2>1, <3>2 DEF Change
      <4>2. /\ q \in Seq(HookEvents) /\ Len(q) \in Nat
            /\ expected[g] \in Nat /\ cnt[g] \in Nat
        BY <1>2, <2>1
      <4>3. ev.cnt = cnt[g] + 1
        OBVIOUS
      <4> HIDE DEF ev, q
      <4>4. /\ Len(Append(q, ev)) = Len(q) + 1
            /\ \A i \in 1 .. Len(q) : Append(q, ev)[i] = q[i]
            /\ Append(q, ev)[Len(q) + 1] = ev
        BY <4>2
      <4>5. InFlight(g)
        BY <2>1 DEF HookInv
      <4>6. /\ expected[g] >= 1
            /\ cnt[g] >= expected[g] + Len(q) - 1
            /\ cnt[g] # expected[g] + Len(q) - 1 => expected[g] + Len(q) > HookCap
        BY <3>2, <4>5 DEF InFlight, q
      <4>7. \A i \in 1 .. Len(q) :
              /\ q[i].cnt <= cnt[g]
              /\ q[i].cnt >= expected[g] + i - 1
              /\ q[i].cnt # expected[g] + i - 1 => expected[g] + i - 1 > HookCap
        BY <3>2, <4>5 DEF InFlight, q
      <4>8. \A i \in 1 .. Len(q) : q[i].cnt \in Nat
        <5>1. \A i \in 1 .. Len(q) : q[i] \in HookEvents
          BY <4>2
        <5> QED
          BY <5>1 DEF HookEvents
      <4>9. ASSUME NEW i \in 1 .. Len(q) + 1
            PROVE  LET n == Append(q, ev)[i].cnt IN
                   /\ n <= cnt[g] + 1
                   /\ n >= expected[g] + i - 1
                   /\ n # expected[g] + i - 1 => expected[g] + i - 1 > HookCap
        <5>1. CASE i \in 1 .. Len(q)
          BY <4>2, <4>4, <4>7, <4>8, <5>1
        <5>2. CASE i = Len(q) + 1
          BY <1>2, <4>2, <4>3, <4>4, <4>6, <5>2
        <5> QED
          BY <4>2, <5>1, <5>2
      <4>10. /\ cnt[g] + 1 >= expected[g] + Len(Append(q, ev)) - 1
             /\ cnt[g] + 1 # expected[g] + Len(Append(q, ev)) - 1
                  => expected[g] + Len(Append(q, ev)) > HookCap
        BY <1>2, <4>2, <4>4, <4>6, SMTT(40)
      <4> QED
        BY <1>1, <2>4, <4>1, <4>4, <4>6, <4>9, <4>10 DEF InFlight
    <3>3. CASE broker[g] # "done" /\ Len(queue[g]) >= HookCap
      <4>1. queue'[g] = queue[g]
        BY <1>2, <1>4, <2>1, <3>3 DEF Change
      <4>2. InFlight(g)
        BY <2>1 DEF HookInv
      <4>3. \A i \in 1 .. Len(queue[g]) : queue[g][i].cnt \in Nat
        <5>1. \A i \in 1 .. Len(queue[g]) : queue[g][i] \in HookEvents
          BY <1>2, <2>1
        <5> QED
          BY <5>1 DEF HookEvents
      <4>4. Len(queue[g]) \in Nat /\ cnt[g] \in Nat /\ expected[g] \in Nat
        BY <1>2, <2>1
      <4>5. /\ expected[g] >= 1
            /\ cnt[g] >= expected[g] + Len(queue[g]) - 1
            /\ \A i \in 1 .. Len(queue[g]) :
                 /\ queue[g][i].cnt <= cnt[g]
                 /\ queue[g][i].cnt >= expected[g] + i - 1
                 /\ queue[g][i].cnt # expected[g] + i - 1
                      => expected[g] + i - 1 > HookCap
        BY <3>3, <4>2 DEF InFlight
      <4>6. /\ cnt[g] + 1 >= expected[g] + Len(queue[g]) - 1
            /\ expected[g] + Len(queue[g]) > HookCap
        BY <1>2, <3>3, <4>4, <4>5
      <4>7. \A i \in 1 .. Len(queue[g]) : queue[g][i].cnt <= cnt[g] + 1
        BY <4>3, <4>4, <4>5, SMTT(40)
      <4> QED
        BY <1>1, <2>4, <4>1, <4>5, <4>6, <4>7 DEF InFlight
    <3> QED
      BY <1>2, <2>1, <3>1, <3>2, <3>3
  <2>6. ASSUME NEW o \in Subs PROVE Fresh(o)'
    BY <1>1 DEF HookInv, Fresh
  <2>7. ASSUME NEW o \in Subs PROVE EndedOnOverflow(o)'
    <3>1. EndedOnOverflow(o)
      BY DEF HookInv
    <3>2. cnt[o] \in Nat /\ expected[o] \in Nat
      BY <1>2
    <3> QED
      BY <1>1, <2>2, <2>4, <3>1, <3>2 DEF EndedOnOverflow
  <2>8. StuckOnlyAfterOverflow'
    <3>1. EndedOnOverflow(g)
      BY <2>1 DEF HookInv
    <3>2. cnt[g] \in Nat /\ expected[g] \in Nat
      BY <1>2, <2>1
    <3>3. CASE broker[g] = "done"
      BY <1>1, <1>4, <2>4, <3>1, <3>2, <3>3 DEF EndedOnOverflow, StuckOnlyAfterOverflow
    <3>4. CASE broker[g] # "done"
      BY <2>1, <3>4 DEF StuckOnlyAfterOverflow
    <3> QED
      BY <3>3, <3>4
  <2> QED
    BY <2>3, <2>5, <2>6, <2>7, <2>8 DEF HookInv
<1> QED
  BY <1>3, <1>4

\* What the first event in the channel tells the broker.
LEMMA HeadNumber ==
  ASSUME HookInv, NEW g \in Subs, broker[g] = "recv", queue[g] # <<>>
  PROVE  /\ Head(queue[g]).cnt \in Nat
         /\ Head(queue[g]).cnt >= expected[g]
         /\ Head(queue[g]).cnt <= cnt[g]
         /\ Head(queue[g]).cnt # expected[g] => expected[g] > HookCap
<1>1. queue[g] \in Seq(HookEvents) /\ expected[g] \in Nat
  BY DEF HookInv, TypeOK, HookTypeOK
<1>2. Head(queue[g]) = queue[g][1] /\ 1 \in 1 .. Len(queue[g])
  BY <1>1
<1>3. Head(queue[g]) \in HookEvents
  BY <1>1, TailFacts
<1>4. InFlight(g)
  BY DEF HookInv
<1>5. expected[g] + 1 - 1 = expected[g]
  BY <1>1
<1> QED
  BY <1>2, <1>3, <1>4, <1>5 DEF InFlight, HookEvents

\* The broker takes an event with the number it expects.
LEMMA HookInvTake ==
  ASSUME HookInv, TypeOK', NEW g \in Subs, broker[g] = "recv", queue[g] # <<>>,
         InSequence(g),
         expected' = [expected EXCEPT ![g] = @ + 1],
         queue' = [queue EXCEPT ![g] = Tail(@)],
         NEW b \in {"check", "unhook"}, broker' = [broker EXCEPT ![g] = b],
         UNCHANGED <<hook, stuck, cnt, phase>>
  PROVE  HookInv'
<1>1. /\ broker \in [Subs -> BrokerPlaces] /\ cnt \in [Subs -> Nat]
      /\ expected \in [Subs -> Nat] /\ queue \in [Subs -> Seq(HookEvents)]
  BY DEF HookInv, TypeOK, HookTypeOK
<1>2. ASSUME NEW o \in Subs, o # g PROVE InFlight(o)' /\ EndedOnOverflow(o)'
  BY <1>1, <1>2 DEF HookInv, InFlight, EndedOnOverflow
<1>3. InFlight(g)'
  <2> DEFINE q == queue[g]
             e == expected[g]
  <2>1. q \in Seq(HookEvents) /\ q # <<>> /\ e \in Nat /\ cnt[g] \in Nat
    BY <1>1
  <2>2. queue'[g] = Tail(q) /\ expected'[g] = e + 1 /\ cnt'[g] = cnt[g]
    BY <1>1
  <2>3. InFlight(g)
    BY DEF HookInv
  <2>4. /\ e >= 1
        /\ cnt[g] >= e + Len(q) - 1
        /\ cnt[g] # e + Len(q) - 1 => e + Len(q) > HookCap
        /\ \A i \in 1 .. Len(q) :
             /\ q[i].cnt <= cnt[g]
             /\ q[i].cnt >= e + i - 1
             /\ q[i].cnt # e + i - 1 => e + i - 1 > HookCap
    BY <2>3 DEF InFlight
  <2> HIDE DEF q, e
  <2>5. /\ Len(Tail(q)) = Len(q) - 1 /\ Len(q) \in Nat /\ Len(q) >= 1
        /\ \A i \in 1 .. Len(Tail(q)) : Tail(q)[i] = q[i + 1]
    BY <2>1
  <2>6. \A i \in 1 .. Len(q) : q[i].cnt \in Nat
    <3>1. \A i \in 1 .. Len(q) : q[i] \in HookEvents
      BY <2>1
    <3> QED
      BY <3>1 DEF HookEvents
  <2>7. ASSUME NEW i \in 1 .. Len(Tail(q))
        PROVE  /\ Tail(q)[i].cnt <= cnt[g]
               /\ Tail(q)[i].cnt >= (e + 1) + i - 1
               /\ Tail(q)[i].cnt # (e + 1) + i - 1 => (e + 1) + i - 1 > HookCap
    <3>1. i + 1 \in 1 .. Len(q) /\ Tail(q)[i] = q[i + 1]
      BY <2>5
    <3>2. (e + 1) + i - 1 = e + (i + 1) - 1
      BY <2>1
    <3> QED
      BY <2>4, <3>1, <3>2
  <2>8. /\ e + 1 >= 1
        /\ cnt[g] >= (e + 1) + Len(Tail(q)) - 1
        /\ cnt[g] # (e + 1) + Len(Tail(q)) - 1 => (e + 1) + Len(Tail(q)) > HookCap
    <3>1. HookCap \in Nat
      BY ConstantsAssumption
    <3> QED
      BY <2>1, <2>4, <2>5, <3>1
  <2> QED
    BY <2>2, <2>7, <2>8 DEF InFlight
<1>4. EndedOnOverflow(g)'
  BY <1>1 DEF EndedOnOverflow
<1>5. ASSUME NEW o \in Subs PROVE Fresh(o)'
  BY <1>1 DEF HookInv, Fresh
<1>6. StuckOnlyAfterOverflow'
  BY <1>1 DEF HookInv, StuckOnlyAfterOverflow
<1> QED
  BY <1>2, <1>3, <1>4, <1>5, <1>6 DEF HookInv

LEMMA HookInvBroker ==
  ASSUME HookInv, TypeOK', NEW g \in Subs, Broker(g)
  PROVE  HookInv'
<1>1. /\ broker \in [Subs -> BrokerPlaces] /\ cnt \in [Subs -> Nat]
      /\ expected \in [Subs -> Nat] /\ queue \in [Subs -> Seq(HookEvents)]
  BY SMTT(40) DEF HookInv, TypeOK, HookTypeOK
<1>2. UNCHANGED phase
  BY DEF Broker, BrokerCheck, BrokerDisconnected, BrokerOverflow, BrokerTableGone,
         BrokerDispatch, BrokerUnhook, reqVars
<1>3. CASE BrokerCheck(g) \/ BrokerDisconnected(g)
  <2>1. /\ UNCHANGED <<hook, stuck, cnt, expected>>
        /\ broker[g] \in {"check", "recv"}
        /\ \/ hook = g /\ broker' = [broker EXCEPT ![g] = "recv"] /\ UNCHANGED queue
           \/ /\ hook # g /\ broker' = [broker EXCEPT ![g] = "done"]
              /\ \A o \in Subs : o # g => queue'[o] = queue[o]
    BY <1>1, <1>3 DEF BrokerCheck, BrokerDisconnected, connVars
  <2>2. ASSUME NEW o \in Subs
        PROVE  InFlight(o)' /\ Fresh(o)' /\ EndedOnOverflow(o)'
    BY <1>1, <1>2, <2>1 DEF HookInv, InFlight, Fresh, EndedOnOverflow
  <2>3. StuckOnlyAfterOverflow'
    <3>1. stuck => broker[hook] = "done" /\ hook \in Subs
      BY DEF HookInv, StuckOnlyAfterOverflow, TypeOK, ConnTypeOK
    <3>2. stuck => broker'[hook] = "done"
      BY <1>1, <2>1, <3>1
    <3> QED
      BY <2>1, <3>2 DEF HookInv, StuckOnlyAfterOverflow
  <2> QED
    BY <2>2, <2>3 DEF HookInv
<1>4. CASE BrokerOverflow(g)
  <2>1. /\ UNCHANGED <<hook, stuck, cnt, expected>>
        /\ broker[g] = "recv" /\ queue[g] # <<>> /\ ~InSequence(g)
        /\ broker' = [broker EXCEPT ![g] = "done"]
        /\ \A o \in Subs : o # g => queue'[o] = queue[o]
    BY <1>1, <1>4 DEF BrokerOverflow, connVars
  <2>2. expected[g] > HookCap /\ cnt[g] > expected[g]
    BY <1>1, <2>1, HeadNumber, ConstantsAssumption DEF InSequence
  <2>3. ASSUME NEW o \in Subs
        PROVE  InFlight(o)' /\ Fresh(o)' /\ EndedOnOverflow(o)'
    BY <1>1, <1>2, <2>1, <2>2 DEF HookInv, InFlight, Fresh, EndedOnOverflow
  <2>4. StuckOnlyAfterOverflow'
    BY <1>1, <2>1 DEF HookInv, StuckOnlyAfterOverflow
  <2> QED
    BY <2>3, <2>4 DEF HookInv
<1>5. CASE BrokerTableGone(g) \/ BrokerDispatch(g)
  <2>1. /\ UNCHANGED <<hook, stuck, cnt>>
        /\ broker[g] = "recv" /\ queue[g] # <<>> /\ InSequence(g)
        /\ expected' = [expected EXCEPT ![g] = @ + 1]
        /\ queue' = [queue EXCEPT ![g] = Tail(@)]
        /\ \E b \in {"check", "unhook"} : broker' = [broker EXCEPT ![g] = b]
    BY <1>5 DEF BrokerTableGone, BrokerDispatch, connVars
  <2> QED
    BY <1>2, <2>1, HookInvTake
<1>6. CASE BrokerUnhook(g)
  <2>1. /\ ~stuck /\ hook' = None /\ UNCHANGED <<stuck, cnt, queue, expected>>
        /\ broker[g] = "unhook" /\ broker' = [broker EXCEPT ![g] = "check"]
    BY <1>6 DEF BrokerUnhook
  <2>2. \A o \in Subs : Fresh(o)'
    BY <1>1, <1>2, <2>1 DEF HookInv, Fresh
  <2>3. /\ \A o \in Subs : hook' # o
        /\ \A o \in Subs : broker'[o] = "done" <=> broker[o] = "done"
    BY <1>1, <2>1, ConstantsAssumption
  <2> QED
    BY <2>1, <2>2, <2>3, HookInvHook
<1> QED
  BY <1>3, <1>4, <1>5, <1>6 DEF Broker

LEMMA HookInvNext == HookInv /\ [Next]_vars => HookInv'
<1> SUFFICES ASSUME HookInv, [Next]_vars PROVE HookInv'
  OBVIOUS
<1>1. TypeOK'
  BY TypeNext DEF HookInv
<1>2. CASE UNCHANGED vars
  BY <1>1, <1>2, HookInvFrame DEF vars, connVars, hookVars, reqVars
<1>3. CASE Next
  BY <1>1, <1>3, HookInvRequest, HookInvStream, HookInvWriter, HookInvBroker,
     HookInvManager, ConstantsAssumption
  DEF Next, Writer
<1> QED
  BY <1>2, <1>3

\* The writer thread waits for its own lock, inside the hook, only after the
\* hook's channel overflowed (install_hook and add_hook's broker thread), for
\* every capacity, number of requests and interleaving with reloads.
THEOREM StuckNeedsOverflow == Spec => []StuckOnlyAfterOverflow
<1>1. Init => HookInv
  BY HookInvInit
<1>2. HookInv /\ [Next]_vars => HookInv'
  BY HookInvNext
<1>3. HookInv => StuckOnlyAfterOverflow
  BY DEF HookInv
<1> QED
  BY <1>1, <1>2, <1>3, PTL DEF Spec

-----------------------------------------------------------------------------
(* Subscribers, and the states they are attached to.                       *)

Early(s) == phase[s] \in {"idle", "found", "attached"}

\* A request attached to a state that a request created for itself.
HomeOK ==
  /\ \A s \in Subs :
       IF phase[s] \in {"idle", "found"} THEN home[s] = None
       ELSE home[s] \in Subs /\ home[home[s]] = home[s]
  /\ current # None => home[current] = current
  /\ \A p \in Subs : entries[p] # {} => home[p] = p

\* A subscription in a vector has its keys in the maps.
ListedOK ==
  \A p \in Subs : \A s \in listed[p] :
    /\ home[s] = p
    /\ ~Early(s)
    /\ TableOf[s] \in entries[p]
    /\ RowOf[s] # AnyRow => <<TableOf[s], RowOf[s]>> \in rowEntries[p]

StateInv == HookInv /\ HomeOK /\ ListedOK /\ NoGhostSubscription

LEMMA StateInit == Init => StateInv
<1> SUFFICES ASSUME Init PROVE StateInv
  OBVIOUS
<1>1. HookInv
  BY HookInvInit
<1>2. HomeOK /\ ListedOK /\ NoGhostSubscription
  BY DEF Init, HomeOK, ListedOK, NoGhostSubscription
<1> QED
  BY <1>1, <1>2 DEF StateInv

Holds(s) == phase[s] \in {"attached", "hooking", "greeting", "sending", "unhooking"}

\* What most steps of a request leave of the states: its phase moves on.
LEMMA RequestMoves ==
  ASSUME TypeOK, NEW s \in Subs,
         \/ Lookup(s) \/ RecordNotFound(s) \/ AddHook(s) \/ TakeGreetSeq(s)
         \/ SendGreeting(s) \/ Cancel(s) \/ Stream(s) \/ LeaveUnhook(s)
  PROVE  /\ UNCHANGED <<stateVars, current, home>>
         /\ \E q \in Phases :
              /\ phase' = [phase EXCEPT ![s] = q]
              /\ phase[s] \in {"idle", "found"} <=> q \in {"idle", "found"}
              /\ q \in {"idle", "found", "attached"} => Early(s)
              /\ q \in {"closed", "unhooking"} => phase[s] \in {"attached", "unhooking"}
              /\ q \in {"attached", "hooking", "greeting", "sending", "unhooking"}
                   => Holds(s)
         /\ \A g \in Subs : BrokerRuns(g)' => BrokerRuns(g) \/ (g = s /\ Holds(s))
<1>0. phase \in [Subs -> Phases] /\ broker \in [Subs -> BrokerPlaces]
  BY DEF TypeOK, ReqTypeOK, HookTypeOK
<1>a. phase' = phase => phase' = [phase EXCEPT ![s] = phase[s]]
  BY <1>0
<1>1. CASE Lookup(s) \/ RecordNotFound(s) \/ TakeGreetSeq(s) \/ SendGreeting(s)
           \/ Cancel(s) \/ LeaveUnhook(s)
  <2>1. UNCHANGED <<stateVars, current, home, broker>>
    BY <1>1 DEF Lookup, RecordNotFound, TakeGreetSeq, SendGreeting, Cancel, LeaveUnhook,
                configVars, hookVars
  <2>2. \E q \in {"found", "closed", "sending", "streaming", "abandoned"} :
          /\ phase' = [phase EXCEPT ![s] = q]
          /\ \/ q = "found" /\ phase[s] = "idle"
             \/ q = "closed" /\ phase[s] \in {"attached", "unhooking"}
             \/ q = "sending" /\ phase[s] = "greeting"
             \/ q \in {"streaming", "abandoned"} /\ phase[s] = "sending"
    BY <1>1 DEF Lookup, RecordNotFound, TakeGreetSeq, SendGreeting, Cancel, LeaveUnhook
  <2> QED
    BY <2>1, <2>2 DEF BrokerRuns, Holds, Phases, Early
<1>2. CASE AddHook(s)
  <2>1. UNCHANGED <<stateVars, current, home>>
    BY <1>2 DEF AddHook, configVars
  <2>2. \E q \in {"greeting", "streaming"} : phase' = [phase EXCEPT ![s] = q]
    BY <1>2 DEF AddHook, Subscribed
  <2>3. phase[s] = "hooking" /\ \A g \in Subs : g # s => broker'[g] = broker[g]
    BY <1>0, <1>2 DEF AddHook
  <2> QED
    BY <2>1, <2>2, <2>3 DEF BrokerRuns, Holds, Phases, Early
<1>3. CASE Stream(s)
  <2>1. UNCHANGED <<stateVars, current, home, broker>>
    BY <1>3 DEF Stream, ReceiveInSeq, ReceiveOutOfSeq, configVars, hookVars
  <2>2. phase[s] = "streaming"
        /\ \E q \in {"streaming", "ending"} : phase' = [phase EXCEPT ![s] = q]
    BY <1>3, <1>a DEF Stream, ReceiveInSeq, ReceiveOutOfSeq
  <2> QED
    BY <2>1, <2>2 DEF BrokerRuns, Holds, Phases, Early
<1> QED
  BY <1>1, <1>2, <1>3

LEMMA StateRequest ==
  ASSUME StateInv, HookInv', NEW s \in Subs,
         \/ Lookup(s) \/ RecordNotFound(s) \/ AddHook(s) \/ TakeGreetSeq(s)
         \/ SendGreeting(s) \/ Cancel(s) \/ Stream(s) \/ LeaveUnhook(s)
  PROVE  StateInv'
<1>0. /\ phase \in [Subs -> Phases] /\ listed \in [Subs -> SUBSET Subs]
      /\ home \in [Subs -> Subs \cup {None}] /\ current \in Subs \cup {None}
  BY DEF StateInv, HookInv, TypeOK, ReqTypeOK, StateTypeOK, ConfigTypeOK
<1>1. TypeOK /\ HomeOK /\ ListedOK /\ NoGhostSubscription
  BY DEF StateInv, HookInv
<1>2. /\ UNCHANGED <<known, entries, rowEntries, listed, dropped, current, home>>
      /\ \A g \in Subs : BrokerRuns(g)' => BrokerRuns(g) \/ (g = s /\ Holds(s))
  BY <1>1, RequestMoves DEF stateVars
<1>3. PICK q \in Phases :
              /\ phase' = [phase EXCEPT ![s] = q]
              /\ phase[s] \in {"idle", "found"} <=> q \in {"idle", "found"}
              /\ q \in {"idle", "found", "attached"} => Early(s)
              /\ q \in {"closed", "unhooking"} => phase[s] \in {"attached", "unhooking"}
              /\ q \in {"attached", "hooking", "greeting", "sending", "unhooking"}
                   => Holds(s)
  BY <1>1, RequestMoves
<1>4. HomeOK'
  BY <1>0, <1>1, <1>2, <1>3 DEF HomeOK
<1>5. ListedOK'
  BY <1>0, <1>1, <1>2, <1>3 DEF ListedOK, Early
<1>6. \A p \in Subs : Referenced(p)' => Referenced(p)
  BY <1>0, <1>2, <1>3 DEF Referenced, Holds
<1>7. NoGhostSubscription'
  <2> SUFFICES ASSUME NEW o \in Subs, phase'[o] \in {"closed", "unhooking"},
                      home[o] # None, o \in listed[home[o]]
               PROVE  ~Referenced(home[o])'
    BY <1>2 DEF NoGhostSubscription
  <2>1. home[o] \in Subs
    BY <1>0
  <2>2. ~Early(o)
    BY <1>1, <2>1 DEF ListedOK
  <2>3. phase[o] \in {"closed", "unhooking"}
    BY <1>0, <1>3, <2>2 DEF Early
  <2>4. ~Referenced(home[o])
    BY <1>1, <2>3 DEF NoGhostSubscription
  <2> QED
    BY <1>2, <1>6, <2>1, <2>4
<1> QED
  BY <1>4, <1>5, <1>7 DEF StateInv

LEMMA StateAttach ==
  ASSUME StateInv, HookInv', NEW s \in Subs, Attach(s)
  PROVE  StateInv'
<1>0. /\ phase \in [Subs -> Phases] /\ listed \in [Subs -> SUBSET Subs]
      /\ home \in [Subs -> Subs \cup {None}] /\ current \in Subs \cup {None}
      /\ None \notin Subs
  BY ConstantsAssumption
  DEF StateInv, HookInv, TypeOK, ReqTypeOK, StateTypeOK, ConfigTypeOK
<1>1. HomeOK /\ ListedOK /\ NoGhostSubscription
  BY DEF StateInv
<1>2. /\ UNCHANGED <<entries, rowEntries, listed, broker>>
      /\ phase[s] = "found" /\ phase' = [phase EXCEPT ![s] = "attached"]
      /\ \/ /\ current # None /\ home' = [home EXCEPT ![s] = current]
            /\ current' = current
         \/ current = None /\ home' = [home EXCEPT ![s] = s] /\ current' = s
  BY DEF Attach, hookVars
<1>3. home[s] = None
  BY <1>1, <1>2 DEF HomeOK
<1>4. home' = [home EXCEPT ![s] = current'] /\ current' \in Subs
      /\ (current' = s \/ home[current'] = current')
  BY <1>0, <1>1, <1>2 DEF HomeOK
<1>5. HomeOK'
  <2>1. ASSUME NEW o \in Subs
        PROVE  (IF phase[o] \in {"idle", "found"} THEN home[o] = None
                ELSE home[o] \in Subs /\ home[home[o]] = home[o])'
    <3>1. CASE o = s
      BY <1>0, <1>2, <1>4, <3>1
    <3>2. CASE o # s
      <4>1. home'[o] = home[o] /\ phase'[o] = phase[o]
        BY <1>0, <1>2, <1>4, <3>2
      <4>2. CASE phase[o] \in {"idle", "found"}
        BY <1>1, <4>1, <4>2 DEF HomeOK
      <4>3. CASE phase[o] \notin {"idle", "found"}
        <5>1. home[o] \in Subs /\ home[home[o]] = home[o]
          BY <1>1, <4>3 DEF HomeOK
        <5>2. home[o] # s
          BY <1>0, <1>3, <5>1
        <5> QED
          BY <1>0, <1>4, <4>1, <4>3, <5>1, <5>2
      <4> QED
        BY <4>2, <4>3
    <3> QED
      BY <3>1, <3>2
  <2>2. home'[current'] = current'
    BY <1>0, <1>4
  <2>3. ASSUME NEW p \in Subs, entries[p] # {} PROVE home'[p] = p
    <3>1. home[p] = p
      BY <1>1, <2>3 DEF HomeOK
    <3> QED
      BY <1>0, <1>3, <1>4, <3>1
  <2> QED
    BY <1>2, <2>1, <2>2, <2>3 DEF HomeOK
<1>6. ListedOK'
  <2>1. ASSUME NEW p \in Subs, NEW o \in listed[p]
        PROVE  o \in Subs /\ o # s /\ home[o] = p
    BY <1>0, <1>1, <1>2, <2>1 DEF ListedOK, Early
  <2>2. ASSUME NEW p \in Subs, NEW o \in listed[p]
        PROVE  home'[o] = p /\ phase'[o] = phase[o]
    BY <1>0, <1>2, <1>4, <2>1, <2>2
  <2> QED
    BY <1>1, <1>2, <2>2 DEF ListedOK, Early
<1>7. ASSUME NEW o \in Subs, phase'[o] \in {"closed", "unhooking"},
             home'[o] # None, o \in listed[home'[o]]
      PROVE  ~Referenced(home[o])'
  <2>1. o # s /\ home'[o] = home[o] /\ phase'[o] = phase[o]
    BY <1>0, <1>2, <1>4, <1>7
  <2> PICK p \in Subs : p = home[o]
    BY <1>0, <1>7, <2>1
  <2>2. home[p] = p /\ ~Referenced(p)
    <3>1. ~Referenced(home[o])
      BY <1>1, <1>7, <2>1 DEF NoGhostSubscription
    <3> QED
      BY <1>0, <1>1, <1>7, <2>1, <3>1 DEF HomeOK
  <2>3. current' # p
    BY <1>0, <1>2, <1>3, <2>2 DEF Referenced
  <2>4. ASSUME NEW g \in Subs, home'[g] = p
        PROVE  home[g] = p /\ phase'[g] = phase[g]
    BY <1>0, <1>2, <1>4, <2>3, <2>4
  <2>5. ASSUME NEW g \in Subs PROVE BrokerRuns(g)' <=> BrokerRuns(g)
    BY <1>2 DEF BrokerRuns
  <2>6. ~Referenced(p)'
    <3>1. BrokerRuns(o)' <=> BrokerRuns(o)
      BY <2>5
    <3> QED
      BY <1>0, <2>2, <2>3, <2>4, <2>5 DEF Referenced, BrokerRuns
  <2> QED
    BY <2>1, <2>6 DEF Referenced, BrokerRuns
<1> QED
  BY <1>2, <1>5, <1>6, <1>7 DEF StateInv, NoGhostSubscription

LEMMA StatePush ==
  ASSUME StateInv, HookInv', NEW s \in Subs, Push(s)
  PROVE  StateInv'
<1>0. /\ phase \in [Subs -> Phases] /\ listed \in [Subs -> SUBSET Subs]
      /\ home \in [Subs -> Subs \cup {None}] /\ current \in Subs \cup {None}
      /\ entries \in [Subs -> SUBSET Tables]
      /\ rowEntries \in [Subs -> SUBSET (Tables \X Rows)]
  BY DEF StateInv, HookInv, TypeOK, ReqTypeOK, StateTypeOK, ConfigTypeOK
<1>1. HomeOK /\ ListedOK /\ NoGhostSubscription
  BY DEF StateInv
<1> DEFINE p == home[s]
<1>2. phase[s] = "attached" /\ p \in Subs /\ home[p] = p
  BY <1>1 DEF Push, HomeOK
<1>3. /\ UNCHANGED <<home, current, broker>>
      /\ \E q \in {"hooking", "greeting", "streaming"} : phase' = [phase EXCEPT ![s] = q]
      /\ entries' = [entries EXCEPT ![p] = @ \cup {TableOf[s]}]
      /\ listed' = [listed EXCEPT ![p] = @ \cup {s}]
      /\ rowEntries' = [rowEntries EXCEPT ![p] =
           IF RowOf[s] = AnyRow THEN @ ELSE @ \cup {<<TableOf[s], RowOf[s]>>}]
  BY DEF Push, configVars, hookVars, Subscribed
<1> HIDE DEF p
<1>4. HomeOK'
  BY <1>0, <1>1, <1>2, <1>3 DEF HomeOK
<1>5. ListedOK'
  <2>1. ASSUME NEW o \in Subs, NEW x \in listed'[o]
        PROVE  /\ home[x] = o /\ ~Early(x)' /\ TableOf[x] \in entries'[o]
               /\ RowOf[x] # AnyRow => <<TableOf[x], RowOf[x]>> \in rowEntries'[o]
    <3>1. CASE x = s
      <4>1. o = p
        BY <1>0, <1>1, <1>2, <1>3, <2>1, <3>1 DEF ListedOK, Early
      <4>2. TableOf[s] \in entries'[p] /\ ~Early(s)'
        BY <1>0, <1>2, <1>3 DEF Early
      <4>3. RowOf[s] # AnyRow => <<TableOf[s], RowOf[s]>> \in rowEntries'[p]
        BY <1>0, <1>2, <1>3
      <4> QED
        BY <3>1, <4>1, <4>2, <4>3 DEF p
    <3>2. CASE x # s
      <4>1. x \in listed[o]
        BY <1>0, <1>2, <1>3, <2>1, <3>2
      <4>2. /\ home[x] = o /\ ~Early(x) /\ TableOf[x] \in entries[o]
            /\ RowOf[x] # AnyRow => <<TableOf[x], RowOf[x]>> \in rowEntries[o]
        BY <1>1, <4>1 DEF ListedOK
      <4>3. entries[o] \subseteq entries'[o] /\ rowEntries[o] \subseteq rowEntries'[o]
        BY <1>0, <1>2, <1>3
      <4>4. ~Early(x)'
        BY <1>0, <1>3, <3>2, <4>1, <4>2 DEF Early
      <4> QED
        BY <4>2, <4>3, <4>4
    <3> QED
      BY <3>1, <3>2
  <2> QED
    BY <1>3, <2>1 DEF ListedOK
<1>6. ASSUME NEW o \in Subs, phase'[o] \in {"closed", "unhooking"},
             home[o] # None, o \in listed'[home[o]]
      PROVE  ~Referenced(home[o])'
  <2>1. o # s /\ phase'[o] = phase[o]
    BY <1>0, <1>3, <1>6
  <2>2. home[o] \in Subs /\ o \in listed[home[o]]
    BY <1>0, <1>2, <1>3, <1>6, <2>1
  <2>3. ~Referenced(home[o])
    BY <1>1, <1>6, <2>1, <2>2 DEF NoGhostSubscription
  <2>4. p # home[o]
    BY <1>2, <2>3 DEF Referenced, p
  <2>5. \A g \in Subs : home[g] = home[o] => phase'[g] = phase[g]
    BY <1>0, <1>3, <2>4 DEF p
  <2>6. \A g \in Subs : BrokerRuns(g)' <=> BrokerRuns(g)
    BY <1>3 DEF BrokerRuns
  <2> QED
    BY <1>3, <2>3, <2>5, <2>6 DEF Referenced
<1> QED
  BY <1>3, <1>4, <1>5, <1>6 DEF StateInv, NoGhostSubscription

LEMMA StateLeave ==
  ASSUME StateInv, HookInv', NEW s \in Subs, Leave(s)
  PROVE  StateInv'
<1>0. /\ phase \in [Subs -> Phases] /\ listed \in [Subs -> SUBSET Subs]
      /\ home \in [Subs -> Subs \cup {None}] /\ current \in Subs \cup {None}
      /\ entries \in [Subs -> SUBSET Tables]
      /\ rowEntries \in [Subs -> SUBSET (Tables \X Rows)]
  BY DEF StateInv, HookInv, TypeOK, ReqTypeOK, StateTypeOK, ConfigTypeOK
<1>1. HomeOK /\ ListedOK /\ NoGhostSubscription
  BY DEF StateInv
<1> DEFINE p == home[s]
           t == TableOf[s]
           rows == IF /\ RowOf[s] # AnyRow
                      /\ \A o \in Without(s) : <<TableOf[o], RowOf[o]>> # <<t, RowOf[s]>>
                   THEN rowEntries[p] \ {<<t, RowOf[s]>>}
                   ELSE rowEntries[p]
           tables == IF EntryEmpty(t, Without(s), rows) THEN entries[p] \ {t} ELSE entries[p]
<1>2. phase[s] \in {"streaming", "ending"} /\ p \in Subs /\ home[p] = p
  BY <1>1 DEF Leave, HomeOK
<1>3. /\ UNCHANGED <<home, current, broker>>
      /\ \/ /\ Referenced(p)
            /\ entries' = [entries EXCEPT ![p] = tables]
            /\ rowEntries' = [rowEntries EXCEPT ![p] = rows]
            /\ listed' = [listed EXCEPT ![p] = Without(s)]
            /\ \E q \in {"closed", "unhooking"} : phase' = [phase EXCEPT ![s] = q]
         \/ /\ ~Referenced(p)
            /\ phase' = [phase EXCEPT ![s] = "closed"]
            /\ UNCHANGED <<entries, rowEntries, listed>>
  BY DEF Leave, configVars, hookVars
<1>4. \E q \in {"closed", "unhooking"} : phase' = [phase EXCEPT ![s] = q]
  BY <1>3
<1>5. CASE ~Referenced(p)
  <2>1. phase' = [phase EXCEPT ![s] = "closed"] /\ UNCHANGED <<entries, rowEntries, listed>>
    BY <1>3, <1>5
  <2>2. HomeOK'
    BY <1>0, <1>1, <1>2, <1>3, <2>1 DEF HomeOK
  <2>3. ListedOK'
    BY <1>0, <1>1, <1>2, <1>3, <2>1 DEF ListedOK, Early
  <2>4. \A o \in Subs : Referenced(o)' => Referenced(o)
    BY <1>0, <1>2, <1>3, <2>1 DEF Referenced, BrokerRuns
  <2>5. ASSUME NEW o \in Subs, phase'[o] \in {"closed", "unhooking"}, home[o] # None,
               o \in listed[home[o]]
        PROVE  ~Referenced(home[o])'
    <3>1. home[o] \in Subs
      BY <1>0, <2>5
    <3>2. CASE o = s
      BY <1>3, <1>5, <2>4, <3>1, <3>2 DEF Referenced, BrokerRuns
    <3>3. CASE o # s
      <4>1. phase[o] \in {"closed", "unhooking"}
        BY <1>0, <2>1, <2>5, <3>3
      <4>2. ~Referenced(home[o])
        BY <1>1, <2>5, <4>1 DEF NoGhostSubscription
      <4> QED
        BY <1>3, <2>4, <3>1, <4>2 DEF Referenced, BrokerRuns
    <3> QED
      BY <3>2, <3>3
  <2> QED
    BY <1>3, <2>1, <2>2, <2>3, <2>5 DEF StateInv, NoGhostSubscription
<1>6. CASE Referenced(p)
  <2>1. /\ entries' = [entries EXCEPT ![p] = tables]
        /\ rowEntries' = [rowEntries EXCEPT ![p] = rows]
        /\ listed' = [listed EXCEPT ![p] = listed[p] \ {s}]
    BY <1>3, <1>6 DEF Without
  <2>2. HomeOK'
    BY <1>0, <1>1, <1>2, <1>3, <1>4, <2>1 DEF HomeOK
  <2>3. ASSUME NEW o \in Subs, NEW x \in listed'[o]
        PROVE  /\ home[x] = o /\ ~Early(x)' /\ TableOf[x] \in entries'[o]
               /\ RowOf[x] # AnyRow => <<TableOf[x], RowOf[x]>> \in rowEntries'[o]
    <3>1. x \in listed[o] /\ (o = p => x \in Without(s))
      BY <1>0, <1>2, <2>1, <2>3 DEF Without
    <3>2. /\ home[x] = o /\ ~Early(x) /\ TableOf[x] \in entries[o]
          /\ RowOf[x] # AnyRow => <<TableOf[x], RowOf[x]>> \in rowEntries[o]
      BY <1>1, <3>1 DEF ListedOK
    <3>3. ~Early(x)'
      BY <1>0, <1>4, <3>1, <3>2 DEF Early
    <3>4. CASE o # p
      BY <1>0, <1>2, <2>1, <3>2, <3>3, <3>4
    <3>5. CASE o = p
      <4>1. RowOf[x] # AnyRow => <<TableOf[x], RowOf[x]>> \in rows
        BY <3>1, <3>2, <3>5
      <4> HIDE DEF rows
      <4>2. TableOf[x] \in tables
        <5>1. CASE EntryEmpty(t, Without(s), rows)
          <6>1. TableOf[x] # t
            <7>1. CASE RowOf[x] = AnyRow
              BY <3>1, <3>5, <5>1, <7>1 DEF EntryEmpty
            <7>2. CASE RowOf[x] # AnyRow
              <8>1. <<TableOf[x], RowOf[x]>>[1] # t
                BY <4>1, <5>1, <7>2 DEF EntryEmpty
              <8> QED
                BY <8>1
            <7> QED
              BY <7>1, <7>2
          <6> QED
            BY <3>2, <3>5, <6>1
        <5>2. CASE ~EntryEmpty(t, Without(s), rows)
          BY <3>2, <3>5, <5>2
        <5> QED
          BY <5>1, <5>2
      <4> HIDE DEF tables
      <4>3. entries'[p] = tables /\ rowEntries'[p] = rows
        BY <1>0, <1>2, <2>1
      <4> QED
        BY <3>2, <3>3, <3>5, <4>1, <4>2, <4>3
    <3> QED
      BY <3>4, <3>5
  <2>4. \A o \in Subs : o # p => (Referenced(o)' => Referenced(o))
    BY <1>0, <1>2, <1>3, <1>4 DEF Referenced, BrokerRuns
  <2>5. ASSUME NEW o \in Subs, phase'[o] \in {"closed", "unhooking"}, home[o] # None,
               o \in listed'[home[o]]
        PROVE  ~Referenced(home[o])'
    <3>1. home[o] \in Subs /\ o # s /\ o \in listed[home[o]]
      BY <1>0, <1>2, <2>1, <2>5
    <3>2. phase[o] \in {"closed", "unhooking"}
      BY <1>0, <1>4, <2>5, <3>1
    <3>3. ~Referenced(home[o])
      BY <1>1, <2>5, <3>1, <3>2 DEF NoGhostSubscription
    <3>4. home[o] # p
      BY <1>6, <3>3
    <3> QED
      BY <1>3, <2>4, <3>1, <3>3, <3>4 DEF Referenced, BrokerRuns
  <2> QED
    BY <1>3, <2>2, <2>3, <2>5 DEF StateInv, NoGhostSubscription, ListedOK
<1> QED
  BY <1>5, <1>6

LEMMA StateShrinks ==
  ASSUME StateInv, HookInv', UNCHANGED <<phase, home>>, current' \in {current, None},
         \A g \in Subs : BrokerRuns(g)' => BrokerRuns(g),
         \A p \in Subs : entries'[p] # {} => entries[p] # {},
         \A p \in Subs : \A s \in listed'[p] :
           /\ s \in listed[p]
           /\ TableOf[s] \in entries[p] => TableOf[s] \in entries'[p]
           /\ <<TableOf[s], RowOf[s]>> \in rowEntries[p] =>
                <<TableOf[s], RowOf[s]>> \in rowEntries'[p]
  PROVE  StateInv'
<1>0. /\ listed' \in [Subs -> SUBSET Subs] /\ home \in [Subs -> Subs \cup {None}]
      /\ current \in Subs \cup {None}
  BY DEF StateInv, HookInv, TypeOK, ReqTypeOK, StateTypeOK, ConfigTypeOK
<1>1. HomeOK /\ ListedOK /\ NoGhostSubscription
  BY DEF StateInv
<1>2. HomeOK'
  BY <1>0, <1>1 DEF HomeOK
<1>3. ListedOK'
  BY <1>1 DEF ListedOK, Early
<1>4. ASSUME NEW p \in Subs, ~Referenced(p) PROVE ~Referenced(p)'
  BY <1>4, ConstantsAssumption DEF Referenced
<1>5. NoGhostSubscription'
  <2> SUFFICES ASSUME NEW o \in Subs, phase[o] \in {"closed", "unhooking"},
                      home[o] # None, o \in listed'[home[o]]
               PROVE  ~Referenced(home[o])'
    BY DEF NoGhostSubscription
  <2> PICK p \in Subs : p = home[o]
    BY <1>0
  <2>1. ~Referenced(p)
    BY <1>1 DEF NoGhostSubscription
  <2>2. ~Referenced(p)'
    BY <1>4, <2>1
  <2> QED
    BY <2>2 DEF Referenced, BrokerRuns
<1> QED
  BY <1>2, <1>3, <1>5 DEF StateInv

\* The broker of an installed hook works for an attached request's state.
LEMMA BrokerHome ==
  ASSUME StateInv, NEW g \in Subs, broker[g] # "off"
  PROVE  /\ home[g] \in Subs /\ home[home[g]] = home[g]
         /\ phase[g] \notin {"idle", "found", "attached", "hooking"}
  BY DEF StateInv, HookInv, Fresh, HomeOK

LEMMA StateBroker ==
  ASSUME StateInv, HookInv', NEW g \in Subs, Broker(g)
  PROVE  StateInv'
<1>0. /\ listed \in [Subs -> SUBSET Subs] /\ home \in [Subs -> Subs \cup {None}]
      /\ broker \in [Subs -> BrokerPlaces]
      /\ entries \in [Subs -> SUBSET Tables]
      /\ rowEntries \in [Subs -> SUBSET (Tables \X Rows)]
  BY SMTT(40) DEF StateInv, HookInv, TypeOK, ReqTypeOK, StateTypeOK, HookTypeOK
<1>1. /\ UNCHANGED <<phase, home, current>>
      /\ BrokerRuns(g)
      /\ \E b \in BrokerPlaces : broker' = [broker EXCEPT ![g] = b]
  BY DEF Broker, BrokerCheck, BrokerDisconnected, BrokerOverflow, BrokerTableGone,
         BrokerDispatch, BrokerUnhook, BrokerRuns, BrokerPlaces, reqVars, configVars
<1>2. home[g] \in Subs
  BY <1>1, BrokerHome DEF BrokerRuns
<1>3. \A o \in Subs : BrokerRuns(o)' => BrokerRuns(o)
  BY <1>0, <1>1 DEF BrokerRuns
<1>4. CASE BrokerCheck(g) \/ BrokerDisconnected(g) \/ BrokerUnhook(g)
  <2>1. UNCHANGED <<entries, rowEntries, listed>>
    BY <1>4 DEF BrokerCheck, BrokerDisconnected, BrokerUnhook, stateVars
  <2> QED
    BY <1>1, <1>3, <2>1, StateShrinks
<1>5. CASE BrokerOverflow(g)
  <2>1. /\ entries' = [entries EXCEPT ![home[g]] = {}]
        /\ rowEntries' = [rowEntries EXCEPT ![home[g]] = {}]
        /\ listed' = [listed EXCEPT ![home[g]] = {}]
    BY <1>5 DEF BrokerOverflow
  <2>2. \A p \in Subs : listed'[p] = {} \/ UNCHANGED <<entries[p], rowEntries[p], listed[p]>>
    BY <1>0, <1>2, <2>1
  <2>3. \A p \in Subs : entries'[p] # {} => entries[p] # {}
    BY <1>0, <2>1
  <2> QED
    BY <1>1, <1>3, <2>2, <2>3, StateShrinks
<1>6. CASE BrokerTableGone(g)
  <2> DEFINE p == home[g]
             t == changes[Head(queue[g]).chg].table
  <2>1. /\ entries' = [entries EXCEPT ![p] = @ \ {t}]
        /\ rowEntries' = [rowEntries EXCEPT ![p] = {k \in @ : k[1] # t}]
        /\ listed' = [listed EXCEPT ![p] = {s \in @ : TableOf[s] # t}]
    BY <1>6 DEF BrokerTableGone
  <2> HIDE DEF p, t
  <2>2. \A o \in Subs : entries'[o] # {} => entries[o] # {}
    BY <1>0, <2>1
  <2>3. ASSUME NEW o \in Subs, NEW s \in listed'[o]
        PROVE  /\ s \in listed[o]
               /\ TableOf[s] \in entries[o] => TableOf[s] \in entries'[o]
               /\ <<TableOf[s], RowOf[s]>> \in rowEntries[o] =>
                    <<TableOf[s], RowOf[s]>> \in rowEntries'[o]
    <3>1. CASE o = p
      <4>1. s \in listed[o] /\ TableOf[s] # t
        BY <1>0, <2>1, <2>3, <3>1
      <4>2. <<TableOf[s], RowOf[s]>>[1] # t
        BY <4>1
      <4> QED
        BY <1>0, <2>1, <3>1, <4>1, <4>2
    <3>2. CASE o # p
      BY <1>0, <2>1, <2>3, <3>2
    <3> QED
      BY <3>1, <3>2
  <2> QED
    BY <1>1, <1>3, <2>2, <2>3, StateShrinks
<1>7. CASE BrokerDispatch(g)
  <2>1. /\ UNCHANGED <<entries, rowEntries>>
        /\ \E S \in SUBSET Subs : listed' = [listed EXCEPT ![home[g]] = @ \ S]
    <3>1. DEFINE to == {s \in listed[home[g]] : Matches(s, Head(queue[g]).chg)}
    <3>2. {s \in to : ReceiverGone(s)} \in SUBSET Subs
      BY <1>0, <1>2
    <3> QED
      BY <1>7, <3>2 DEF BrokerDispatch
  <2>2. \A o \in Subs : listed'[o] \subseteq listed[o]
    BY <1>0, <2>1
  <2> QED
    BY <1>1, <1>3, <2>1, <2>2, StateShrinks, SMTT(40)
<1> QED
  BY <1>4, <1>5, <1>6, <1>7 DEF Broker

LEMMA StateOther ==
  ASSUME StateInv, HookInv',
         \/ Writer \/ ReloadKeeps \/ ReloadForgets \/ \E p \in Subs : DropState(p)
         \/ UNCHANGED vars
  PROVE  StateInv'
<1>1. /\ UNCHANGED <<phase, home, broker, entries, rowEntries, listed>>
      /\ current' \in {current, None}
  BY DEF Writer, Change, ReloadKeeps, ReloadForgets, DropState, vars, configVars, reqVars,
         stateVars, hookVars
<1> QED
  BY <1>1, StateShrinks DEF BrokerRuns

LEMMA StateNext == StateInv /\ [Next]_vars => StateInv'
<1> SUFFICES ASSUME StateInv, [Next]_vars PROVE StateInv'
  OBVIOUS
<1>1. HookInv'
  BY HookInvNext DEF StateInv
<1> QED
  BY <1>1, StateRequest, StateAttach, StatePush, StateLeave, StateBroker, StateOther
  DEF Next, Request

\* A client that left (remove_subscription2), or whose record was not found, is in
\* no vector of a state that anything still refers to: what could not be removed
\* under a reference that is gone stays unreachable for good.
THEOREM NoGhosts == Spec => []NoGhostSubscription
<1>1. Init => StateInv
  BY StateInit
<1>2. StateInv /\ [Next]_vars => StateInv'
  BY StateNext
<1>3. StateInv => NoGhostSubscription
  BY DEF StateInv
<1> QED
  BY <1>1, <1>2, <1>3, PTL DEF Spec

-----------------------------------------------------------------------------
(* The hook of the only state there is serves its subscribers.             *)

\* No other state was created, and no request was abandoned.
Alone(p) == \A s \in Subs : home[s] \in {None, p} /\ phase[s] # "abandoned"
NobodyHooks == \A s \in Subs : phase[s] # "hooking"
Served(p) == hook # None /\ home[hook] = p /\ BrokerRuns(hook)

\* The hook is being removed only from an empty map, and a map that is not
\* empty has its hook.
ServeOK ==
  current # None /\ Alone(current) =>
    /\ Locked(current) => entries[current] = {}
    /\ entries[current] # {} /\ NobodyHooks => Served(current)

ServeInv == StateInv /\ ServeOK

\* The steps that leave the hook, the maps and who holds the lock alone.
LEMMA ServeFrame ==
  ASSUME ServeInv, StateInv', UNCHANGED <<entries, hook, home>>,
         current' \in {current, None},
         \A s \in Subs : phase[s] = "abandoned" => phase'[s] = "abandoned",
         NobodyHooks' => NobodyHooks,
         \A s \in Subs : phase'[s] = "unhooking" => phase[s] = "unhooking",
         \A g \in Subs : broker'[g] = "unhook" => broker[g] = "unhook",
         \A g \in Subs : hook = g /\ BrokerRuns(g) => BrokerRuns(g)'
  PROVE  ServeInv'
<1>1. hook \in Subs \cup {None} /\ ServeOK
  BY DEF ServeInv, StateInv, HookInv, TypeOK, ConnTypeOK
<1> SUFFICES ASSUME current' # None, Alone(current)'
             PROVE  /\ Locked(current)' => entries[current'] = {}
                    /\ entries[current'] # {} /\ NobodyHooks' => Served(current)'
  BY DEF ServeInv, ServeOK
<1>2. current' = current /\ current # None /\ Alone(current)
  BY DEF Alone
<1>3. Locked(current)' => Locked(current)
  BY <1>2 DEF Locked
<1>4. Served(current) => Served(current)'
  BY <1>1, <1>2 DEF Served, BrokerRuns
<1> QED
  BY <1>1, <1>2, <1>3, <1>4 DEF ServeOK

LEMMA ServeRequest ==
  ASSUME ServeInv, StateInv', NEW s \in Subs, Request(s) \/ Stream(s) \/ Cancel(s)
  PROVE  ServeInv'
<1>0. /\ phase \in [Subs -> Phases] /\ home \in [Subs -> Subs \cup {None}]
      /\ current \in Subs \cup {None} /\ hook \in Subs \cup {None} /\ None \notin Subs
      /\ entries \in [Subs -> SUBSET Tables] /\ broker \in [Subs -> BrokerPlaces]
  BY ConstantsAssumption
  DEF ServeInv, StateInv, HookInv, TypeOK, ReqTypeOK, StateTypeOK, ConfigTypeOK, ConnTypeOK,
      HookTypeOK
<1>1. HomeOK /\ ServeOK /\ \A o \in Subs : Fresh(o)
  BY DEF ServeInv, StateInv, HookInv
<1>2. CASE Lookup(s) \/ RecordNotFound(s) \/ TakeGreetSeq(s) \/ SendGreeting(s) \/ Stream(s)
           \/ Cancel(s)
  <2>1. UNCHANGED <<entries, hook, home, current, broker>>
    BY <1>2 DEF Lookup, RecordNotFound, TakeGreetSeq, SendGreeting, Stream, ReceiveInSeq,
                ReceiveOutOfSeq, Cancel, connVars, hookVars, configVars, stateVars
  <2>2. /\ phase[s] \notin {"abandoned", "hooking"}
        /\ UNCHANGED phase
           \/ \E q \in {"found", "closed", "sending", "streaming", "ending", "abandoned"} :
                phase' = [phase EXCEPT ![s] = q]
    BY <1>2 DEF Lookup, RecordNotFound, TakeGreetSeq, SendGreeting, Stream, ReceiveInSeq,
                ReceiveOutOfSeq, Cancel
  <2> QED
    BY <1>0, <2>1, <2>2, ServeFrame DEF NobodyHooks, BrokerRuns
<1>3. CASE Attach(s)
  <2>1. /\ UNCHANGED <<entries, hook, broker>>
        /\ phase[s] = "found" /\ phase' = [phase EXCEPT ![s] = "attached"]
        /\ \/ /\ current # None /\ home' = [home EXCEPT ![s] = current]
              /\ current' = current
           \/ current = None /\ home' = [home EXCEPT ![s] = s] /\ current' = s
    BY <1>3 DEF Attach, hookVars, connVars
  <2>2. home[s] = None /\ ~BrokerRuns(s)
    BY <1>1, <2>1 DEF HomeOK, Fresh, BrokerRuns
  <2> SUFFICES ASSUME Alone(current)'
               PROVE  /\ Locked(current)' => entries[current'] = {}
                      /\ entries[current'] # {} /\ NobodyHooks' => Served(current)'
    BY <2>1 DEF ServeInv, ServeOK
  <2>3. CASE current = None
    <3>1. current' = s /\ entries[s] = {}
      BY <1>0, <1>1, <2>1, <2>2, <2>3 DEF HomeOK
    <3> QED
      BY <3>1
  <2>4. CASE current # None
    <3>1. current' = current
      BY <2>1, <2>4
    <3>2. Alone(current)
      BY <1>0, <2>1, <2>2, <2>4, <3>1 DEF Alone
    <3>3. Locked(current)' => Locked(current)
      BY <1>0, <2>1, <2>2, <2>4 DEF Locked, BrokerRuns
    <3>4. Served(current) => Served(current)'
      BY <1>0, <2>1, <2>2, <2>4 DEF Served, BrokerRuns
    <3>5. NobodyHooks' => NobodyHooks
      BY <1>0, <2>1 DEF NobodyHooks
    <3> QED
      BY <1>1, <2>4, <3>1, <3>2, <3>3, <3>4, <3>5 DEF ServeOK
  <2> QED
    BY <2>3, <2>4
<1>4. CASE Push(s)
  <2>1. /\ UNCHANGED <<hook, home, current, broker>>
        /\ phase[s] = "attached" /\ ~Locked(home[s])
        /\ phase' = [phase EXCEPT ![s] = IF NeedsHook(s) THEN "hooking" ELSE Subscribed(s)]
    BY <1>4 DEF Push, connVars, hookVars, configVars
  <2> SUFFICES ASSUME current # None, Alone(current)'
               PROVE  /\ Locked(current)' => entries'[current] = {}
                      /\ entries'[current] # {} /\ NobodyHooks' => Served(current)'
    BY <2>1 DEF ServeInv, ServeOK
  <2>2. home[s] = current
    BY <1>0, <1>1, <2>1 DEF HomeOK, Alone
  <2>3. ~Locked(current)'
    BY <1>0, <2>1, <2>2 DEF Locked, Subscribed
  <2>4. CASE NeedsHook(s)
    <3>1. ~NobodyHooks'
      BY <1>0, <2>1, <2>4 DEF NobodyHooks
    <3> QED
      BY <2>3, <3>1
  <2>5. CASE ~NeedsHook(s)
    <3>1. Alone(current) /\ entries[current] # {} /\ (NobodyHooks' => NobodyHooks)
      BY <1>0, <2>1, <2>2, <2>5 DEF Alone, NeedsHook, NobodyHooks
    <3>2. Served(current) => Served(current)'
      BY <2>1 DEF Served, BrokerRuns
    <3> QED
      BY <1>1, <2>3, <3>1, <3>2 DEF ServeOK
  <2> QED
    BY <2>4, <2>5
<1>5. CASE AddHook(s)
  <2>1. /\ UNCHANGED <<entries, home, current>>
        /\ phase[s] = "hooking" /\ hook' = s
        /\ broker' = [broker EXCEPT ![s] = "check"]
        /\ phase' = [phase EXCEPT ![s] = Subscribed(s)]
    BY <1>5 DEF AddHook, configVars, stateVars
  <2> SUFFICES ASSUME current # None, Alone(current)'
               PROVE  /\ Locked(current)' => entries[current] = {}
                      /\ entries[current] # {} /\ NobodyHooks' => Served(current)'
    BY <2>1 DEF ServeInv, ServeOK
  <2>2. home[s] = current
    BY <1>0, <1>1, <2>1 DEF HomeOK, Alone
  <2>3. Served(current)'
    BY <1>0, <2>1, <2>2 DEF Served, BrokerRuns
  <2>4. Alone(current)
    BY <1>0, <2>1 DEF Alone
  <2>5. Locked(current)' => Locked(current)
    BY <1>0, <2>1 DEF Locked, Subscribed
  <2> QED
    BY <1>1, <2>3, <2>4, <2>5 DEF ServeOK
<1> QED
  BY <1>2, <1>3, <1>4, <1>5 DEF Request

LEMMA ServeLeave ==
  ASSUME ServeInv, StateInv', NEW s \in Subs, Leave(s) \/ LeaveUnhook(s)
  PROVE  ServeInv'
<1>0. /\ phase \in [Subs -> Phases] /\ home \in [Subs -> Subs \cup {None}]
      /\ entries \in [Subs -> SUBSET Tables]
  BY DEF ServeInv, StateInv, HookInv, TypeOK, ReqTypeOK, StateTypeOK
<1>1. HomeOK /\ ServeOK
  BY DEF ServeInv, StateInv
<1>2. UNCHANGED <<home, current, broker>>
      /\ \E q \in {"closed", "unhooking"} : phase' = [phase EXCEPT ![s] = q]
      /\ phase[s] \in {"streaming", "ending", "unhooking"}
  BY DEF Leave, LeaveUnhook, configVars, hookVars
<1> SUFFICES ASSUME current # None, Alone(current)'
             PROVE  /\ Locked(current)' => entries'[current] = {}
                    /\ entries'[current] # {} /\ NobodyHooks' => Served(current)'
  BY <1>2 DEF ServeInv, ServeOK
<1>3. home[s] = current /\ current \in Subs
  BY <1>0, <1>1, <1>2, ConstantsAssumption DEF HomeOK, Alone
<1>4. Alone(current) /\ (NobodyHooks' => NobodyHooks)
  BY <1>0, <1>2 DEF Alone, NobodyHooks
<1>5. CASE Leave(s)
  <2>1. Referenced(current)
    BY <1>3 DEF Referenced
  <2>2. UNCHANGED hook
    BY <1>5 DEF Leave, connVars
  <2>3. Served(current) => Served(current)'
    BY <1>2, <2>2 DEF Served, BrokerRuns
  <2>4. /\ ~Locked(current)
        /\ \E T \in SUBSET entries[current] :
             /\ entries' = [entries EXCEPT ![current] = T]
             /\ phase'[s] = "unhooking" => T = {}
    BY <1>0, <1>3, <1>5, <2>1 DEF Leave
  <2>5. entries'[current] \subseteq entries[current]
        /\ (phase'[s] = "unhooking" => entries'[current] = {})
    BY <1>0, <1>3, <2>4
  <2>6. Locked(current)' => phase'[s] = "unhooking"
    BY <1>0, <1>2, <2>4 DEF Locked
  <2> QED
    BY <1>1, <1>4, <2>3, <2>5, <2>6 DEF ServeOK
<1>6. CASE LeaveUnhook(s)
  <2>1. UNCHANGED entries /\ phase[s] = "unhooking"
    BY <1>6 DEF LeaveUnhook, stateVars
  <2>2. Locked(current)
    BY <1>3, <2>1 DEF Locked
  <2> QED
    BY <1>1, <1>4, <2>1, <2>2 DEF ServeOK
<1> QED
  BY <1>5, <1>6

LEMMA ServeBroker ==
  ASSUME ServeInv, StateInv', NEW g \in Subs, Broker(g)
  PROVE  ServeInv'
<1>0. /\ phase \in [Subs -> Phases] /\ home \in [Subs -> Subs \cup {None}]
      /\ entries \in [Subs -> SUBSET Tables] /\ broker \in [Subs -> BrokerPlaces]
      /\ listed \in [Subs -> SUBSET Subs] /\ hook \in Subs \cup {None}
  BY DEF ServeInv, StateInv, HookInv, TypeOK, ReqTypeOK, StateTypeOK, HookTypeOK, ConnTypeOK
<1>1. HomeOK /\ ServeOK
  BY DEF ServeInv, StateInv
<1>2. /\ UNCHANGED <<phase, home, current>> /\ broker[g] # "off"
      /\ \E b \in BrokerPlaces : broker' = [broker EXCEPT ![g] = b]
  BY DEF Broker, BrokerCheck, BrokerDisconnected, BrokerOverflow, BrokerTableGone,
         BrokerDispatch, BrokerUnhook, reqVars, configVars, BrokerPlaces
<1>3. home[g] \in Subs
  BY <1>2, BrokerHome DEF ServeInv
<1>4. CASE BrokerCheck(g) \/ BrokerDisconnected(g)
  <2>1. UNCHANGED <<entries, hook>>
    BY <1>4 DEF BrokerCheck, BrokerDisconnected, stateVars, connVars
  <2>2. /\ broker'[g] # "unhook"
        /\ hook = g => BrokerRuns(g)'
    BY <1>0, <1>4 DEF BrokerCheck, BrokerDisconnected, BrokerRuns
  <2>3. \A o \in Subs : broker'[o] = "unhook" => broker[o] = "unhook"
    BY <1>0, <1>2, <2>2
  <2>4. \A o \in Subs : hook = o /\ BrokerRuns(o) => BrokerRuns(o)'
    BY <1>0, <1>2, <2>2 DEF BrokerRuns
  <2> QED
    BY <1>2, <2>1, <2>3, <2>4, ServeFrame DEF NobodyHooks
<1>5. ASSUME ~(BrokerCheck(g) \/ BrokerDisconnected(g)) PROVE ServeInv'
  <2> SUFFICES ASSUME current # None, Alone(current)
               PROVE  /\ Locked(current)' => entries'[current] = {}
                      /\ entries'[current] # {} /\ NobodyHooks => Served(current)'
    BY <1>2 DEF ServeInv, ServeOK, Alone, NobodyHooks
  <2>1. home[g] = current /\ current \in Subs
    BY <1>0, <1>3, ConstantsAssumption DEF Alone
  <2>2. CASE BrokerOverflow(g)
    BY <1>0, <2>1, <2>2 DEF BrokerOverflow
  <2>3. CASE BrokerTableGone(g)
    <3>1. /\ UNCHANGED hook /\ ~Locked(current) /\ BrokerRuns(g)
          /\ \E t : /\ entries' = [entries EXCEPT ![current] = @ \ {t}]
                    /\ broker' = [broker EXCEPT ![g] =
                         IF entries[current] \subseteq {t} THEN "unhook" ELSE "check"]
      BY <2>1, <2>3 DEF BrokerTableGone, connVars, BrokerRuns
    <3>2. Locked(current)' => broker'[g] = "unhook"
      BY <1>0, <1>2, <3>1 DEF Locked
    <3>3. broker'[g] = "unhook" => entries'[current] = {}
      BY <1>0, <2>1, <3>1
    <3>4. Served(current) => Served(current)'
      BY <1>0, <1>2, <3>1 DEF Served, BrokerRuns
    <3>5. entries'[current] \subseteq entries[current]
      BY <1>0, <2>1, <3>1
    <3> QED
      BY <1>1, <3>2, <3>3, <3>4, <3>5, SMTT(40) DEF ServeOK
  <2>4. CASE BrokerDispatch(g)
    <3> DEFINE c == Head(queue[g]).chg
               t == changes[c].table
               to == {s \in listed[current] : Matches(s, c)}
               dead == {s \in to : ReceiverGone(s)}
               relevant == \/ <<t, changes[c].row>> \in rowEntries[current]
                           \/ \E s \in listed[current] : TableOf[s] = t /\ RowOf[s] = AnyRow
    <3>1. /\ UNCHANGED <<hook, entries>> /\ ~Locked(current) /\ BrokerRuns(g)
          /\ broker' = [broker EXCEPT ![g] =
               IF relevant /\ EntryEmpty(t, listed[current] \ dead, rowEntries[current])
               THEN "unhook" ELSE "check"]
      BY <2>1, <2>4 DEF BrokerDispatch, connVars, BrokerRuns
    <3>2. listed[current] \ dead = listed[current]
      BY <1>0, <2>1 DEF Alone, ReceiverGone
    <3>3. ~(relevant /\ EntryEmpty(t, listed[current], rowEntries[current]))
      <4> SUFFICES ASSUME EntryEmpty(t, listed[current], rowEntries[current])
                   PROVE  ~relevant
        OBVIOUS
      <4>1. \A s \in listed[current] : ~(TableOf[s] = t /\ RowOf[s] = AnyRow)
        BY DEF EntryEmpty
      <4>2. ASSUME <<t, changes[c].row>> \in rowEntries[current] PROVE FALSE
        <5>1. <<t, changes[c].row>>[1] # t
          BY <4>2 DEF EntryEmpty
        <5> QED
          BY <5>1
      <4> QED
        BY <4>1, <4>2
    <3> HIDE DEF relevant, dead, t
    <3>4. broker' = [broker EXCEPT ![g] = "check"]
      BY <3>1, <3>2, <3>3
    <3>5. ~Locked(current)'
      BY <1>0, <1>2, <3>1, <3>4 DEF Locked
    <3>6. Served(current) => Served(current)'
      BY <1>0, <1>2, <3>1, <3>4 DEF Served, BrokerRuns
    <3> QED
      BY <1>1, <3>1, <3>5, <3>6 DEF ServeOK
  <2>5. CASE BrokerUnhook(g)
    <3>1. UNCHANGED entries /\ Locked(current)
      BY <2>1, <2>5 DEF BrokerUnhook, Locked, stateVars
    <3> QED
      BY <1>1, <3>1 DEF ServeOK
  <2> QED
    BY <1>5, <2>2, <2>3, <2>4, <2>5 DEF Broker
<1> QED
  BY <1>4, <1>5

LEMMA ServeOther ==
  ASSUME ServeInv, StateInv',
         \/ Writer \/ ReloadKeeps \/ ReloadForgets \/ \E p \in Subs : DropState(p)
         \/ UNCHANGED vars
  PROVE  ServeInv'
<1>1. CASE Writer \/ ReloadKeeps \/ UNCHANGED vars
  <2>1. UNCHANGED <<entries, hook, home, current, phase, broker>>
    BY <1>1 DEF Writer, Change, ReloadKeeps, vars, connVars, hookVars, configVars, reqVars,
                stateVars
  <2> QED
    BY <2>1, ServeFrame DEF NobodyHooks, BrokerRuns
<1>2. CASE ReloadForgets
  <2>1. current' = None
    BY <1>2 DEF ReloadForgets
  <2> QED
    BY <2>1 DEF ServeInv, ServeOK
<1>3. CASE \E p \in Subs : DropState(p)
  <2>1. PICK p \in Subs : DropState(p)
    BY <1>3
  <2>2. UNCHANGED <<current, home, phase>> /\ ~Referenced(p) /\ \E s \in Subs : home[s] = p
    BY <2>1 DEF DropState, configVars, reqVars
  <2>3. current # p
    BY <2>2 DEF Referenced
  <2>4. current # None => ~Alone(current)'
    BY <2>2, <2>3, ConstantsAssumption DEF Alone
  <2> QED
    BY <2>2, <2>4 DEF ServeInv, ServeOK
<1> QED
  BY <1>1, <1>2, <1>3

\* For every capacity and every course of reloads: as long as no state was forgotten
\* and no request abandoned, a map with subscriptions has its hook (add_hook), and
\* the hook is removed (remove_subscription2, broker) only from an empty map.
THEOREM HookServes == Spec => []HookServesSubscribers
<1>1. Init => ServeInv
  BY StateInit DEF ServeInv, ServeOK, Init
<1>2. ServeInv /\ [Next]_vars => ServeInv'
  <2> SUFFICES ASSUME ServeInv, [Next]_vars PROVE ServeInv'
    OBVIOUS
  <2>1. StateInv'
    BY StateNext DEF ServeInv
  <2> QED
    BY <2>1, ServeRequest, ServeLeave, ServeBroker, ServeOther DEF Next
<1>3. ServeInv => HookServesSubscribers
  <2> SUFFICES ASSUME ServeInv, current # None, listed[current] # {},
                      \A s \in Subs : home[s] \in {None, current}
                                      /\ phase[s] \notin {"hooking", "abandoned"}
               PROVE  hook # None /\ home[hook] = current /\ BrokerRuns(hook)
    BY DEF HookServesSubscribers
  <2>1. current \in Subs /\ Alone(current) /\ NobodyHooks
    BY DEF ServeInv, StateInv, HookInv, TypeOK, ConfigTypeOK, Alone, NobodyHooks
  <2>2. entries[current] # {}
    BY <2>1 DEF ServeInv, StateInv, ListedOK
  <2> QED
    BY <2>1, <2>2 DEF ServeInv, ServeOK, Served
<1> QED
  BY <1>1, <1>2, <1>3, PTL DEF Spec

-----------------------------------------------------------------------------
(* What a stream's numbers say.                                            *)

Going(s) == phase[s] \in {"hooking", "greeting", "sending", "streaming", "ending"}

\* The first n events of a stream's channel have the numbers it expects.
InOrder(s, n) == \A i \in 1 .. n : chan[s][i].seq = validSeq[s] + i - 1

\* Nothing reached a request that has not subscribed, or is gone.
QuietOK(s) ==
  /\ ~Going(s) => chan[s] = <<>> /\ seen[s] = {} /\ told[s] = 0
  /\ Early(s) => candSeq[s] = 0 /\ validSeq[s] = 0 /\ lost[s] = 0

\* Every number given is still expected, in the channel, lost, or kept for the
\* "established" event.
NumbersOK(s) ==
  /\ Going(s) /\ phase[s] # "sending" /\ told[s] = 0 =>
       candSeq[s] = validSeq[s] + Len(chan[s]) + lost[s]
  /\ phase[s] = "sending" /\ told[s] = 0 =>
       candSeq[s] = validSeq[s] + Len(chan[s]) + lost[s] + 1
  /\ phase[s] = "sending" => greetSeq[s] < candSeq[s]

\* A WebSocket that lost nothing is in order.
OrderOK(s) ==
  /\ phase[s] \in {"greeting", "sending"} => s \in Sse
  /\ Going(s) /\ s \notin Sse /\ lost[s] = 0 =>
       told[s] = 0 /\ InOrder(s, Len(chan[s]))

StreamOK == \A s \in Subs : QuietOK(s) /\ NumbersOK(s) /\ OrderOK(s)

StreamInv == StateInv /\ StreamOK

\* The types of a request's numbers.
LEMMA StreamTypes ==
  ASSUME TypeOK
  PROVE  /\ phase \in [Subs -> Phases]
         /\ candSeq \in [Subs -> Nat] /\ greetSeq \in [Subs -> Nat]
         /\ validSeq \in [Subs -> Nat] /\ lost \in [Subs -> Nat] /\ told \in [Subs -> Nat]
         /\ seen \in [Subs -> SUBSET Changes] /\ since \in [Subs -> Nat]
         /\ chan \in [Subs -> Seq(Candidates)]
         /\ \A s \in Subs : /\ Len(chan[s]) \in Nat
                            /\ \A i \in 1 .. Len(chan[s]) :
                                 chan[s][i].seq \in Nat /\ chan[s][i].chg \in Nat
<1>1. /\ phase \in [Subs -> Phases]
      /\ candSeq \in [Subs -> Nat] /\ greetSeq \in [Subs -> Nat]
      /\ validSeq \in [Subs -> Nat] /\ lost \in [Subs -> Nat] /\ told \in [Subs -> Nat]
      /\ seen \in [Subs -> SUBSET Changes] /\ since \in [Subs -> Nat]
      /\ chan \in [Subs -> Seq(Candidates)]
  BY DEF TypeOK, ReqTypeOK, ClientTypeOK
<1>2. ASSUME NEW s \in Subs, NEW i \in 1 .. Len(chan[s])
      PROVE  chan[s][i].seq \in Nat /\ chan[s][i].chg \in Nat
  <2>1. chan[s][i] \in Candidates
    BY <1>1
  <2> QED
    BY <2>1, ConstantsAssumption DEF Candidates, Changes, Established
<1>3. \A s \in Subs : Len(chan[s]) \in Nat
  BY <1>1
<1> QED
  BY <1>1, <1>2, <1>3

LEMMA StreamNumbers ==
  ASSUME TypeOK, NEW s \in Subs
  PROVE  /\ candSeq[s] \in Nat /\ greetSeq[s] \in Nat /\ validSeq[s] \in Nat
         /\ lost[s] \in Nat /\ told[s] \in Nat /\ since[s] \in Nat
         /\ Len(chan[s]) \in Nat
  BY StreamTypes

LEMMA OneMore ==
  ASSUME NEW v \in Nat, NEW l \in Nat, NEW n \in Nat
  PROVE  /\ (v + l + n) + 1 = v + (l + 1) + n
         /\ (v + l + n) + 1 = v + l + (n + 1)
         /\ (v + l + n + 1) + 1 = v + (l + 1) + n + 1
         /\ (v + l + n + 1) + 1 = v + l + (n + 1) + 1
  OBVIOUS

LEMMA StreamFrame ==
  ASSUME StreamOK, NEW s \in Subs,
         UNCHANGED <<phase[s], chan[s], candSeq[s], greetSeq[s], validSeq[s], seen[s],
                     lost[s], told[s]>>
  PROVE  QuietOK(s)' /\ NumbersOK(s)' /\ OrderOK(s)'
<1>1. QuietOK(s) /\ NumbersOK(s) /\ OrderOK(s)
  BY DEF StreamOK
<1>2. QuietOK(s)'
  BY <1>1 DEF QuietOK, Going, Early
<1>3. NumbersOK(s)'
  BY <1>1 DEF NumbersOK, Going
<1>4. OrderOK(s)'
  BY <1>1 DEF OrderOK, Going, InOrder
<1> QED
  BY <1>2, <1>3, <1>4

LEMMA AppendElements ==
  ASSUME NEW S, NEW q \in Seq(S), NEW x \in S
  PROVE  /\ Append(q, x) \in Seq(S)
         /\ Len(q) \in Nat /\ Len(Append(q, x)) = Len(q) + 1
         /\ \A i \in 1 .. Len(q) : Append(q, x)[i] = q[i]
         /\ Append(q, x)[Len(q) + 1] = x
  OBVIOUS

LEMMA TailElements ==
  ASSUME NEW S, NEW q \in Seq(S), q # <<>>
  PROVE  /\ Head(q) = q[1] /\ 1 \in 1 .. Len(q)
         /\ Len(q) \in Nat /\ Len(Tail(q)) = Len(q) - 1
         /\ \A i \in 1 .. Len(q) - 1 : Tail(q)[i] = q[i + 1]
  OBVIOUS

LEMMA StreamRequest ==
  ASSUME StreamInv, StateInv', NEW s \in Subs, Request(s) \/ Cancel(s)
  PROVE  StreamOK'
<1>0. TypeOK
  BY DEF StreamInv, StateInv, HookInv
<1> SUFFICES QuietOK(s)' /\ NumbersOK(s)' /\ OrderOK(s)'
  <2> SUFFICES ASSUME NEW o \in Subs, o # s
               PROVE  QuietOK(o)' /\ NumbersOK(o)' /\ OrderOK(o)'
    BY DEF StreamOK
  <2>1. UNCHANGED <<phase[o], chan[o], candSeq[o], greetSeq[o], validSeq[o], seen[o],
                    lost[o], told[o]>>
    BY <1>0, StreamTypes, SMTT(40)
    DEF Request, Lookup, Attach, RecordNotFound, Push, AddHook, TakeGreetSeq, SendGreeting,
        Cancel, EndStream, clientVars
  <2> QED
    BY <2>1, StreamFrame DEF StreamInv
<1>1. QuietOK(s) /\ NumbersOK(s) /\ OrderOK(s)
  BY DEF StreamInv, StreamOK
<1>2. CASE Lookup(s) \/ Attach(s) \/ RecordNotFound(s) \/ Push(s)
  <2>1. /\ UNCHANGED <<chan, candSeq, greetSeq, validSeq, seen, lost, told>>
        /\ Early(s)
        /\ phase'[s] \in {"found", "attached", "closed", "hooking", "streaming", "greeting"}
        /\ phase'[s] = "greeting" => s \in Sse
    BY <1>0, <1>2, StreamTypes
    DEF Lookup, Attach, RecordNotFound, Push, clientVars, Early, Subscribed
  <2>2. chan[s] = <<>> /\ seen[s] = {} /\ told[s] = 0
        /\ candSeq[s] = 0 /\ validSeq[s] = 0 /\ lost[s] = 0
    BY <1>1, <2>1 DEF QuietOK, Early, Going
  <2> QED
    BY <2>1, <2>2 DEF QuietOK, NumbersOK, OrderOK, InOrder, Going, Early
<1>3. CASE AddHook(s)
  <2>1. /\ UNCHANGED <<chan, candSeq, greetSeq, validSeq, seen, lost, told>>
        /\ phase[s] = "hooking"
        /\ phase'[s] \in {"streaming", "greeting"}
        /\ phase'[s] = "greeting" => s \in Sse
    BY <1>0, <1>3, StreamTypes DEF AddHook, clientVars, Subscribed
  <2>2. QuietOK(s)' /\ NumbersOK(s)'
    BY <1>1, <2>1 DEF QuietOK, NumbersOK, Going, Early
  <2>3. OrderOK(s)'
    BY <1>1, <2>1 DEF OrderOK, Going, InOrder
  <2> QED
    BY <2>2, <2>3
<1>4. CASE TakeGreetSeq(s)
  <2>1. /\ UNCHANGED <<chan, validSeq, seen, lost, told>>
        /\ phase[s] = "greeting" /\ phase'[s] = "sending"
        /\ greetSeq'[s] = candSeq[s] /\ candSeq'[s] = candSeq[s] + 1
    BY <1>0, <1>4, StreamTypes DEF TakeGreetSeq, clientVars
  <2>2. QuietOK(s)'
    BY <1>1, <2>1 DEF QuietOK, Going, Early
  <2>3. NumbersOK(s)'
    BY <1>0, <1>1, <2>1, StreamTypes DEF NumbersOK, Going
  <2>4. OrderOK(s)'
    BY <1>1, <2>1 DEF OrderOK, Going
  <2> QED
    BY <2>2, <2>3, <2>4
<1>5. CASE SendGreeting(s)
  <2> DEFINE e == [seq |-> greetSeq[s], chg |-> Established]
  <2>1. /\ UNCHANGED <<candSeq, validSeq, seen, lost, told>>
        /\ phase[s] = "sending" /\ phase'[s] = "streaming"
        /\ chan'[s] = Append(chan[s], e)
    BY <1>0, <1>5, StreamTypes DEF SendGreeting, clientVars
  <2>2. e \in Candidates
    BY <1>0, StreamTypes DEF Candidates
  <2>3. Len(chan'[s]) = Len(chan[s]) + 1 /\ Len(chan[s]) \in Nat
    BY <1>0, <2>1, <2>2, StreamTypes, AppendElements
  <2>4. QuietOK(s)'
    BY <1>1, <2>1 DEF QuietOK, Going, Early
  <2>5. NumbersOK(s)'
    <3>1. /\ candSeq[s] \in Nat /\ greetSeq[s] \in Nat /\ validSeq[s] \in Nat
          /\ lost[s] \in Nat /\ Len(chan[s]) \in Nat
      BY <1>0, StreamNumbers
    <3> QED
      BY <1>1, <2>1, <2>3, <3>1 DEF NumbersOK, Going
  <2>6. OrderOK(s)'
    BY <1>1, <2>1 DEF OrderOK
  <2> QED
    BY <2>4, <2>5, <2>6
<1>6. CASE Cancel(s)
  <2>1. /\ phase'[s] = "abandoned"
        /\ chan'[s] = <<>> /\ seen'[s] = {} /\ told'[s] = 0
    BY <1>0, <1>6, StreamTypes DEF Cancel, EndStream
  <2> QED
    BY <2>1 DEF QuietOK, NumbersOK, OrderOK, Going, Early
<1> QED
  BY <1>2, <1>3, <1>4, <1>5, <1>6 DEF Request

LEMMA StreamStream ==
  ASSUME StreamInv, StateInv', NEW s \in Subs, Stream(s) \/ Leave(s) \/ LeaveUnhook(s)
  PROVE  StreamOK'
<1>0. TypeOK
  BY DEF StreamInv, StateInv, HookInv
<1> SUFFICES QuietOK(s)' /\ NumbersOK(s)' /\ OrderOK(s)'
  <2> SUFFICES ASSUME NEW o \in Subs, o # s
               PROVE  QuietOK(o)' /\ NumbersOK(o)' /\ OrderOK(o)'
    BY DEF StreamOK
  <2>1. UNCHANGED <<phase[o], chan[o], candSeq[o], greetSeq[o], validSeq[o], seen[o],
                    lost[o], told[o]>>
    BY <1>0, StreamTypes, ZenonT(60)
    DEF Stream, ReceiveInSeq, ReceiveOutOfSeq, Leave, LeaveUnhook, EndStream, clientVars
  <2> QED
    BY <2>1, StreamFrame DEF StreamInv
<1>1. QuietOK(s) /\ NumbersOK(s) /\ OrderOK(s)
  BY DEF StreamInv, StreamOK
<1>2. CASE ReceiveOutOfSeq(s)
  <2>1. /\ UNCHANGED <<candSeq, greetSeq, seen, lost, phase>>
        /\ phase[s] = "streaming" /\ told'[s] = told[s] + 1
        /\ chan[s] # <<>> /\ Head(chan[s]).seq # validSeq[s]
    BY <1>0, <1>2, StreamTypes DEF ReceiveOutOfSeq
  <2>2. lost[s] # 0 \/ s \in Sse
    <3>1. Head(chan[s]) = chan[s][1] /\ 1 \in 1 .. Len(chan[s])
      BY <1>0, <2>1, StreamTypes, TailElements
    <3>2. ~InOrder(s, Len(chan[s]))
      BY <1>0, <2>1, <3>1, StreamTypes DEF InOrder
    <3> QED
      BY <1>1, <2>1, <3>2 DEF OrderOK, Going
  <2>3. told'[s] # 0
    BY <1>0, <2>1, StreamTypes
  <2> QED
    BY <1>1, <2>1, <2>2, <2>3 DEF QuietOK, NumbersOK, OrderOK, Going, Early
<1>3. CASE ReceiveInSeq(s)
  <2>1. /\ UNCHANGED <<candSeq, greetSeq, lost, told>>
        /\ phase[s] = "streaming" /\ phase'[s] \in {"streaming", "ending"}
        /\ chan[s] # <<>> /\ Head(chan[s]).seq = validSeq[s]
        /\ chan'[s] = Tail(chan[s]) /\ validSeq'[s] = validSeq[s] + 1
    BY <1>0, <1>3, StreamTypes DEF ReceiveInSeq
  <2>2. /\ Len(chan[s]) \in Nat /\ Len(chan'[s]) = Len(chan[s]) - 1
        /\ \A i \in 1 .. Len(chan[s]) - 1 : chan'[s][i] = chan[s][i + 1]
    BY <1>0, <2>1, StreamTypes, TailElements
  <2>3. QuietOK(s)'
    BY <2>1 DEF QuietOK, Going, Early
  <2>4. NumbersOK(s)'
    <3>1. /\ candSeq[s] \in Nat /\ greetSeq[s] \in Nat /\ validSeq[s] \in Nat
          /\ lost[s] \in Nat /\ Len(chan[s]) \in Nat
      BY <1>0, StreamNumbers
    <3>2. /\ told'[s] = told[s] /\ candSeq'[s] = candSeq[s] /\ lost'[s] = lost[s]
          /\ validSeq'[s] = validSeq[s] + 1 /\ Len(chan'[s]) = Len(chan[s]) - 1
      BY <2>1, <2>2
    <3>3. NumbersOK(s) /\ Going(s) /\ phase[s] # "sending"
      BY <1>1, <2>1 DEF Going
    <3> QED
      <4>1. told[s] = 0 => candSeq[s] = (validSeq[s] + 1) + (Len(chan[s]) - 1) + lost[s]
        <5>1. told[s] = 0 => candSeq[s] = validSeq[s] + Len(chan[s]) + lost[s]
          BY <3>3 DEF NumbersOK
        <5> QED
          BY <3>1, <5>1, SMTT(40)
      <4>2. told'[s] = 0 => candSeq'[s] = validSeq'[s] + Len(chan'[s]) + lost'[s]
        BY <3>2, <4>1
      <4> QED
        BY <2>1, <4>2 DEF NumbersOK
  <2>5. InOrder(s, Len(chan[s])) => InOrder(s, Len(chan[s]))'
    BY <1>0, <2>1, <2>2, StreamTypes DEF InOrder
  <2>6. OrderOK(s)'
    BY <1>1, <2>1, <2>5 DEF OrderOK, Going
  <2> QED
    BY <2>3, <2>4, <2>6
<1>4. CASE Leave(s)
  <2>1. /\ phase'[s] \in {"closed", "unhooking"}
        /\ chan'[s] = <<>> /\ seen'[s] = {} /\ told'[s] = 0
    BY <1>0, <1>4, StreamTypes DEF Leave, EndStream
  <2> QED
    BY <2>1 DEF QuietOK, NumbersOK, OrderOK, Going, Early
<1>5. CASE LeaveUnhook(s)
  <2>1. /\ phase[s] = "unhooking" /\ phase'[s] = "closed"
        /\ UNCHANGED <<chan, seen, told>>
    BY <1>0, <1>5, StreamTypes DEF LeaveUnhook, clientVars
  <2> QED
    BY <1>1, <2>1 DEF QuietOK, NumbersOK, OrderOK, Going, Early
<1> QED
  BY <1>2, <1>3, <1>4, <1>5 DEF Stream

\* What a dispatch does to one subscription.
Untouched(s) == UNCHANGED <<chan[s], candSeq[s], lost[s]>>
Gets(s, c) ==
  /\ chan'[s] = Append(chan[s], [seq |-> candSeq[s], chg |-> c])
  /\ candSeq'[s] = candSeq[s] + 1 /\ lost'[s] = lost[s]
Loses(s) ==
  chan'[s] = chan[s] /\ candSeq'[s] = candSeq[s] + 1 /\ lost'[s] = lost[s] + 1

LEMMA DispatchEffect ==
  ASSUME StateInv, NEW g \in Subs, BrokerDispatch(g), NEW s \in Subs
  PROVE  LET c == Head(queue[g]).chg IN
         IF s \in listed[home[g]] /\ Matches(s, c)
         THEN /\ ~Early(s) /\ phase[s] \notin {"closed", "unhooking"}
              /\ IF phase[s] = "abandoned" THEN chan'[s] = chan[s] /\ lost'[s] = lost[s]
                 ELSE Gets(s, c) \/ Loses(s)
         ELSE Untouched(s)
<1> DEFINE c == Head(queue[g]).chg
           to == {o \in listed[home[g]] : Matches(o, c)}
           dead == {o \in to : ReceiverGone(o)}
<1>1. /\ candSeq' = [o \in Subs |-> IF o \in to THEN candSeq[o] + 1 ELSE candSeq[o]]
      /\ chan' = [o \in Subs |-> IF o \in to \ dead /\ Len(chan[o]) < ChanCap
                                 THEN Append(chan[o], [seq |-> candSeq[o], chg |-> c])
                                 ELSE chan[o]]
      /\ lost' = [o \in Subs |-> IF o \in to \ dead /\ Len(chan[o]) >= ChanCap
                                 THEN lost[o] + 1 ELSE lost[o]]
  BY DEF BrokerDispatch, Numbered
<1>2. BrokerRuns(g) /\ home[g] \in Subs
  BY BrokerHome DEF BrokerDispatch, BrokerRuns
<1>3. ASSUME s \in listed[home[g]]
      PROVE  ~Early(s) /\ phase[s] \notin {"closed", "unhooking"}
  <2>1. home[s] = home[g] /\ ~Early(s)
    BY <1>2, <1>3 DEF StateInv, ListedOK
  <2>2. Referenced(home[s])
    BY <1>2, <2>1 DEF Referenced
  <2> QED
    BY <1>2, <1>3, <2>1, <2>2, ConstantsAssumption DEF StateInv, NoGhostSubscription
<1>4. s \in dead <=> s \in to /\ phase[s] = "abandoned"
  BY DEF ReceiverGone
<1>5. s \in to <=> s \in listed[home[g]] /\ Matches(s, c)
  OBVIOUS
<1>6. Len(chan[s]) < ChanCap \/ Len(chan[s]) >= ChanCap
  BY StreamTypes, ConstantsAssumption DEF StateInv, HookInv
<1>7. Len(chan[s]) < ChanCap => ~(Len(chan[s]) >= ChanCap)
  BY StreamTypes, ConstantsAssumption DEF StateInv, HookInv
<1> HIDE DEF to, dead, c
<1>8. CASE s \notin to
  BY <1>1, <1>5, <1>8 DEF Untouched, c
<1>9. CASE s \in dead
  BY <1>1, <1>3, <1>4, <1>5, <1>9 DEF c
<1>10. CASE s \in to /\ s \notin dead
  <2>1. Gets(s, c) \/ Loses(s)
    BY <1>1, <1>6, <1>7, <1>10 DEF Gets, Loses
  <2> QED
    BY <1>3, <1>4, <1>5, <1>10, <2>1 DEF c
<1> QED
  BY <1>4, <1>8, <1>9, <1>10

LEMMA StreamDispatch ==
  ASSUME StreamInv, StateInv', NEW g \in Subs, BrokerDispatch(g)
  PROVE  StreamOK'
<1>0. TypeOK /\ StateInv
  BY DEF StreamInv, StateInv, HookInv
<1> SUFFICES ASSUME NEW s \in Subs PROVE QuietOK(s)' /\ NumbersOK(s)' /\ OrderOK(s)'
  BY DEF StreamOK
<1> DEFINE c == Head(queue[g]).chg
<1>1. QuietOK(s) /\ NumbersOK(s) /\ OrderOK(s)
  BY SMTT(40) DEF StreamInv, StreamOK
<1>2. UNCHANGED <<phase, greetSeq, validSeq, seen, told>>
  BY DEF BrokerDispatch
<1>3. \/ Untouched(s)
      \/ phase[s] = "abandoned" /\ chan'[s] = chan[s] /\ lost'[s] = lost[s]
      \/ /\ ~Early(s) /\ phase[s] \notin {"closed", "unhooking", "abandoned"}
         /\ Gets(s, c) \/ Loses(s)
  BY <1>0, DispatchEffect
<1>4. c \in Changes
  <2>1. queue[g] \in Seq(HookEvents) /\ queue[g] # <<>>
    BY <1>0 DEF BrokerDispatch, TypeOK, HookTypeOK
  <2>2. Head(queue[g]) \in HookEvents
    BY <2>1, TailFacts
  <2> QED
    BY <2>2 DEF HookEvents
<1> HIDE DEF c
<1>5. CASE Untouched(s)
  BY <1>2, <1>5, StreamFrame DEF Untouched, StreamInv
<1>6. CASE phase[s] = "abandoned" /\ chan'[s] = chan[s] /\ lost'[s] = lost[s]
  BY <1>1, <1>2, <1>6 DEF QuietOK, NumbersOK, OrderOK, Going, Early
<1>7. CASE ~Early(s) /\ Gets(s, c) /\ phase[s] \notin {"closed", "unhooking", "abandoned"}
  <2> DEFINE e == [seq |-> candSeq[s], chg |-> c]
  <2>1. e \in Candidates
    BY <1>0, <1>4, StreamTypes DEF Candidates
  <2>2. e.seq = candSeq[s]
    OBVIOUS
  <2> HIDE DEF e
  <2>3. /\ Len(chan[s]) \in Nat /\ Len(chan'[s]) = Len(chan[s]) + 1
        /\ \A i \in 1 .. Len(chan[s]) : chan'[s][i] = chan[s][i]
        /\ chan'[s][Len(chan[s]) + 1] = e
    <3>1. chan'[s] = Append(chan[s], e)
      BY <1>7 DEF Gets, e
    <3>2. chan[s] \in Seq(Candidates)
      BY <1>0, StreamTypes
    <3> QED
      BY <2>1, <3>1, <3>2, AppendElements
  <2>4. Going(s)
    BY <1>0, <1>7, StreamTypes DEF Going, Early, Phases
  <2>5. QuietOK(s)'
    BY <1>2, <1>7, <2>4 DEF QuietOK, Going, Early
  <2>6. NumbersOK(s)'
    <3>1. /\ candSeq[s] \in Nat /\ greetSeq[s] \in Nat /\ validSeq[s] \in Nat
          /\ lost[s] \in Nat /\ Len(chan[s]) \in Nat
      BY <1>0, StreamNumbers
    <3>2. /\ phase'[s] = phase[s] /\ told'[s] = told[s] /\ greetSeq'[s] = greetSeq[s]
          /\ validSeq'[s] = validSeq[s] /\ Len(chan'[s]) = Len(chan[s]) + 1
          /\ candSeq'[s] = candSeq[s] + 1 /\ lost'[s] = lost[s]
      BY <1>2, <1>7, <2>3 DEF Gets
    <3>3. NumbersOK(s)
      BY <1>1
    <3>4. CASE phase[s] = "sending"
      <4>a. /\ told[s] = 0 => candSeq[s] = validSeq[s] + Len(chan[s]) + lost[s] + 1
            /\ greetSeq[s] < candSeq[s]
        BY <3>3, <3>4 DEF NumbersOK
      <4>1. /\ told[s] = 0 => candSeq[s] + 1 = validSeq[s] + (Len(chan[s]) + 1) + lost[s] + 1
            /\ greetSeq[s] < candSeq[s] + 1
        <5>1. (validSeq[s] + Len(chan[s]) + lost[s] + 1) + 1 = validSeq[s] + (Len(chan[s]) + 1) + lost[s] + 1
          BY <3>1, OneMore
        <5>2. greetSeq[s] < candSeq[s] + 1
          BY <3>1, <4>a
        <5> QED
          BY <4>a, <5>1, <5>2
      <4>2. /\ told'[s] = 0 => candSeq'[s] = validSeq'[s] + Len(chan'[s]) + lost'[s] + 1
            /\ greetSeq'[s] < candSeq'[s]
        BY <3>2, <4>1
      <4> QED
        BY <3>2, <3>4, <4>2 DEF NumbersOK
    <3>5. CASE phase[s] # "sending"
      <4>1. told[s] = 0 => candSeq[s] + 1 = validSeq[s] + (Len(chan[s]) + 1) + lost[s]
        <5>1. told[s] = 0 => candSeq[s] = validSeq[s] + Len(chan[s]) + lost[s]
          BY <2>4, <3>3, <3>5 DEF NumbersOK
        <5> QED
          <6>1. (validSeq[s] + Len(chan[s]) + lost[s]) + 1 = validSeq[s] + (Len(chan[s]) + 1) + lost[s]
            BY <3>1, OneMore
          <6> QED
            BY <5>1, <6>1
      <4>2. told'[s] = 0 => candSeq'[s] = validSeq'[s] + Len(chan'[s]) + lost'[s]
        BY <3>2, <4>1
      <4> QED
        BY <3>2, <3>5, <4>2 DEF NumbersOK
    <3> QED
      BY <3>4, <3>5
  <2>7. OrderOK(s)'
    <3> SUFFICES ASSUME s \notin Sse, lost[s] = 0
                 PROVE  told[s] = 0 /\ InOrder(s, Len(chan[s]))'
      BY <1>1, <1>2, <1>7, <2>4 DEF OrderOK, Going, Gets
    <3>1. told[s] = 0 /\ InOrder(s, Len(chan[s])) /\ phase[s] # "sending"
      BY <1>1, <2>4 DEF OrderOK
    <3>2. candSeq[s] = validSeq[s] + Len(chan[s])
      BY <1>0, <1>1, <2>3, <2>4, <3>1, StreamTypes, SMTT(40) DEF NumbersOK
    <3>3. ASSUME NEW i \in 1 .. Len(chan'[s])
          PROVE  chan'[s][i].seq = validSeq[s] + i - 1
      <4>1. CASE i \in 1 .. Len(chan[s])
        BY <2>3, <3>1, <4>1 DEF InOrder
      <4>2. CASE i = Len(chan[s]) + 1
        BY <1>0, <2>2, <2>3, <3>2, <4>2, StreamNumbers
      <4> QED
        BY <2>3, <4>1, <4>2
    <3> QED
      BY <1>2, <3>1, <3>3 DEF InOrder
  <2> QED
    BY <2>5, <2>6, <2>7
<1>8. CASE ~Early(s) /\ Loses(s) /\ phase[s] \notin {"closed", "unhooking", "abandoned"}
  <2>1. Going(s)
    BY <1>0, <1>8, StreamTypes DEF Going, Early, Phases
  <2>2. QuietOK(s)'
    BY <1>2, <1>8, <2>1 DEF QuietOK, Going, Early
  <2>3. NumbersOK(s)'
    <3>1. /\ candSeq[s] \in Nat /\ greetSeq[s] \in Nat /\ validSeq[s] \in Nat
          /\ lost[s] \in Nat /\ Len(chan[s]) \in Nat
      BY <1>0, StreamNumbers
    <3>2. /\ phase'[s] = phase[s] /\ told'[s] = told[s] /\ greetSeq'[s] = greetSeq[s]
          /\ validSeq'[s] = validSeq[s] /\ Len(chan'[s]) = Len(chan[s])
          /\ candSeq'[s] = candSeq[s] + 1 /\ lost'[s] = lost[s] + 1
      BY <1>2, <1>8 DEF Loses
    <3>3. NumbersOK(s)
      BY <1>1
    <3>4. CASE phase[s] = "sending"
      <4>a. /\ told[s] = 0 => candSeq[s] = validSeq[s] + Len(chan[s]) + lost[s] + 1
            /\ greetSeq[s] < candSeq[s]
        BY <3>3, <3>4 DEF NumbersOK
      <4>1. /\ told[s] = 0 => candSeq[s] + 1 = validSeq[s] + Len(chan[s]) + (lost[s] + 1) + 1
            /\ greetSeq[s] < candSeq[s] + 1
        <5>1. (validSeq[s] + Len(chan[s]) + lost[s] + 1) + 1 = validSeq[s] + Len(chan[s]) + (lost[s] + 1) + 1
          BY <3>1, OneMore, ZenonT(60)
        <5>2. greetSeq[s] < candSeq[s] + 1
          BY <3>1, <4>a
        <5> QED
          BY <4>a, <5>1, <5>2
      <4>2. /\ told'[s] = 0 => candSeq'[s] = validSeq'[s] + Len(chan'[s]) + lost'[s] + 1
            /\ greetSeq'[s] < candSeq'[s]
        BY <3>2, <4>1
      <4> QED
        BY <3>2, <3>4, <4>2 DEF NumbersOK
    <3>5. CASE phase[s] # "sending"
      <4>1. told[s] = 0 => candSeq[s] + 1 = validSeq[s] + Len(chan[s]) + (lost[s] + 1)
        <5>1. told[s] = 0 => candSeq[s] = validSeq[s] + Len(chan[s]) + lost[s]
          BY <2>1, <3>3, <3>5 DEF NumbersOK
        <5> QED
          <6> DEFINE v == validSeq[s]
                     l == Len(chan[s])
                     n == lost[s]
          <6>1. v \in Nat /\ l \in Nat /\ n \in Nat
            BY <3>1
          <6> HIDE DEF v, l, n
          <6>2. (v + l + n) + 1 = v + l + (n + 1)
            BY <6>1
          <6> QED
            BY <5>1, <6>2 DEF v, l, n
      <4>2. told'[s] = 0 => candSeq'[s] = validSeq'[s] + Len(chan'[s]) + lost'[s]
        BY <3>2, <4>1
      <4> QED
        BY <3>2, <3>5, <4>2 DEF NumbersOK
    <3> QED
      BY <3>4, <3>5
  <2>4. OrderOK(s)'
    <3>1. lost'[s] # 0
      BY <1>0, <1>8, StreamTypes, SMTT(40) DEF Loses
    <3> QED
      BY <1>1, <1>2, <3>1 DEF OrderOK, Going
  <2> QED
    BY <2>2, <2>3, <2>4
<1> QED
  BY <1>3, <1>5, <1>6, <1>7, <1>8

LEMMA StreamNext == StreamInv /\ [Next]_vars => StreamInv'
<1> SUFFICES ASSUME StreamInv, [Next]_vars PROVE StreamInv'
  OBVIOUS
<1>1. StateInv'
  BY StateNext DEF StreamInv
<1>2. ASSUME UNCHANGED <<phase, chan, candSeq, greetSeq, validSeq, seen, lost, told>>
      PROVE  StreamOK'
  BY <1>2, StreamFrame DEF StreamInv, StreamOK
<1>3. CASE \/ Writer \/ ReloadKeeps \/ ReloadForgets \/ UNCHANGED vars
           \/ \E p \in Subs : DropState(p)
  BY <1>1, <1>2, <1>3
  DEF StreamInv, Writer, Change, ReloadKeeps, ReloadForgets, DropState, vars, reqVars,
      clientVars
<1>4. ASSUME NEW g \in Subs, Broker(g) PROVE StreamInv'
  <2>1. CASE BrokerDispatch(g)
    BY <1>1, <2>1, StreamDispatch DEF StreamInv
  <2>2. CASE ~BrokerDispatch(g)
    BY <1>1, <1>2, <1>4, <2>2
    DEF StreamInv, Broker, BrokerCheck, BrokerDisconnected, BrokerOverflow, BrokerTableGone,
        BrokerUnhook, reqVars, clientVars
  <2> QED
    BY <2>1, <2>2
<1>5. ASSUME NEW s \in Subs,
             Request(s) \/ Cancel(s) \/ Stream(s) \/ Leave(s) \/ LeaveUnhook(s)
      PROVE  StreamInv'
  BY <1>1, <1>5, StreamRequest, StreamStream DEF StreamInv
<1> QED
  BY <1>3, <1>4, <1>5 DEF Next

LEMMA StreamInit == Init => StreamInv
<1> SUFFICES ASSUME Init PROVE StreamInv
  OBVIOUS
<1>1. StateInv
  BY StateInit
<1>2. ASSUME NEW s \in Subs PROVE QuietOK(s) /\ NumbersOK(s) /\ OrderOK(s)
  <2>1. /\ phase[s] = "idle" /\ chan[s] = <<>> /\ candSeq[s] = 0 /\ validSeq[s] = 0
        /\ seen[s] = {} /\ lost[s] = 0 /\ told[s] = 0
    BY DEF Init
  <2> QED
    BY <2>1 DEF QuietOK, NumbersOK, OrderOK, Going, Early
<1> QED
  BY <1>1, <1>2 DEF StreamInv, StreamOK

\* A WebSocket is told of a loss (validate_event) only after an event for it found
\* its channel full (broker_subscriptions): its numbers have no other gap.
THEOREM LossReportsReal == Spec => []LossReportsAreReal
<1>1. Init => StreamInv
  BY StreamInit
<1>2. StreamInv /\ [Next]_vars => StreamInv'
  BY StreamNext
<1>3. StreamInv => LossReportsAreReal
  <2> SUFFICES ASSUME StreamInv, NEW s \in Subs \ Sse, told[s] > 0 PROVE lost[s] > 0
    BY DEF LossReportsAreReal
  <2>1. QuietOK(s) /\ OrderOK(s)
    BY DEF StreamInv, StreamOK
  <2>2. told[s] # 0 /\ lost[s] \in Nat
    BY StreamTypes DEF StreamInv, StateInv, HookInv
  <2>3. Going(s)
    BY <2>1, <2>2 DEF QuietOK
  <2> QED
    BY <2>1, <2>2, <2>3 DEF OrderOK
<1> QED
  BY <1>1, <1>2, <1>3, PTL DEF Spec

-----------------------------------------------------------------------------
(* No silent gap. base[g] is the number of changes made before hook g was  *)
(* installed: its n-th call is change base[g] + n.                         *)

Aligned(base) ==
  \A g \in Subs :
    /\ broker[g] = "off" =>
         cnt[g] = 0 /\ queue[g] = <<>> /\ expected[g] = 1 /\ hook # g
    /\ broker[g] # "off" =>
         /\ base[g] + cnt[g] <= Len(changes)
         /\ hook = g => base[g] + cnt[g] = Len(changes)
         /\ \A i \in 1 .. Len(queue[g]) : queue[g][i].chg = base[g] + queue[g][i].cnt

Hooks(g) == phase[g] = "hooking" \/ (hook = g /\ BrokerRuns(g))

OneHook ==
  \A g, h \in Subs :
    home[g] = home[h] /\ home[g] \notin doubled /\ Hooks(g) /\ Hooks(h) => g = h

\* The changes that reached a stream, and those ahead of the i-th in its channel.
Heard(s) == seen[s] \cup {chan[s][j].chg : j \in 1 .. Len(chan[s])}
Before(s, i) == seen[s] \cup {chan[s][j].chg : j \in 1 .. i - 1}

Listens(s) == Going(s) /\ home[s] \notin doubled /\ s \in listed[home[s]]

\* A broker that may have a change for s that was made after s subscribed.
Serves(base, g, s) ==
  /\ home[g] = home[s]
  /\ BrokerRuns(g)
  /\ hook = g \/ base[g] + cnt[g] > since[s]

HeardOK(s) == \A a \in Heard(s) : a <= Len(changes)

\* One broker serves a subscription; none while the hook is still to come.
OneBroker(base, s) ==
  Listens(s) =>
    /\ \A g, h \in Subs : Serves(base, g, s) /\ Serves(base, h, s) => g = h
    /\ (\E h \in Subs : home[h] = home[s] /\ phase[h] = "hooking") =>
         /\ \A g \in Subs : ~Serves(base, g, s)
         /\ \A a \in Heard(s) : a <= since[s]

\* Change n comes after those of S, and none in between is missing.
Continues(s, S, n) ==
  \A a \in S : since[s] < a =>
    /\ a < n
    /\ \A c \in (a + 1) .. (n - 1) : Matches(s, c) => c \in S

\* The next number that s is given is the one it will expect.
Calm(s) ==
  /\ told[s] = 0 /\ lost[s] = 0
  /\ InOrder(s, Len(chan[s]))
  /\ phase[s] = "sending" => greetSeq[s] = validSeq[s] + Len(chan[s])

NextOK(base, s) ==
  \A g \in Subs : Listens(s) /\ Serves(base, g, s) /\ Calm(s) =>
    Continues(s, Heard(s), base[g] + expected[g])

ChanOK(s) ==
  told[s] = 0 /\ home[s] \notin doubled =>
    \A i \in 1 .. Len(chan[s]) : InOrder(s, i) /\ since[s] < chan[s][i].chg =>
      Continues(s, Before(s, i), chan[s][i].chg)

GapFree(s) ==
  told[s] = 0 /\ home[s] \notin doubled =>
    \A a, b \in seen[s] : since[s] < a => \A c \in (a + 1) .. (b - 1) :
      Matches(s, c) => c \in seen[s]

ClientOK(base, s) ==
  HeardOK(s) /\ OneBroker(base, s) /\ NextOK(base, s) /\ ChanOK(s) /\ GapFree(s)

GapOK(base) == Aligned(base) /\ OneHook /\ \A s \in Subs : ClientOK(base, s)

GapInv == StreamInv /\ \E base \in [Subs -> Nat] : GapOK(base)

LEMMA GapTypes ==
  ASSUME TypeOK
  PROVE  /\ home \in [Subs -> Subs \cup {None}] /\ listed \in [Subs -> SUBSET Subs]
         /\ hook \in Subs \cup {None} /\ None \notin Subs
         /\ broker \in [Subs -> BrokerPlaces] /\ cnt \in [Subs -> Nat]
         /\ expected \in [Subs -> Nat] /\ queue \in [Subs -> Seq(HookEvents)]
         /\ Len(changes) \in Nat
         /\ \A g \in Subs : /\ Len(queue[g]) \in Nat
                            /\ \A i \in 1 .. Len(queue[g]) :
                                 queue[g][i].cnt \in Nat /\ queue[g][i].chg \in Nat
<1>1. /\ home \in [Subs -> Subs \cup {None}] /\ listed \in [Subs -> SUBSET Subs]
      /\ hook \in Subs \cup {None} /\ None \notin Subs
      /\ broker \in [Subs -> BrokerPlaces] /\ cnt \in [Subs -> Nat]
      /\ expected \in [Subs -> Nat] /\ queue \in [Subs -> Seq(HookEvents)]
  BY ConstantsAssumption
  DEF TypeOK, ReqTypeOK, StateTypeOK, ConnTypeOK, HookTypeOK
<1>2. Len(changes) \in Nat
  BY DEF TypeOK, ConnTypeOK
<1>3. ASSUME NEW g \in Subs, NEW i \in 1 .. Len(queue[g])
      PROVE  queue[g][i].cnt \in Nat /\ queue[g][i].chg \in Nat
  <2>1. queue[g][i] \in HookEvents
    BY <1>1
  <2> QED
    BY <2>1, ConstantsAssumption DEF HookEvents, Changes
<1>4. \A g \in Subs : Len(queue[g]) \in Nat
  BY <1>1
<1> QED
  BY <1>1, <1>2, <1>3, <1>4

LEMMA GapInit == Init => GapInv
<1> SUFFICES ASSUME Init PROVE GapInv
  OBVIOUS
<1>1. StreamInv
  BY StreamInit
<1> DEFINE base == [g \in Subs |-> 0]
<1>2. base \in [Subs -> Nat]
  OBVIOUS
<1>3. Aligned(base)
  BY ConstantsAssumption DEF Init, Aligned
<1>4. OneHook
  BY DEF Init, OneHook, Hooks, BrokerRuns
<1>5. ASSUME NEW s \in Subs PROVE ClientOK(base, s)
  <2>1. /\ ~Going(s) /\ chan[s] = <<>> /\ seen[s] = {}
    BY DEF Init, Going
  <2>2. Heard(s) = {}
    BY <2>1 DEF Heard
  <2> QED
    BY <2>1, <2>2 DEF ClientOK, HeardOK, OneBroker, NextOK, ChanOK, GapFree, Listens
<1> QED
  BY <1>1, <1>2, <1>3, <1>4, <1>5 DEF GapInv, GapOK

\* A request that has not subscribed, or is gone, observes nothing.
LEMMA ClientGone ==
  ASSUME StreamInv', NEW base, NEW s \in Subs, ~Going(s)'
  PROVE  ClientOK(base, s)'
<1>1. chan'[s] = <<>> /\ seen'[s] = {}
  BY DEF StreamInv, StreamOK, QuietOK
<1>2. Heard(s)' = {}
  BY <1>1 DEF Heard
<1> QED
  BY <1>1, <1>2 DEF ClientOK, HeardOK, OneBroker, NextOK, ChanOK, GapFree, Listens

-----------------------------------------------------------------------------
(* Steps that leave what is under way alone.                               *)

SystemQuiet ==
  /\ UNCHANGED <<changes, cnt, expected, doubled>>
  /\ hook' \in {hook, None}
  /\ \A g \in Subs : BrokerRuns(g)' => BrokerRuns(g)
  /\ \A g \in Subs : broker'[g] = "off" <=> broker[g] = "off"
  /\ \A g \in Subs : queue'[g] \in {queue[g], <<>>}
  /\ \A p \in Subs : listed'[p] \subseteq listed[p]
  /\ \A s \in Subs : Early(s) \/ home'[s] = home[s]
  /\ \A s \in Subs : phase'[s] = "hooking" => phase[s] = "hooking"
  /\ \A s \in Subs : Going(s)' => Going(s)

StreamKept(s) ==
  /\ UNCHANGED <<chan[s], validSeq[s], seen[s], lost[s], told[s], since[s], greetSeq[s]>>
  /\ phase'[s] = "sending" <=> phase[s] = "sending"

LEMMA SystemKept ==
  ASSUME GapInv, StreamInv', SystemQuiet, NEW base \in [Subs -> Nat], GapOK(base)
  PROVE  /\ Aligned(base)' /\ OneHook'
         /\ \A s \in Subs : Listens(s)' => Listens(s) /\ home'[s] = home[s]
         /\ \A s, g \in Subs :
              Going(s)' /\ since'[s] = since[s] /\ Serves(base, g, s)' => Serves(base, g, s)
         /\ \A s, h \in Subs :
              Going(s)' /\ home'[h] = home'[s] /\ phase'[h] = "hooking" =>
                home[h] = home[s] /\ phase[h] = "hooking"
<1>0. StateInv /\ StateInv' /\ TypeOK /\ TypeOK'
  BY DEF GapInv, StreamInv, StateInv, HookInv
<1>1. \A g \in Subs : BrokerRuns(g) \/ phase[g] = "hooking" \/ Going(g) =>
        ~Early(g) /\ home'[g] = home[g]
  BY <1>0, BrokerHome DEF SystemQuiet, BrokerRuns, Early, Going
<1>2. Aligned(base)'
  <2> SUFFICES ASSUME NEW g \in Subs
               PROVE  /\ broker'[g] = "off" =>
                           cnt'[g] = 0 /\ queue'[g] = <<>> /\ expected'[g] = 1 /\ hook' # g
                      /\ broker'[g] # "off" =>
                           /\ base[g] + cnt'[g] <= Len(changes')
                           /\ hook' = g => base[g] + cnt'[g] = Len(changes')
                           /\ \A i \in 1 .. Len(queue'[g]) :
                                queue'[g][i].chg = base[g] + queue'[g][i].cnt
    BY DEF Aligned
  <2>1. hook' = g => hook = g
    BY <1>0, GapTypes DEF SystemQuiet
  <2> QED
    BY <2>1 DEF SystemQuiet, GapOK, Aligned
<1>3. \A g \in Subs : Hooks(g)' => Hooks(g)
  BY <1>0, GapTypes DEF SystemQuiet, Hooks
<1>4. OneHook'
  <2> SUFFICES ASSUME NEW g \in Subs, NEW h \in Subs, home'[g] = home'[h],
                      home'[g] \notin doubled', Hooks(g)', Hooks(h)'
               PROVE  g = h
    BY DEF OneHook
  <2>1. Hooks(g) /\ Hooks(h)
    BY <1>3
  <2>2. home'[g] = home[g] /\ home'[h] = home[h]
    BY <1>1, <2>1 DEF Hooks
  <2> QED
    BY <2>1, <2>2 DEF GapOK, OneHook, SystemQuiet
<1>5. ASSUME NEW s \in Subs, Going(s)' PROVE Going(s) /\ home'[s] = home[s]
  BY <1>1, <1>5 DEF SystemQuiet
<1>6. ASSUME NEW s \in Subs, Listens(s)' PROVE Listens(s) /\ home'[s] = home[s]
  <2>1. Going(s) /\ home'[s] = home[s]
    BY <1>5, <1>6 DEF Listens
  <2>2. home[s] \in Subs
    BY <1>0, <2>1 DEF Going, StateInv, HomeOK
  <2> QED
    BY <1>6, <2>1, <2>2 DEF Listens, SystemQuiet
<1>7. ASSUME NEW s \in Subs, NEW g \in Subs, Going(s)', since'[s] = since[s],
             Serves(base, g, s)'
      PROVE  Serves(base, g, s)
  <2>1. BrokerRuns(g) /\ home'[g] = home[g] /\ home'[s] = home[s]
    BY <1>1, <1>5, <1>7 DEF Serves, SystemQuiet
  <2>2. hook' = g => hook = g
    BY <1>0, GapTypes DEF SystemQuiet
  <2> QED
    BY <1>7, <2>1, <2>2 DEF Serves, SystemQuiet
<1>8. ASSUME NEW s \in Subs, NEW h \in Subs, Going(s)', home'[h] = home'[s],
             phase'[h] = "hooking"
      PROVE  home[h] = home[s] /\ phase[h] = "hooking"
  BY <1>1, <1>5, <1>8 DEF SystemQuiet
<1> QED
  BY <1>2, <1>4, <1>6, <1>7, <1>8

\* What one client observed is not affected by a step of others.
LEMMA ClientKept ==
  ASSUME GapInv, StreamInv', SystemQuiet, NEW base \in [Subs -> Nat], GapOK(base),
         NEW s \in Subs, StreamKept(s)
  PROVE  ClientOK(base, s)'
<1>1. CASE ~Going(s)'
  BY <1>1, ClientGone
<1>2. CASE Going(s)'
  <2>1. ClientOK(base, s)
    BY DEF GapOK
  <2>2. /\ Listens(s)' => Listens(s)
        /\ \A g \in Subs : Serves(base, g, s)' => Serves(base, g, s)
        /\ (\E h \in Subs : home[h] = home[s] /\ phase[h] = "hooking")'
             => \E h \in Subs : home[h] = home[s] /\ phase[h] = "hooking"
    BY <1>2, SystemKept DEF StreamKept
  <2>3. /\ Heard(s)' = Heard(s) /\ \A i : Before(s, i)' = Before(s, i)
    BY DEF Heard, Before, StreamKept
  <2>4. \A i : InOrder(s, i)' <=> InOrder(s, i)
    BY DEF InOrder, StreamKept
  <2>5. \A c : Matches(s, c)' <=> Matches(s, c)
    BY DEF Matches, SystemQuiet
  <2>6. \A S, n : Continues(s, S, n)' <=> Continues(s, S, n)
    BY <2>5 DEF Continues, StreamKept
  <2>7. home'[s] = home[s] /\ UNCHANGED <<doubled, changes, expected>>
    BY <1>2 DEF SystemQuiet, Going, Early
  <2>8. HeardOK(s)'
    BY <2>1, <2>3, <2>7 DEF ClientOK, HeardOK
  <2>9. OneBroker(base, s)'
    BY <2>1, <2>2, <2>3 DEF ClientOK, OneBroker, StreamKept
  <2>10. NextOK(base, s)'
    <3>1. Calm(s)' => Calm(s)
      BY <2>4 DEF Calm, StreamKept
    <3> QED
      BY <2>1, <2>2, <2>3, <2>6, <2>7, <3>1 DEF ClientOK, NextOK
  <2>11. ChanOK(s)'
    BY <2>1, <2>3, <2>4, <2>6, <2>7 DEF ClientOK, ChanOK, StreamKept
  <2>12. GapFree(s)'
    BY <2>1, <2>5, <2>7 DEF ClientOK, GapFree, StreamKept
  <2> QED
    BY <2>8, <2>9, <2>10, <2>11, <2>12 DEF ClientOK
<1> QED
  BY <1>1, <1>2

LEMMA GapQuiet ==
  ASSUME GapInv, StreamInv', SystemQuiet, \A s \in Subs : Going(s)' => StreamKept(s)
  PROVE  GapInv'
<1> PICK base \in [Subs -> Nat] : GapOK(base)
  BY DEF GapInv
<1>1. \A s \in Subs : ClientOK(base, s)'
  BY ClientKept, ClientGone
<1>2. Aligned(base)' /\ OneHook'
  BY SystemKept
<1> QED
  BY <1>1, <1>2 DEF GapInv, GapOK

LEMMA GapQuietSteps ==
  ASSUME GapInv, StreamInv',
         \/ \E s \in Subs : Lookup(s) \/ Attach(s) \/ RecordNotFound(s) \/ Cancel(s)
                            \/ Leave(s) \/ LeaveUnhook(s)
         \/ \E g \in Subs : BrokerCheck(g) \/ BrokerDisconnected(g) \/ BrokerOverflow(g)
                            \/ BrokerUnhook(g)
         \/ ReloadKeeps \/ ReloadForgets \/ (\E p \in Subs : DropState(p)) \/ UNCHANGED vars
  PROVE  GapInv'
<1>0. StateInv /\ TypeOK
  BY DEF GapInv, StreamInv, StateInv, HookInv
<1>1. CASE \/ \E s \in Subs : Lookup(s) \/ Attach(s) \/ RecordNotFound(s) \/ Cancel(s)
                              \/ Leave(s) \/ LeaveUnhook(s)
  <2> PICK s \in Subs : \/ Lookup(s) \/ Attach(s) \/ RecordNotFound(s) \/ Cancel(s)
                        \/ Leave(s) \/ LeaveUnhook(s)
    BY <1>1, SMTT(40)
  <2>1. /\ UNCHANGED <<changes, cnt, expected, doubled, queue, broker>>
        /\ hook' \in {hook, None}
        /\ home' = home \/ (phase[s] = "found" /\ \E h : home' = [home EXCEPT ![s] = h])
    BY DEF Lookup, Attach, RecordNotFound, Cancel, Leave, LeaveUnhook, EndStream, connVars,
           hookVars, clientVars
  <2>2. \A p \in Subs : listed'[p] \subseteq listed[p]
    <3>1. UNCHANGED listed \/ listed' = [listed EXCEPT ![home[s]] = Without(s)]
      BY SMTT(40) DEF Lookup, Attach, RecordNotFound, Cancel, Leave, LeaveUnhook, stateVars
    <3> QED
      BY <1>0, <3>1, GapTypes DEF Without
  <2>3. \E q \in {"found", "attached", "closed", "abandoned", "unhooking"} :
          phase' = [phase EXCEPT ![s] = q]
    BY DEF Lookup, Attach, RecordNotFound, Cancel, Leave, LeaveUnhook
  <2>4. \A o \in Subs : /\ phase'[o] = "hooking" => phase[o] = "hooking"
                        /\ Going(o)' => Going(o) /\ o # s
                        /\ o # s => phase'[o] = phase[o]
    BY <1>0, <2>3, StreamTypes DEF Going
  <2>5. \A o \in Subs : Early(o) \/ home'[o] = home[o]
    BY <1>0, <2>1, GapTypes DEF Early
  <2>6. SystemQuiet
    BY <2>1, <2>2, <2>4, <2>5, SMTT(40) DEF SystemQuiet, BrokerRuns
  <2>7. \A o \in Subs : o # s =>
          UNCHANGED <<chan[o], validSeq[o], seen[o], lost[o], told[o], since[o], greetSeq[o]>>
    BY <1>0, StreamTypes, SMTT(40)
    DEF Lookup, Attach, RecordNotFound, Cancel, Leave, LeaveUnhook, EndStream, clientVars
  <2> QED
    BY <2>4, <2>6, <2>7, GapQuiet DEF StreamKept
<1>2. CASE \E g \in Subs : BrokerCheck(g) \/ BrokerDisconnected(g) \/ BrokerOverflow(g)
                           \/ BrokerUnhook(g)
  <2> PICK g \in Subs : BrokerCheck(g) \/ BrokerDisconnected(g) \/ BrokerOverflow(g)
                        \/ BrokerUnhook(g)
    BY <1>2
  <2>1. /\ UNCHANGED <<changes, cnt, expected, reqVars, clientVars>>
        /\ hook' \in {hook, None} /\ BrokerRuns(g)
        /\ \E b \in {"check", "recv", "done"} : broker' = [broker EXCEPT ![g] = b]
        /\ queue' = queue \/ queue' = [queue EXCEPT ![g] = <<>>]
    BY DEF BrokerCheck, BrokerDisconnected, BrokerOverflow, BrokerUnhook, connVars, BrokerRuns
  <2>2. \A p \in Subs : listed'[p] \subseteq listed[p]
    <3>1. UNCHANGED listed \/ listed' = [listed EXCEPT ![home[g]] = {}]
      BY DEF BrokerCheck, BrokerDisconnected, BrokerOverflow, BrokerUnhook, stateVars
    <3> QED
      BY <1>0, <3>1, GapTypes
  <2>3. \A o \in Subs : /\ BrokerRuns(o)' => BrokerRuns(o)
                        /\ broker'[o] = "off" <=> broker[o] = "off"
                        /\ queue'[o] \in {queue[o], <<>>}
    BY <1>0, <2>1, GapTypes DEF BrokerRuns
  <2>4. SystemQuiet
    BY <2>1, <2>2, <2>3 DEF SystemQuiet, reqVars, clientVars, Going
  <2> QED
    BY <2>1, <2>4, GapQuiet DEF StreamKept, reqVars, clientVars
<1>3. CASE ReloadKeeps \/ ReloadForgets \/ (\E p \in Subs : DropState(p)) \/ UNCHANGED vars
  <2>1. /\ UNCHANGED <<changes, hookVars, listed, reqVars, clientVars>>
        /\ hook' \in {hook, None}
    BY <1>3 DEF ReloadKeeps, ReloadForgets, DropState, vars, connVars, stateVars
  <2>2. SystemQuiet
    BY <2>1 DEF SystemQuiet, reqVars, clientVars, hookVars, Going, BrokerRuns
  <2> QED
    BY <2>1, <2>2, GapQuiet DEF StreamKept, reqVars, clientVars
<1> QED
  BY <1>1, <1>2, <1>3

-----------------------------------------------------------------------------
(* Steps of one stream.                                                    *)

\* What to show of the stream that takes a step nobody else notices.
LEMMA GapOfOne ==
  ASSUME GapInv, StreamInv', SystemQuiet, NEW s \in Subs,
         \A o \in Subs \ {s} : StreamKept(o),
         \A base \in [Subs -> Nat] : GapOK(base) => ClientOK(base, s)'
  PROVE  GapInv'
<1> PICK base \in [Subs -> Nat] : GapOK(base)
  BY DEF GapInv
<1>1. \A o \in Subs : ClientOK(base, o)'
  BY ClientKept
<1>2. Aligned(base)' /\ OneHook'
  BY SystemKept
<1> QED
  BY <1>1, <1>2 DEF GapInv, GapOK

\* A stream's own step: nothing of the system changes.
LEMMA StreamStepQuiet ==
  ASSUME GapInv, NEW s \in Subs, TakeGreetSeq(s) \/ SendGreeting(s) \/ Stream(s)
  PROVE  SystemQuiet /\ \A o \in Subs \ {s} : StreamKept(o)
<1>0. TypeOK
  BY DEF GapInv, StreamInv, StateInv, HookInv
<1>1. UNCHANGED <<changes, cnt, expected, doubled, hook, broker, queue, listed, home>>
  BY DEF TakeGreetSeq, SendGreeting, Stream, ReceiveInSeq, ReceiveOutOfSeq, connVars,
         hookVars, stateVars, clientVars
<1>2. /\ phase[s] \in {"greeting", "sending", "streaming"}
      /\ phase'[s] \in {"sending", "streaming", "ending"}
      /\ \A o \in Subs \ {s} : phase'[o] = phase[o]
  BY <1>0, StreamTypes DEF TakeGreetSeq, SendGreeting, Stream, ReceiveInSeq, ReceiveOutOfSeq
<1>3. SystemQuiet
  BY <1>1, <1>2 DEF SystemQuiet, BrokerRuns, Going
<1>4. \A o \in Subs \ {s} :
        UNCHANGED <<chan[o], validSeq[o], seen[o], lost[o], told[o], since[o], greetSeq[o]>>
  BY <1>0, StreamTypes, SMTT(40)
  DEF TakeGreetSeq, SendGreeting, Stream, ReceiveInSeq, ReceiveOutOfSeq, clientVars
<1> QED
  BY <1>2, <1>3, <1>4 DEF StreamKept

\* What was heard shrinks by the number of an "established" event, grows by a change
\* made before the client subscribed, or moves on to the next change.
LEMMA ContinuesCut ==
  ASSUME TypeOK, NEW s \in Subs, NEW S, NEW T \in SUBSET S, NEW n, Continues(s, S, n),
         \A c \in S : c \in Nat, \A c \in S : c \in T \/ c = 0
  PROVE  Continues(s, T, n)
<1> SUFFICES ASSUME NEW a \in T, since[s] < a
             PROVE  a < n /\ \A c \in (a + 1) .. (n - 1) : Matches(s, c) => c \in T
  BY DEF Continues
<1>1. a \in S /\ a \in Nat
  OBVIOUS
<1>2. a < n /\ \A c \in (a + 1) .. (n - 1) : Matches(s, c) => c \in S
  BY <1>1 DEF Continues
<1>3. \A c \in (a + 1) .. (n - 1) : c # 0
  BY <1>1
<1> QED
  BY <1>2, <1>3

LEMMA ContinuesOld ==
  ASSUME NEW s \in Subs, NEW S, NEW n, Continues(s, S, n), NEW x, ~(since[s] < x)
  PROVE  Continues(s, S \cup {x}, n)
  BY DEF Continues

LEMMA ContinuesNext ==
  ASSUME TypeOK, NEW s \in Subs, NEW S, NEW n \in Nat, Continues(s, S, n),
         \A c \in S : c \in Nat, NEW T, S \subseteq T, T \subseteq S \cup {n},
         Matches(s, n) => n \in T
  PROVE  Continues(s, T, n + 1)
<1> SUFFICES ASSUME NEW a \in T, since[s] < a
             PROVE  a < n + 1 /\ \A c \in (a + 1) .. n : Matches(s, c) => c \in T
  BY DEF Continues
<1>1. CASE a \in S
  <2>1. a \in Nat /\ a < n /\ \A c \in (a + 1) .. (n - 1) : Matches(s, c) => c \in S
    BY <1>1 DEF Continues
  <2>2. \A c \in (a + 1) .. n : c \in (a + 1) .. (n - 1) \/ c = n
    BY <2>1
  <2> QED
    BY <2>1, <2>2
<1>2. CASE a = n
  BY <1>2
<1> QED
  BY <1>1, <1>2

\* What a client observed are numbers of changes.
LEMMA HeardTypes ==
  ASSUME TypeOK, NEW s \in Subs
  PROVE  /\ \A a \in Heard(s) : a \in Nat
         /\ \A a \in seen[s] : a \in Nat /\ a # 0
         /\ seen[s] \subseteq Heard(s)
<1>1. \A a \in seen[s] : a \in Nat /\ a # 0
  BY StreamTypes DEF Changes
<1>2. \A j \in 1 .. Len(chan[s]) : chan[s][j].chg \in Nat
  BY StreamTypes
<1>3. \A a \in Heard(s) : a \in Nat
  BY <1>1, <1>2 DEF Heard
<1> QED
  BY <1>1, <1>3 DEF Heard

\* What a stream's own step leaves of the system it listens to.
LEMMA OwnStep ==
  ASSUME GapInv, StreamInv', NEW s \in Subs, TakeGreetSeq(s) \/ SendGreeting(s) \/ Stream(s),
         NEW base \in [Subs -> Nat], GapOK(base)
  PROVE  /\ Listens(s)' => Listens(s)
         /\ \A g \in Subs : Serves(base, g, s)' => Serves(base, g, s)
         /\ (\E h \in Subs : home[h] = home[s] /\ phase[h] = "hooking")'
              => \E h \in Subs : home[h] = home[s] /\ phase[h] = "hooking"
         /\ \A S, n : Continues(s, S, n)' <=> Continues(s, S, n)
         /\ \A c : Matches(s, c)' <=> Matches(s, c)
         /\ UNCHANGED <<home, doubled, changes, expected, since>>
<1>0. TypeOK
  BY DEF GapInv, StreamInv, StateInv, HookInv
<1>1. UNCHANGED <<home, doubled, changes, expected, since>>
  BY DEF TakeGreetSeq, SendGreeting, Stream, ReceiveInSeq, ReceiveOutOfSeq, connVars,
         hookVars, clientVars
<1>2. Going(s)'
  BY <1>0, StreamTypes DEF TakeGreetSeq, SendGreeting, Stream, ReceiveInSeq, ReceiveOutOfSeq,
                           Going
<1>3. \A c : Matches(s, c)' <=> Matches(s, c)
  BY <1>1 DEF Matches
<1>4. \A S, n : Continues(s, S, n)' <=> Continues(s, S, n)
  BY <1>1, <1>3 DEF Continues
<1>5. SystemQuiet
  BY StreamStepQuiet
<1> QED
  BY <1>1, <1>2, <1>3, <1>4, <1>5, SystemKept

LEMMA GapGreet ==
  ASSUME GapInv, StreamInv', NEW s \in Subs, TakeGreetSeq(s),
         NEW base \in [Subs -> Nat], GapOK(base)
  PROVE  ClientOK(base, s)'
<1>0. TypeOK /\ ClientOK(base, s)
  BY DEF GapInv, StreamInv, StateInv, HookInv, GapOK
<1>1. /\ UNCHANGED <<chan, validSeq, seen, lost, told>>
      /\ phase[s] = "greeting" /\ phase'[s] = "sending"
  BY <1>0, StreamTypes DEF TakeGreetSeq, clientVars
<1>2. /\ Heard(s)' = Heard(s) /\ \A i : Before(s, i)' = Before(s, i)
      /\ \A i : InOrder(s, i)' <=> InOrder(s, i)
  BY <1>1 DEF Heard, Before, InOrder
<1>3. Calm(s)' => Calm(s)
  BY <1>1, <1>2 DEF Calm
<1>4. HeardOK(s)' /\ OneBroker(base, s)'
  BY <1>0, <1>2, OwnStep DEF ClientOK, HeardOK, OneBroker
<1>5. NextOK(base, s)'
  BY <1>0, <1>2, <1>3, OwnStep DEF ClientOK, NextOK
<1>6. ChanOK(s)'
  BY <1>0, <1>1, <1>2, OwnStep DEF ClientOK, ChanOK
<1>7. GapFree(s)'
  BY <1>0, <1>1, <1>2, OwnStep DEF ClientOK, GapFree
<1> QED
  BY <1>4, <1>5, <1>6, <1>7 DEF ClientOK

LEMMA GapOutOfSeq ==
  ASSUME GapInv, StreamInv', NEW s \in Subs, ReceiveOutOfSeq(s),
         NEW base \in [Subs -> Nat], GapOK(base)
  PROVE  ClientOK(base, s)'
<1>0. TypeOK /\ ClientOK(base, s)
  BY DEF GapInv, StreamInv, StateInv, HookInv, GapOK
<1>1. /\ seen' = seen /\ told'[s] = told[s] + 1 /\ told[s] \in Nat
      /\ chan'[s] = Tail(chan[s]) /\ chan[s] # <<>>
  BY <1>0, StreamTypes DEF ReceiveOutOfSeq
<1>2. told'[s] # 0
  BY <1>1
<1>3. /\ Len(chan[s]) \in Nat /\ Len(chan'[s]) = Len(chan[s]) - 1
      /\ \A i \in 1 .. Len(chan[s]) - 1 : chan'[s][i] = chan[s][i + 1]
  BY <1>0, <1>1, StreamTypes, TailElements
<1>4. Heard(s)' \subseteq Heard(s)
  BY <1>1, <1>3 DEF Heard
<1>a. Stream(s)
  BY DEF Stream
<1>5. HeardOK(s)' /\ OneBroker(base, s)'
  BY <1>0, <1>a, <1>4, OwnStep DEF ClientOK, HeardOK, OneBroker
<1>6. NextOK(base, s)' /\ ChanOK(s)' /\ GapFree(s)'
  BY <1>2 DEF NextOK, Calm, ChanOK, GapFree
<1> QED
  BY <1>5, <1>6 DEF ClientOK

LEMMA GapSend ==
  ASSUME GapInv, StreamInv', NEW s \in Subs, SendGreeting(s),
         NEW base \in [Subs -> Nat], GapOK(base)
  PROVE  ClientOK(base, s)'
<1> DEFINE e == [seq |-> greetSeq[s], chg |-> Established]
<1>0. TypeOK /\ ClientOK(base, s)
  BY DEF GapInv, StreamInv, StateInv, HookInv, GapOK
<1>1. /\ UNCHANGED <<validSeq, seen, lost, told>>
      /\ phase[s] = "sending" /\ phase'[s] = "streaming"
      /\ chan'[s] = Append(chan[s], e)
  BY <1>0, StreamTypes DEF SendGreeting, clientVars
<1>2. e \in Candidates /\ e.chg = 0 /\ e.seq = greetSeq[s]
  BY <1>0, StreamTypes DEF Candidates, Established
<1> HIDE DEF e
<1>3. /\ Len(chan[s]) \in Nat /\ Len(chan'[s]) = Len(chan[s]) + 1
      /\ \A i \in 1 .. Len(chan[s]) : chan'[s][i] = chan[s][i]
      /\ chan'[s][Len(chan[s]) + 1] = e
  BY <1>0, <1>1, <1>2, StreamTypes, AppendElements
<1>4. Heard(s)' = Heard(s) \cup {0}
  <2>1. {chan'[s][j].chg : j \in 1 .. Len(chan'[s])}
          = {chan[s][j].chg : j \in 1 .. Len(chan[s])} \cup {0}
    <3>1. 1 .. Len(chan'[s]) = 1 .. Len(chan[s]) \cup {Len(chan[s]) + 1}
      BY <1>3
    <3>2. chan'[s][Len(chan[s]) + 1].chg = 0
      BY <1>2, <1>3
    <3> QED
      BY <1>3, <3>1, <3>2
  <2> QED
    BY <1>1, <2>1 DEF Heard
<1>5. \A i \in 1 .. Len(chan[s]) : Before(s, i)' = Before(s, i)
  BY <1>1, <1>3 DEF Before
<1>6. \A i \in 1 .. Len(chan[s]) : InOrder(s, i)' <=> InOrder(s, i)
  BY <1>1, <1>3 DEF InOrder
<1>7. Calm(s)' => Calm(s)
  <2> SUFFICES ASSUME Calm(s)' PROVE Calm(s)
    OBVIOUS
  <2>1. chan'[s][Len(chan[s]) + 1].seq = validSeq[s] + (Len(chan[s]) + 1) - 1
    BY <1>1, <1>3 DEF Calm, InOrder
  <2>2. greetSeq[s] = validSeq[s] + Len(chan[s])
    BY <1>0, <1>2, <1>3, <2>1, StreamNumbers
  <2>3. InOrder(s, Len(chan[s]))
    BY <1>1, <1>3 DEF Calm, InOrder
  <2> QED
    BY <1>1, <2>2, <2>3 DEF Calm
<1>8. ~(since[s] < 0) /\ since[s] \in Nat
  BY <1>0, StreamTypes
<1>9. HeardOK(s)' /\ OneBroker(base, s)'
  <2>1. Len(changes) \in Nat
    BY <1>0, GapTypes
  <2> QED
    BY <1>0, <1>4, <1>8, <2>1, OwnStep DEF ClientOK, HeardOK, OneBroker
<1>10. NextOK(base, s)'
  <2> SUFFICES ASSUME NEW g \in Subs, Listens(s)', Serves(base, g, s)', Calm(s)'
               PROVE  Continues(s, Heard(s), base[g] + expected[g])'
    BY DEF NextOK
  <2>1. Continues(s, Heard(s), base[g] + expected[g])
    BY <1>0, <1>7, OwnStep DEF ClientOK, NextOK
  <2>2. Continues(s, Heard(s) \cup {0}, base[g] + expected[g])
    BY <1>8, <2>1, ContinuesOld
  <2> QED
    BY <1>4, <2>2, OwnStep
<1>11. ChanOK(s)'
  <2> SUFFICES ASSUME told'[s] = 0, home'[s] \notin doubled', NEW i \in 1 .. Len(chan'[s]),
                      InOrder(s, i)', since'[s] < chan'[s][i].chg
               PROVE  Continues(s, Before(s, i), chan[s][i].chg)'
    BY DEF ChanOK
  <2>1. i \in 1 .. Len(chan[s])
    BY <1>2, <1>3, <1>8, OwnStep
  <2> QED
    <3>1. Continues(s, Before(s, i), chan[s][i].chg)
      BY <1>0, <1>1, <1>3, <1>6, <2>1, OwnStep DEF ClientOK, ChanOK
    <3>2. Before(s, i)' = Before(s, i) /\ chan'[s][i].chg = chan[s][i].chg
      BY <1>3, <1>5, <2>1
    <3> QED
      BY <3>1, <3>2, OwnStep
<1>12. GapFree(s)'
  BY <1>0, <1>1, OwnStep DEF ClientOK, GapFree
<1> QED
  BY <1>9, <1>10, <1>11, <1>12 DEF ClientOK

LEMMA GapInSeq ==
  ASSUME GapInv, StreamInv', NEW s \in Subs, ReceiveInSeq(s),
         NEW base \in [Subs -> Nat], GapOK(base)
  PROVE  ClientOK(base, s)'
<1>0. TypeOK /\ ClientOK(base, s)
  BY DEF GapInv, StreamInv, StateInv, HookInv, GapOK
<1> DEFINE x == chan[s][1].chg
<1>1. /\ UNCHANGED <<lost, told>>
      /\ phase[s] = "streaming" /\ phase'[s] \in {"streaming", "ending"}
      /\ chan[s] # <<>> /\ Head(chan[s]).seq = validSeq[s]
      /\ chan'[s] = Tail(chan[s]) /\ validSeq'[s] = validSeq[s] + 1
      /\ seen'[s] = seen[s] \cup ({Head(chan[s]).chg} \ {0})
  BY <1>0, StreamTypes DEF ReceiveInSeq, Established
<1>2. /\ Head(chan[s]) = chan[s][1] /\ 1 \in 1 .. Len(chan[s])
      /\ Len(chan[s]) \in Nat /\ Len(chan'[s]) = Len(chan[s]) - 1
      /\ \A i \in 1 .. Len(chan[s]) - 1 : chan'[s][i] = chan[s][i + 1]
  BY <1>0, <1>1, StreamTypes, TailElements
<1>3. /\ x \in Nat /\ validSeq[s] \in Nat /\ since[s] \in Nat
      /\ seen'[s] = seen[s] \cup ({x} \ {0})
  BY <1>0, <1>1, <1>2, StreamTypes
<1> HIDE DEF x
<1>a. Stream(s)
  BY DEF Stream
<1>4. Heard(s)' \subseteq Heard(s) /\ \A a \in Heard(s) : a \in Heard(s)' \/ a = 0
  <2>1. ASSUME NEW j \in 1 .. Len(chan[s])
        PROVE  j = 1 \/ (j - 1 \in 1 .. Len(chan'[s]) /\ chan'[s][j - 1] = chan[s][j])
    <3>1. CASE j # 1
      <4>1. j - 1 \in 1 .. Len(chan[s]) - 1 /\ (j - 1) + 1 = j
        BY <1>2, <3>1
      <4> QED
        BY <1>2, <4>1
    <3> QED
      BY <3>1
  <2>2. ASSUME NEW j \in 1 .. Len(chan'[s])
        PROVE  j + 1 \in 1 .. Len(chan[s]) /\ chan'[s][j] = chan[s][j + 1]
    BY <1>2
  <2>3. ASSUME NEW a \in Heard(s)' PROVE a \in Heard(s)
    BY <1>2, <1>3, <2>2, SMTT(40) DEF Heard, x
  <2>4. ASSUME NEW a \in Heard(s), a # 0 PROVE a \in Heard(s)'
    <3>1. CASE a \in seen[s]
      BY <1>3, <3>1 DEF Heard
    <3>2. ASSUME NEW j \in 1 .. Len(chan[s]), a = chan[s][j].chg PROVE a \in Heard(s)'
      <4>1. CASE j = 1
        BY <1>3, <2>4, <3>2, <4>1 DEF Heard, x
      <4>2. CASE j # 1
        BY <2>1, <3>2, <4>2 DEF Heard
      <4> QED
        BY <4>1, <4>2
    <3> QED
      BY <3>1, <3>2 DEF Heard
  <2> QED
    BY <2>3, <2>4
<1>5. ASSUME NEW i \in 1 .. Len(chan'[s])
      PROVE  /\ i + 1 \in 1 .. Len(chan[s]) /\ chan'[s][i] = chan[s][i + 1]
             /\ Before(s, i)' \subseteq Before(s, i + 1)
             /\ \A a \in Before(s, i + 1) : a \in Before(s, i)' \/ a = 0
             /\ \A a \in Before(s, i + 1) : a \in Nat
  <2>1. /\ i + 1 \in 1 .. Len(chan[s]) /\ chan'[s][i] = chan[s][i + 1] /\ (i + 1) - 1 = i
        /\ i \in Nat
    BY <1>2
  <2>2. ASSUME NEW j \in 1 .. i - 1
        PROVE  j + 1 \in 1 .. i /\ chan'[s][j] = chan[s][j + 1]
    BY <1>2
  <2>3. ASSUME NEW j \in 1 .. i, j # 1
        PROVE  j - 1 \in 1 .. i - 1 /\ chan'[s][j - 1] = chan[s][j]
    BY <1>2, <2>3
  <2>4. Before(s, i + 1) = seen[s] \cup {chan[s][j].chg : j \in 1 .. i}
    BY <2>1 DEF Before
  <2>5. Before(s, i)' = seen'[s] \cup {chan'[s][j].chg : j \in 1 .. i - 1}
    BY DEF Before
  <2>6. x \in {chan[s][j].chg : j \in 1 .. i}
    BY <2>1 DEF x
  <2>7. ASSUME NEW a \in Before(s, i)' PROVE a \in Before(s, i + 1)
    <3>1. CASE a \in seen'[s]
      BY <1>3, <2>4, <2>6, <3>1
    <3>2. ASSUME NEW j \in 1 .. i - 1, a = chan'[s][j].chg PROVE a \in Before(s, i + 1)
      BY <2>2, <2>4, <3>2
    <3> QED
      BY <2>5, <3>1, <3>2
  <2>8. ASSUME NEW a \in Before(s, i + 1), a # 0 PROVE a \in Before(s, i)'
    <3>1. CASE a \in seen[s]
      BY <1>3, <2>5, <3>1
    <3>2. ASSUME NEW j \in 1 .. i, a = chan[s][j].chg PROVE a \in Before(s, i)'
      <4>1. CASE j = 1
        BY <1>3, <2>5, <2>8, <3>2, <4>1 DEF x
      <4>2. CASE j # 1
        BY <2>3, <2>5, <3>2, <4>2
      <4> QED
        BY <4>1, <4>2
    <3> QED
      BY <2>4, <3>1, <3>2
  <2>9. \A a \in Before(s, i + 1) : a \in Nat
    <3>1. \A j \in 1 .. i : j \in 1 .. Len(chan[s])
      BY <1>2
    <3>2. \A j \in 1 .. i : chan[s][j].chg \in Nat
      BY <1>0, <3>1, StreamTypes
    <3> QED
      BY <1>0, <2>4, <3>2, HeardTypes
  <2> QED
    BY <2>1, <2>7, <2>8, <2>9
<1>6. ASSUME NEW n \in Nat, n <= Len(chan'[s]), InOrder(s, n)'
      PROVE  InOrder(s, n + 1)
  <2> SUFFICES ASSUME NEW i \in 1 .. n + 1
               PROVE  chan[s][i].seq = validSeq[s] + i - 1
    BY DEF InOrder
  <2>1. CASE i = 1
    BY <1>1, <1>2, <1>3, <2>1
  <2>2. CASE i # 1
    <3>1. i - 1 \in 1 .. n /\ i - 1 \in 1 .. Len(chan[s]) - 1 /\ (i - 1) + 1 = i
      BY <1>2, <1>6, <2>2
    <3>2. chan'[s][i - 1].seq = validSeq'[s] + (i - 1) - 1
      BY <1>6, <3>1 DEF InOrder
    <3> QED
      <4>1. chan[s][i].seq = (validSeq[s] + 1) + (i - 1) - 1
        BY <1>1, <1>2, <3>1, <3>2
      <4> QED
        BY <1>3, <4>1
  <2> QED
    BY <2>1, <2>2
<1>7. HeardOK(s)' /\ OneBroker(base, s)'
  BY <1>0, <1>a, <1>4, OwnStep DEF ClientOK, HeardOK, OneBroker
<1>8. NextOK(base, s)'
  <2> SUFFICES ASSUME NEW g \in Subs, Listens(s)', Serves(base, g, s)', Calm(s)'
               PROVE  Continues(s, Heard(s), base[g] + expected[g])'
    BY DEF NextOK
  <2>1. Calm(s)
    <3>1. Len(chan'[s]) \in Nat /\ Len(chan'[s]) + 1 = Len(chan[s])
      BY <1>2
    <3>2. InOrder(s, Len(chan[s]))
      BY <1>6, <3>1 DEF Calm
    <3> QED
      BY <1>1, <3>2 DEF Calm
  <2>2. Continues(s, Heard(s), base[g] + expected[g])
    BY <1>0, <1>a, <2>1, OwnStep DEF ClientOK, NextOK
  <2>3. \A T \in SUBSET Heard(s) : (\A c \in Heard(s) : c \in T \/ c = 0) =>
          Continues(s, T, base[g] + expected[g])
    BY <1>0, <2>2, HeardTypes, ContinuesCut
  <2> QED
    BY <1>4, <1>a, <2>3, OwnStep
<1>9. ChanOK(s)'
  <2> SUFFICES ASSUME told'[s] = 0, home'[s] \notin doubled', NEW i \in 1 .. Len(chan'[s]),
                      InOrder(s, i)', since'[s] < chan'[s][i].chg
               PROVE  Continues(s, Before(s, i), chan[s][i].chg)'
    BY DEF ChanOK
  <2>1. InOrder(s, i + 1)
    <3>1. i \in Nat /\ i <= Len(chan'[s])
      BY <1>2
    <3> QED
      BY <1>6, <3>1
  <2>2. Continues(s, Before(s, i + 1), chan[s][i + 1].chg)
    BY <1>0, <1>1, <1>5, <1>a, <2>1, OwnStep DEF ClientOK, ChanOK
  <2>3. \A T \in SUBSET Before(s, i + 1) : (\A c \in Before(s, i + 1) : c \in T \/ c = 0) =>
          Continues(s, T, chan[s][i + 1].chg)
    BY <1>0, <1>5, <2>2, ContinuesCut
  <2> QED
    BY <1>5, <1>a, <2>3, OwnStep
<1>10. GapFree(s)'
  <2> SUFFICES ASSUME told'[s] = 0, home'[s] \notin doubled', NEW a \in seen'[s],
                      NEW b \in seen'[s], since[s] < a, NEW c \in (a + 1) .. (b - 1),
                      Matches(s, c)
               PROVE  c \in seen'[s]
    BY <1>a, OwnStep DEF GapFree
  <2>1. told[s] = 0 /\ home[s] \notin doubled
    BY <1>1, <1>a, OwnStep
  <2>2. \A v \in seen'[s] : v \in Nat
    BY <1>0, <1>3, HeardTypes
  <2>3. since[s] < x => Continues(s, seen[s], x)
    <3>1. Before(s, 1) = seen[s]
      BY DEF Before
    <3>2. InOrder(s, 1)
      BY <1>1, <1>2, <1>3 DEF InOrder
    <3> QED
      BY <1>0, <1>2, <2>1, <3>1, <3>2 DEF ClientOK, ChanOK, x
  <2>4. CASE a \in seen[s] /\ b \in seen[s]
    BY <1>0, <1>3, <2>1, <2>4 DEF ClientOK, GapFree
  <2>5. CASE a \in seen[s] /\ b = x
    <3>1. since[s] < x
      BY <1>3, <2>2, <2>5
    <3> QED
      BY <1>3, <2>3, <2>5, <3>1 DEF Continues
  <2>6. CASE a = x
    <3>1. CASE b = x
      BY <2>2, <2>6, <3>1
    <3>2. CASE b \in seen[s]
      <4>1. b > since[s]
        BY <1>3, <2>2, <2>6
      <4>2. b < x
        BY <2>3, <2>6, <3>2, <4>1 DEF Continues
      <4> QED
        BY <2>2, <2>6, <4>2
    <3> QED
      BY <1>3, <3>1, <3>2
  <2> QED
    BY <1>3, <2>4, <2>5, <2>6
<1> QED
  BY <1>7, <1>8, <1>9, <1>10 DEF ClientOK

LEMMA GapStream ==
  ASSUME GapInv, StreamInv', NEW s \in Subs, TakeGreetSeq(s) \/ SendGreeting(s) \/ Stream(s)
  PROVE  GapInv'
<1>1. \A base \in [Subs -> Nat] : GapOK(base) => ClientOK(base, s)'
  BY GapGreet, GapSend, GapInSeq, GapOutOfSeq DEF Stream
<1> QED
  BY <1>1, StreamStepQuiet, GapOfOne

-----------------------------------------------------------------------------
(* Steps of the writer, of a broker, and of a request that subscribes.     *)

\* A step that leaves a client's own state alone keeps what it observed in order.
LEMMA ClientFrame ==
  ASSUME NEW s \in Subs, TypeOK, NEW base, ClientOK(base, s),
         UNCHANGED <<chan[s], validSeq[s], seen[s], lost[s], told[s], since[s], greetSeq[s]>>,
         home'[s] = home[s], doubled \subseteq doubled',
         phase'[s] = "sending" <=> phase[s] = "sending",
         Len(changes') \in Nat, Len(changes) <= Len(changes'),
         \A c \in 1 .. Len(changes) : Matches(s, c)' <=> Matches(s, c)
  PROVE  /\ HeardOK(s)' /\ ChanOK(s)' /\ GapFree(s)'
         /\ Heard(s)' = Heard(s)
         /\ Calm(s)' <=> Calm(s)
         /\ \A n : n \in Nat /\ n <= Len(changes) + 1 =>
              (Continues(s, Heard(s), n)' <=> Continues(s, Heard(s), n))
<1>0. Len(changes) \in Nat
  BY GapTypes
<1>1. /\ Heard(s)' = Heard(s) /\ \A i : Before(s, i)' = Before(s, i)
      /\ \A i : InOrder(s, i)' <=> InOrder(s, i)
  BY DEF Heard, Before, InOrder
<1>2. \A a \in Heard(s) : a \in Nat /\ a <= Len(changes)
  BY HeardTypes DEF ClientOK, HeardOK
<1>3. \A i \in 1 .. Len(chan[s]) : Before(s, i) \subseteq Heard(s) /\ chan[s][i].chg \in Heard(s)
  BY StreamTypes DEF Before, Heard
<1>4. \A S \in SUBSET Nat, n \in Nat : n <= Len(changes) + 1 =>
        (Continues(s, S, n)' <=> Continues(s, S, n))
  <2> SUFFICES ASSUME NEW S \in SUBSET Nat, NEW n \in Nat, n <= Len(changes) + 1
               PROVE  Continues(s, S, n)' <=> Continues(s, S, n)
    OBVIOUS
  <2>1. \A a \in S : \A c \in (a + 1) .. (n - 1) : c \in 1 .. Len(changes)
    BY <1>0
  <2> QED
    BY <2>1 DEF Continues
<1>5. HeardOK(s)'
  BY <1>0, <1>1, <1>2 DEF HeardOK
<1>6. ChanOK(s)'
  <2> SUFFICES ASSUME told[s] = 0, home[s] \notin doubled, NEW i \in 1 .. Len(chan[s]),
                      InOrder(s, i), since[s] < chan[s][i].chg
               PROVE  Continues(s, Before(s, i), chan[s][i].chg)'
    BY <1>1 DEF ChanOK
  <2>1. Continues(s, Before(s, i), chan[s][i].chg)
    BY DEF ClientOK, ChanOK
  <2>2. /\ Before(s, i) \in SUBSET Nat /\ chan[s][i].chg \in Nat
        /\ chan[s][i].chg <= Len(changes) + 1
    BY <1>0, <1>2, <1>3
  <2>3. Before(s, i)' = Before(s, i) /\ chan'[s][i].chg = chan[s][i].chg
    BY <1>1
  <2> QED
    BY <1>4, <2>1, <2>2, <2>3
<1>7. GapFree(s)'
  <2> SUFFICES ASSUME told[s] = 0, home[s] \notin doubled, NEW a \in seen[s], NEW b \in seen[s],
                      since[s] < a, NEW c \in (a + 1) .. (b - 1), Matches(s, c)'
               PROVE  c \in seen[s]
    BY DEF GapFree
  <2>1. c \in 1 .. Len(changes)
    <3>1. a \in Nat /\ b \in Nat /\ b <= Len(changes)
      BY <1>2, HeardTypes
    <3> QED
      BY <1>0, <3>1
  <2> QED
    BY <2>1 DEF ClientOK, GapFree
<1>8. Calm(s)' <=> Calm(s)
  BY <1>1 DEF Calm
<1>9. \A n : n \in Nat /\ n <= Len(changes) + 1 =>
        (Continues(s, Heard(s), n)' <=> Continues(s, Heard(s), n))
  <2>1. Heard(s) \in SUBSET Nat
    BY <1>2
  <2> QED
    BY <1>1, <1>4, <2>1
<1> QED
  BY <1>1, <1>5, <1>6, <1>7, <1>8, <1>9

\* The call numbers of a hook lag behind the changes.
LEMMA BehindChanges ==
  ASSUME GapInv, NEW base \in [Subs -> Nat], GapOK(base), NEW g \in Subs, BrokerRuns(g)
  PROVE  /\ base[g] \in Nat /\ expected[g] \in Nat /\ cnt[g] \in Nat
         /\ base[g] + expected[g] \in Nat
         /\ base[g] + cnt[g] <= Len(changes)
         /\ base[g] + expected[g] <= Len(changes) + 1
<1>1. TypeOK /\ InFlight(g)
  BY DEF GapInv, StreamInv, StateInv, HookInv
<1>2. /\ expected[g] \in Nat /\ cnt[g] \in Nat /\ Len(queue[g]) \in Nat
      /\ Len(changes) \in Nat
  BY <1>1, GapTypes
<1>3. cnt[g] >= expected[g] + Len(queue[g]) - 1
  BY <1>1 DEF InFlight, BrokerRuns
<1>4. base[g] + cnt[g] <= Len(changes)
  BY DEF GapOK, Aligned, BrokerRuns
<1> QED
  BY <1>2, <1>3, <1>4, SMTT(40)

LEMMA GapChange ==
  ASSUME GapInv, StreamInv', NEW t \in Tables, NEW r \in Rows, Change(t, r)
  PROVE  GapInv'
<1> PICK base \in [Subs -> Nat] : GapOK(base)
  BY DEF GapInv
<1>0. TypeOK
  BY DEF GapInv, StreamInv, StateInv, HookInv
<1> DEFINE n == Len(changes)
<1>1. UNCHANGED <<hook, broker, expected, listed, reqVars, clientVars>>
  BY DEF Change, stateVars
<1>2. /\ n \in Nat /\ Len(changes') = n + 1
      /\ \A c \in 1 .. n : changes'[c] = changes[c]
  <2>1. /\ changes \in Seq([table : Tables, row : Rows])
        /\ [table |-> t, row |-> r] \in [table : Tables, row : Rows]
    BY <1>0 DEF TypeOK, ConnTypeOK
  <2>2. changes' = Append(changes, [table |-> t, row |-> r])
    BY DEF Change
  <2> QED
    BY <2>1, <2>2, AppendElements
<1>3. ASSUME NEW g \in Subs
      PROVE  IF hook = g
             THEN /\ cnt'[g] = cnt[g] + 1
                  /\ \/ queue'[g] = queue[g]
                     \/ queue'[g] = Append(queue[g], [cnt |-> cnt[g] + 1, chg |-> n + 1])
             ELSE cnt'[g] = cnt[g] /\ queue'[g] = queue[g]
  BY <1>0, GapTypes DEF Change
<1> HIDE DEF n
<1>4. Aligned(base)'
  <2> SUFFICES ASSUME NEW g \in Subs
               PROVE  /\ broker'[g] = "off" =>
                           cnt'[g] = 0 /\ queue'[g] = <<>> /\ expected'[g] = 1 /\ hook' # g
                      /\ broker'[g] # "off" =>
                           /\ base[g] + cnt'[g] <= Len(changes')
                           /\ hook' = g => base[g] + cnt'[g] = Len(changes')
                           /\ \A i \in 1 .. Len(queue'[g]) :
                                queue'[g][i].chg = base[g] + queue'[g][i].cnt
    BY DEF Aligned
  <2>1. /\ broker[g] = "off" =>
             cnt[g] = 0 /\ queue[g] = <<>> /\ expected[g] = 1 /\ hook # g
        /\ broker[g] # "off" =>
             /\ base[g] + cnt[g] <= n
             /\ hook = g => base[g] + cnt[g] = n
             /\ \A i \in 1 .. Len(queue[g]) : queue[g][i].chg = base[g] + queue[g][i].cnt
    BY DEF GapOK, Aligned, n
  <2>2. cnt[g] \in Nat /\ base[g] \in Nat
    BY <1>0, GapTypes
  <2>3. CASE hook # g
    <3>1. cnt'[g] = cnt[g] /\ queue'[g] = queue[g] /\ hook' # g
      BY <1>1, <1>3, <2>3
    <3>2. broker[g] # "off" => base[g] + cnt[g] <= n + 1
      BY <1>2, <2>1, <2>2
    <3> QED
      BY <1>1, <1>2, <2>1, <3>1, <3>2
  <2>4. CASE hook = g
    <3> DEFINE e == [cnt |-> cnt[g] + 1, chg |-> n + 1]
    <3>1. e.cnt = cnt[g] + 1 /\ e.chg = n + 1
      OBVIOUS
    <3>2. queue'[g] = queue[g] \/ queue'[g] = Append(queue[g], e)
      BY <1>3, <2>4
    <3>3. queue[g] \in Seq(HookEvents) /\ e \in HookEvents
      <4>1. n + 1 \in Changes
        BY <1>2, ConstantsAssumption DEF Change, n, Changes
      <4> QED
        <5>1. e \in HookEvents
          BY <2>2, <4>1 DEF HookEvents
        <5>2. queue[g] \in Seq(HookEvents)
          BY <1>0, GapTypes
        <5> QED
          BY <5>1, <5>2
    <3> HIDE DEF e
    <3>4. broker[g] # "off" /\ base[g] + cnt[g] = n
          /\ \A i \in 1 .. Len(queue[g]) : queue[g][i].chg = base[g] + queue[g][i].cnt
      BY <2>1, <2>4
    <3>5. \A i \in 1 .. Len(queue'[g]) : queue'[g][i].chg = base[g] + queue'[g][i].cnt
      <4>1. CASE queue'[g] = queue[g]
        BY <3>4, <4>1
      <4>2. CASE queue'[g] = Append(queue[g], e)
        <5>1. e.chg = base[g] + e.cnt
          BY <1>2, <2>2, <3>1, <3>4
        <5>2. /\ Len(queue[g]) \in Nat /\ Len(queue'[g]) = Len(queue[g]) + 1
              /\ \A i \in 1 .. Len(queue[g]) : queue'[g][i] = queue[g][i]
              /\ queue'[g][Len(queue[g]) + 1] = e
          BY <3>3, <4>2, AppendElements
        <5>3. \A i \in 1 .. Len(queue'[g]) : i \in 1 .. Len(queue[g]) \/ i = Len(queue[g]) + 1
          BY <5>2
        <5> QED
          BY <3>4, <5>1, <5>2, <5>3
      <4> QED
        BY <3>2, <4>1, <4>2
    <3>6. cnt'[g] = cnt[g] + 1 /\ base[g] + cnt'[g] = n + 1
      <4>1. cnt'[g] = cnt[g] + 1
        BY <1>3, <2>4
      <4>2. base[g] + (cnt[g] + 1) = n + 1
        BY <1>2, <2>2, <3>4
      <4> QED
        BY <4>1, <4>2
    <3> QED
      BY <1>1, <1>2, <3>4, <3>5, <3>6
  <2> QED
    BY <2>3, <2>4
<1>5. OneHook'
  BY <1>1 DEF GapOK, OneHook, Hooks, BrokerRuns, reqVars, clientVars
<1>6. ASSUME NEW s \in Subs PROVE ClientOK(base, s)'
  <2>1. ClientOK(base, s)
    BY DEF GapOK
  <2>2. \A c \in 1 .. Len(changes) : Matches(s, c)' <=> Matches(s, c)
    BY <1>2 DEF Matches, n
  <2>3. /\ UNCHANGED <<chan[s], validSeq[s], seen[s], lost[s], told[s], since[s], greetSeq[s]>>
        /\ home' = home /\ doubled' = doubled /\ phase' = phase
    BY <1>1 DEF reqVars, clientVars
  <2>4. Len(changes') \in Nat /\ Len(changes) <= Len(changes')
    BY <1>2 DEF n
  <2>5. /\ HeardOK(s)' /\ ChanOK(s)' /\ GapFree(s)'
        /\ Heard(s)' = Heard(s)
        /\ Calm(s)' <=> Calm(s)
        /\ \A m : m \in Nat /\ m <= Len(changes) + 1 =>
             (Continues(s, Heard(s), m)' <=> Continues(s, Heard(s), m))
    BY <1>0, <2>1, <2>2, <2>3, <2>4, ClientFrame
  <2>6. Listens(s)' <=> Listens(s)
    BY <1>1, <2>3 DEF Listens, Going
  <2>7. \A g \in Subs : Serves(base, g, s)' => Serves(base, g, s)
    BY <1>1, <1>3, <2>3 DEF Serves, BrokerRuns
  <2>8. OneBroker(base, s)'
    BY <2>1, <2>3, <2>5, <2>6, <2>7 DEF ClientOK, OneBroker
  <2>9. NextOK(base, s)'
    <3> SUFFICES ASSUME NEW g \in Subs, Listens(s)', Serves(base, g, s)', Calm(s)'
                 PROVE  Continues(s, Heard(s), base[g] + expected[g])'
      BY DEF NextOK
    <3>1. Serves(base, g, s) /\ Continues(s, Heard(s), base[g] + expected[g])
      BY <2>1, <2>5, <2>6, <2>7 DEF ClientOK, NextOK
    <3>2. /\ base[g] + expected[g] \in Nat
          /\ base[g] + expected[g] <= Len(changes) + 1
      BY <3>1, BehindChanges DEF Serves
    <3> QED
      BY <1>1, <2>5, <3>1, <3>2
  <2> QED
    BY <2>5, <2>8, <2>9 DEF ClientOK
<1> QED
  BY <1>4, <1>5, <1>6 DEF GapInv, GapOK

\* Aligned does not depend on what the requests do.
LEMMA AlignedKept ==
  ASSUME NEW base, Aligned(base), UNCHANGED <<changes, hook, hookVars>>
  PROVE  Aligned(base)'
  BY DEF Aligned, hookVars

LEMMA GapPush ==
  ASSUME GapInv, StreamInv', NEW s \in Subs, Push(s)
  PROVE  GapInv'
<1> PICK base \in [Subs -> Nat] : GapOK(base)
  BY DEF GapInv
<1> DEFINE p == home[s]
<1>0. TypeOK /\ TypeOK' /\ StateInv /\ HookInv'
  BY DEF GapInv, StreamInv, StateInv, HookInv
<1>1. /\ UNCHANGED <<changes, hook, hookVars, home, chan, validSeq, greetSeq, seen, lost, told>>
      /\ phase[s] = "attached"
      /\ phase'[s] = "hooking" <=> NeedsHook(s)
      /\ phase'[s] \in {"hooking", "greeting", "streaming"}
      /\ since'[s] = Len(changes)
      /\ doubled' = IF NeedsHook(s) /\ HasHook(p) THEN doubled \cup {p} ELSE doubled
  BY <1>0, StreamTypes DEF Push, connVars, Subscribed
<1>2. \A o \in Subs \ {s} : phase'[o] = phase[o] /\ since'[o] = since[o]
  BY <1>0, StreamTypes DEF Push
<1>3. p \in Subs /\ \A q \in Subs : listed'[q] \subseteq listed[q] \cup {s}
  <2>1. p \in Subs
    BY <1>0, <1>1 DEF StateInv, HomeOK
  <2> QED
    BY <1>0, <2>1, GapTypes DEF Push
<1> HIDE DEF p
<1>4. Aligned(base) /\ Aligned(base)'
  BY <1>1, AlignedKept DEF GapOK
<1>5. \A g \in Subs \ {s} : Hooks(g)' <=> Hooks(g)
  BY <1>1, <1>2 DEF Hooks, BrokerRuns, hookVars
<1>6. OneHook'
  <2> SUFFICES ASSUME NEW g \in Subs, NEW h \in Subs, home[g] = home[h],
                      home[g] \notin doubled', Hooks(g)', Hooks(h)', g # h
               PROVE  FALSE
    BY <1>1 DEF OneHook
  <2>1. home[g] \notin doubled
    BY <1>1
  <2>2. g = s \/ h = s
    BY <1>5, <2>1 DEF GapOK, OneHook
  <2>3. \E o \in Subs : o # s /\ home[o] = p /\ Hooks(o)
    BY <1>5, <2>2 DEF p
  <2>4. HasHook(p)
    BY <2>3 DEF HasHook, Hooks
  <2>5. ~NeedsHook(s)
    BY <1>1, <2>2, <2>4 DEF p
  <2>6. ~BrokerRuns(s)' /\ phase'[s] # "hooking"
    <3>1. broker[s] = "off"
      BY <1>0, <1>1 DEF StateInv, HookInv, Fresh
    <3> QED
      BY <1>1, <2>5, <3>1 DEF BrokerRuns, hookVars
  <2> QED
    BY <2>2, <2>6 DEF Hooks
<1>7. ClientOK(base, s)'
  <2>1. chan[s] = <<>> /\ seen[s] = {}
    BY <1>1 DEF GapInv, StreamInv, StreamOK, QuietOK, Going
  <2>2. Heard(s)' = {}
    BY <1>1, <2>1 DEF Heard
  <2>3. \A g \in Subs : Serves(base, g, s)' => hook' = g /\ BrokerRuns(g)' /\ home'[g] = home'[s]
    <3> SUFFICES ASSUME NEW g \in Subs, Serves(base, g, s)', hook' # g
                 PROVE  FALSE
      BY DEF Serves
    <3>1. broker'[g] # "off" /\ base[g] + cnt'[g] > Len(changes)
      BY <1>1 DEF Serves, BrokerRuns
    <3>2. base[g] + cnt'[g] <= Len(changes)
      BY <1>1, <1>4, <3>1 DEF Aligned
    <3> QED
      BY <1>0, <1>1, <3>1, <3>2, GapTypes DEF hookVars
  <2>4. OneBroker(base, s)'
    <3> SUFFICES ASSUME Listens(s)', NEW h \in Subs, home'[h] = home'[s],
                        phase'[h] = "hooking", NEW g \in Subs, Serves(base, g, s)'
                 PROVE  FALSE
      BY <2>2, <2>3 DEF OneBroker
    <3>1. Hooks(g)' /\ Hooks(h)' /\ home'[g] = home'[h] /\ home'[g] \notin doubled'
      BY <2>3 DEF Hooks, Listens
    <3>2. g = h
      BY <1>6, <3>1 DEF OneHook
    <3>3. broker'[h] = "off"
      BY <1>0 DEF HookInv, Fresh
    <3> QED
      BY <2>3, <3>2, <3>3 DEF BrokerRuns
  <2> QED
    BY <1>1, <2>1, <2>2, <2>4
    DEF ClientOK, HeardOK, NextOK, Continues, ChanOK, GapFree
<1>8. ASSUME NEW o \in Subs, o # s PROVE ClientOK(base, o)'
  <2>1. ClientOK(base, o)
    BY DEF GapOK
  <2>2. \A c : Matches(o, c)' <=> Matches(o, c)
    BY <1>1 DEF Matches
  <2>3. /\ UNCHANGED <<chan[o], validSeq[o], seen[o], lost[o], told[o], since[o], greetSeq[o]>>
        /\ home'[o] = home[o] /\ doubled \subseteq doubled'
        /\ phase'[o] = phase[o]
    BY <1>1, <1>2, <1>8
  <2>4. Len(changes') \in Nat /\ Len(changes) <= Len(changes')
    BY <1>0, <1>1, GapTypes
  <2>5. /\ HeardOK(o)' /\ ChanOK(o)' /\ GapFree(o)'
        /\ Heard(o)' = Heard(o)
        /\ Calm(o)' <=> Calm(o)
        /\ \A m : m \in Nat /\ m <= Len(changes) + 1 =>
             (Continues(o, Heard(o), m)' <=> Continues(o, Heard(o), m))
    BY <1>0, <2>1, <2>2, <2>3, <2>4, ClientFrame
  <2>6. Listens(o)' => Listens(o) /\ home[o] \in Subs
    <3>1. Going(o) => home[o] \in Subs
      BY <1>0 DEF Going, StateInv, HomeOK
    <3> QED
      BY <1>1, <1>3, <1>8, <2>3, <3>1 DEF Listens, Going
  <2>7. \A g \in Subs : Serves(base, g, o)' => Serves(base, g, o)
    BY <1>1, <2>3 DEF Serves, BrokerRuns, hookVars
  <2>8. ASSUME Listens(o)', NEW h \in Subs, home[h] = home[o], phase'[h] = "hooking"
        PROVE  phase[h] = "hooking"
    <3>1. CASE h = s
      <4>1. NeedsHook(s)
        BY <1>1, <2>8, <3>1
      <4>2. PICK q \in Subs : q = home[o]
        BY <2>6, <2>8
      <4>3. o \in listed[q]
        BY <2>6, <2>8, <4>2 DEF Listens
      <4>4. TableOf[o] \in entries[q]
        BY <1>0, <4>3 DEF StateInv, ListedOK
      <4> QED
        BY <2>8, <3>1, <4>1, <4>2, <4>4 DEF NeedsHook
    <3> QED
      BY <1>2, <2>8, <3>1
  <2>9. OneBroker(base, o)'
    BY <1>1, <2>1, <2>3, <2>5, <2>6, <2>7, <2>8 DEF ClientOK, OneBroker
  <2>10. NextOK(base, o)'
    <3> SUFFICES ASSUME NEW g \in Subs, Listens(o)', Serves(base, g, o)', Calm(o)'
                 PROVE  Continues(o, Heard(o), base[g] + expected[g])'
      BY DEF NextOK
    <3>1. Serves(base, g, o) /\ Continues(o, Heard(o), base[g] + expected[g])
      BY <2>1, <2>5, <2>6, <2>7 DEF ClientOK, NextOK
    <3>2. /\ base[g] + expected[g] \in Nat
          /\ base[g] + expected[g] <= Len(changes) + 1
      BY <3>1, BehindChanges DEF Serves
    <3> QED
      BY <1>1, <2>5, <3>1, <3>2 DEF hookVars
  <2> QED
    BY <2>5, <2>9, <2>10 DEF ClientOK
<1> QED
  BY <1>4, <1>6, <1>7, <1>8 DEF GapInv, GapOK

LEMMA GapAddHook ==
  ASSUME GapInv, StreamInv', NEW s \in Subs, AddHook(s)
  PROVE  GapInv'
<1> PICK base \in [Subs -> Nat] : GapOK(base)
  BY DEF GapInv
<1>0. TypeOK /\ TypeOK' /\ StateInv
  BY DEF GapInv, StreamInv, StateInv, HookInv
<1>1. /\ UNCHANGED <<changes, cnt, queue, expected, home, listed, chan, validSeq, greetSeq,
                     since, seen, lost, told, doubled>>
      /\ hook' = s /\ broker'[s] = "check"
      /\ \A g \in Subs \ {s} : broker'[g] = broker[g] /\ phase'[g] = phase[g]
      /\ phase[s] = "hooking" /\ phase'[s] \in {"greeting", "streaming"}
  BY <1>0, StreamTypes, GapTypes DEF AddHook, Subscribed, stateVars, clientVars
<1>2. Aligned(base) /\ OneHook /\ Len(changes) \in Nat
  BY <1>0, GapTypes DEF GapOK
<1>3. broker[s] = "off" /\ cnt[s] = 0 /\ queue[s] = <<>> /\ expected[s] = 1
  BY <1>0, <1>1, <1>2 DEF StateInv, HookInv, Fresh, Aligned
<1> DEFINE after == [base EXCEPT ![s] = Len(changes)]
<1>4. /\ after \in [Subs -> Nat] /\ after[s] = Len(changes)
      /\ \A g \in Subs \ {s} : after[g] = base[g]
  BY <1>2
<1> PICK now \in [Subs -> Nat] : now = after
  BY <1>4
<1> HIDE DEF after
<1>5. now[s] = Len(changes) /\ \A g \in Subs \ {s} : now[g] = base[g]
  BY <1>4
<1>6. Aligned(now)'
  <2> SUFFICES ASSUME NEW g \in Subs
               PROVE  /\ broker'[g] = "off" =>
                           cnt'[g] = 0 /\ queue'[g] = <<>> /\ expected'[g] = 1 /\ hook' # g
                      /\ broker'[g] # "off" =>
                           /\ now[g] + cnt'[g] <= Len(changes')
                           /\ hook' = g => now[g] + cnt'[g] = Len(changes')
                           /\ \A i \in 1 .. Len(queue'[g]) :
                                queue'[g][i].chg = now[g] + queue'[g][i].cnt
    BY DEF Aligned
  <2>1. CASE g = s
    BY <1>1, <1>2, <1>3, <1>5, <2>1
  <2>2. CASE g # s
    BY <1>1, <1>2, <1>5, <2>2 DEF Aligned
  <2> QED
    BY <2>1, <2>2
<1>7. \A g \in Subs : Hooks(g)' => Hooks(g)
  BY <1>1 DEF Hooks
<1>8. OneHook'
  BY <1>1, <1>2, <1>7 DEF OneHook
<1>9. ASSUME NEW o \in Subs PROVE ClientOK(now, o)'
  <2>1. ClientOK(base, o)
    BY DEF GapOK
  <2>2. \A c : Matches(o, c)' <=> Matches(o, c)
    BY <1>1 DEF Matches
  <2>3. /\ UNCHANGED <<chan[o], validSeq[o], seen[o], lost[o], told[o], since[o], greetSeq[o]>>
        /\ home'[o] = home[o] /\ doubled \subseteq doubled'
        /\ phase'[o] = "sending" <=> phase[o] = "sending"
        /\ Going(o)' <=> Going(o)
    BY <1>1 DEF Going
  <2>4. Len(changes') \in Nat /\ Len(changes) <= Len(changes')
    BY <1>0, <1>1, GapTypes
  <2>5. /\ HeardOK(o)' /\ ChanOK(o)' /\ GapFree(o)'
        /\ Heard(o)' = Heard(o)
        /\ Calm(o)' <=> Calm(o)
        /\ \A m : m \in Nat /\ m <= Len(changes) + 1 =>
             (Continues(o, Heard(o), m)' <=> Continues(o, Heard(o), m))
    BY <1>0, <2>1, <2>2, <2>3, <2>4, ClientFrame
  <2>6. Listens(o)' <=> Listens(o)
    BY <1>1, <2>3 DEF Listens
  <2>7. ASSUME NEW g \in Subs, g # s, Serves(now, g, o)' PROVE Serves(base, g, o)
    BY <1>1, <1>5, <2>7 DEF Serves, BrokerRuns
  <2>8. CASE home[s] = home[o]
    <3>1. Listens(o) => /\ \A g \in Subs : ~Serves(base, g, o)
                        /\ \A a \in Heard(o) : a <= since[o]
      BY <1>1, <2>1, <2>8 DEF ClientOK, OneBroker
    <3>2. ASSUME Listens(o), NEW h \in Subs, home[h] = home[o], phase'[h] = "hooking"
          PROVE  FALSE
      <4>1. h # s /\ phase[h] = "hooking"
        BY <1>1, <3>2
      <4> QED
        BY <1>1, <1>2, <2>8, <3>2, <4>1 DEF OneHook, Hooks, Listens
    <3>3. Listens(o) => \A g \in Subs : Serves(now, g, o)' => g = s
      BY <2>7, <3>1
    <3>4. OneBroker(now, o)'
      BY <1>1, <2>6, <3>2, <3>3 DEF OneBroker
    <3>5. NextOK(now, o)'
      <4> SUFFICES ASSUME Listens(o), NEW g \in Subs
                   PROVE  Continues(o, Heard(o), now[g] + expected[g])'
        BY <2>6 DEF NextOK
      <4>1. \A a \in Heard(o) : ~(since[o] < a)
        <5>1. \A a \in Heard(o) : a \in Nat
          BY <1>0, HeardTypes
        <5>2. since[o] \in Nat
          BY <1>0, StreamNumbers
        <5> QED
          BY <3>1, <5>1, <5>2
      <4> QED
        BY <1>1, <2>5, <4>1 DEF Continues
    <3> QED
      BY <2>5, <3>4, <3>5 DEF ClientOK
  <2>9. CASE home[s] # home[o]
    <3>1. \A g \in Subs : Serves(now, g, o)' => Serves(base, g, o) /\ g # s
      BY <1>1, <2>7, <2>9 DEF Serves
    <3>2. OneBroker(now, o)'
      BY <1>1, <2>1, <2>3, <2>5, <2>6, <3>1 DEF ClientOK, OneBroker
    <3>3. NextOK(now, o)'
      <4> SUFFICES ASSUME NEW g \in Subs, Listens(o)', Serves(now, g, o)', Calm(o)'
                   PROVE  Continues(o, Heard(o), now[g] + expected[g])'
        BY DEF NextOK
      <4>1. /\ Serves(base, g, o) /\ now[g] = base[g]
            /\ Continues(o, Heard(o), now[g] + expected[g])
        BY <1>5, <2>1, <2>5, <2>6, <3>1 DEF ClientOK, NextOK
      <4>2. /\ now[g] + expected[g] \in Nat
            /\ now[g] + expected[g] <= Len(changes) + 1
        BY <4>1, BehindChanges DEF Serves
      <4> QED
        BY <1>1, <2>5, <4>1, <4>2
    <3> QED
      BY <2>5, <3>2, <3>3 DEF ClientOK
  <2> QED
    BY <2>8, <2>9
<1> QED
  BY <1>6, <1>8, <1>9 DEF GapInv, GapOK

\* A broker takes the next event of its channel.
Takes(g) ==
  /\ broker[g] = "recv"
  /\ queue[g] # <<>>
  /\ InSequence(g)
  /\ expected' = [expected EXCEPT ![g] = @ + 1]
  /\ queue' = [queue EXCEPT ![g] = Tail(@)]
  /\ \E b \in {"check", "unhook"} : broker' = [broker EXCEPT ![g] = b]
  /\ \A p \in Subs : listed'[p] \subseteq listed[p]
  /\ UNCHANGED <<changes, hook, cnt, phase, home, greetSeq, validSeq, since, seen, told,
                 doubled>>

LEMMA TakeSystem ==
  ASSUME GapInv, StreamInv', NEW g \in Subs, Takes(g), NEW base \in [Subs -> Nat], GapOK(base)
  PROVE  /\ Aligned(base)' /\ OneHook' /\ home[g] \in Subs
         /\ Head(queue[g]).chg = base[g] + expected[g]
         /\ Head(queue[g]).chg \in Nat
         /\ Head(queue[g]).chg <= base[g] + cnt[g]
         /\ Head(queue[g]).chg <= Len(changes)
         /\ \A s \in Subs : Listens(s)' => Listens(s) /\ s \in listed'[home[s]]
         /\ \A s, h \in Subs : Serves(base, h, s)' <=> Serves(base, h, s)
         /\ expected'[g] = expected[g] + 1
         /\ \A h \in Subs \ {g} : expected'[h] = expected[h]
<1>0. TypeOK /\ HookInv /\ StateInv
  BY DEF GapInv, StreamInv, StateInv, HookInv
<1>1. /\ base[g] \in Nat /\ expected[g] \in Nat /\ cnt[g] \in Nat
      /\ base[g] + expected[g] \in Nat
      /\ base[g] + cnt[g] <= Len(changes)
  BY BehindChanges DEF Takes, BrokerRuns
<1>2. /\ Head(queue[g]) = queue[g][1] /\ 1 \in 1 .. Len(queue[g])
      /\ Len(queue[g]) \in Nat /\ Len(Tail(queue[g])) = Len(queue[g]) - 1
      /\ \A i \in 1 .. Len(queue[g]) - 1 : Tail(queue[g])[i] = queue[g][i + 1]
  BY <1>0, GapTypes, TailElements DEF Takes
<1>3. /\ queue'[g] = Tail(queue[g]) /\ expected'[g] = expected[g] + 1
      /\ broker'[g] \in {"check", "unhook"} /\ broker[g] = "recv"
      /\ \A h \in Subs \ {g} :
           queue'[h] = queue[h] /\ expected'[h] = expected[h] /\ broker'[h] = broker[h]
  BY <1>0, GapTypes DEF Takes
<1>4. \A i \in 1 .. Len(queue[g]) : queue[g][i].chg = base[g] + queue[g][i].cnt
  BY <1>3 DEF GapOK, Aligned
<1>5. Head(queue[g]).chg = base[g] + expected[g]
  BY <1>2, <1>4 DEF Takes, InSequence
<1>6. expected[g] <= cnt[g]
  BY <1>0, HeadNumber DEF Takes, InSequence
<1>7. /\ Head(queue[g]).chg \in Nat /\ Head(queue[g]).chg <= base[g] + cnt[g]
      /\ Head(queue[g]).chg <= Len(changes)
  <2>1. Len(changes) \in Nat
    BY <1>0, GapTypes
  <2> QED
    BY <1>1, <1>5, <1>6, <2>1
<1>8. Aligned(base)'
  <2> SUFFICES ASSUME NEW h \in Subs
               PROVE  /\ broker'[h] = "off" =>
                           cnt'[h] = 0 /\ queue'[h] = <<>> /\ expected'[h] = 1 /\ hook' # h
                      /\ broker'[h] # "off" =>
                           /\ base[h] + cnt'[h] <= Len(changes')
                           /\ hook' = h => base[h] + cnt'[h] = Len(changes')
                           /\ \A i \in 1 .. Len(queue'[h]) :
                                queue'[h][i].chg = base[h] + queue'[h][i].cnt
    BY DEF Aligned
  <2>1. UNCHANGED <<changes, hook, cnt>>
    BY DEF Takes
  <2>2. CASE h # g
    BY <1>3, <2>1, <2>2 DEF GapOK, Aligned
  <2>3. CASE h = g
    <3>1. ASSUME NEW i \in 1 .. Len(Tail(queue[g]))
          PROVE  Tail(queue[g])[i].chg = base[g] + Tail(queue[g])[i].cnt
      <4>1. i + 1 \in 1 .. Len(queue[g]) /\ Tail(queue[g])[i] = queue[g][i + 1]
        BY <1>2
      <4> QED
        BY <1>4, <4>1
    <3>2. hook = g => base[g] + cnt[g] = Len(changes)
      BY <1>3 DEF GapOK, Aligned
    <3> QED
      BY <1>1, <1>3, <2>1, <2>3, <3>1, <3>2
  <2> QED
    BY <2>2, <2>3
<1>9. \A h \in Subs : BrokerRuns(h)' <=> BrokerRuns(h)
  BY <1>3 DEF BrokerRuns
<1>10. OneHook'
  BY <1>9 DEF GapOK, OneHook, Hooks, Takes
<1>11. \A s \in Subs : Listens(s)' => Listens(s) /\ s \in listed'[home[s]]
  <2>1. \A s \in Subs : Going(s) => home[s] \in Subs
    BY <1>0 DEF Going, StateInv, HomeOK
  <2> QED
    BY <2>1 DEF Listens, Going, Takes
<1>12. \A s, h \in Subs : Serves(base, h, s)' <=> Serves(base, h, s)
  BY <1>9 DEF Serves, Takes
<1>13. home[g] \in Subs
  BY <1>0, <1>3, BrokerHome
<1> QED
  BY <1>3, <1>5, <1>7, <1>8, <1>10, <1>11, <1>12, <1>13

\* A client that the event is not for.
LEMMA TakeUntouched ==
  ASSUME GapInv, StreamInv', NEW g \in Subs, Takes(g), NEW base \in [Subs -> Nat], GapOK(base),
         NEW s \in Subs, chan'[s] = chan[s], lost'[s] = lost[s],
         home[s] = home[g] /\ s \in listed'[home[g]] => ~Matches(s, Head(queue[g]).chg)
  PROVE  ClientOK(base, s)'
<1> DEFINE c == Head(queue[g]).chg
<1>0. TypeOK /\ ClientOK(base, s)
  BY DEF GapInv, StreamInv, StateInv, HookInv, GapOK
<1>1. \A m : Matches(s, m)' <=> Matches(s, m)
  BY DEF Matches, Takes
<1>2. /\ UNCHANGED <<chan[s], validSeq[s], seen[s], lost[s], told[s], since[s], greetSeq[s]>>
      /\ home'[s] = home[s] /\ doubled' = doubled /\ phase'[s] = phase[s]
      /\ phase' = phase /\ home' = home /\ changes' = changes
  BY DEF Takes
<1>3. Len(changes') \in Nat /\ Len(changes) <= Len(changes')
  BY <1>0, <1>2, GapTypes
<1>4. /\ HeardOK(s)' /\ ChanOK(s)' /\ GapFree(s)'
      /\ Heard(s)' = Heard(s)
      /\ Calm(s)' <=> Calm(s)
  BY <1>0, <1>1, <1>2, <1>3, ClientFrame
<1>5. \A S, m : Continues(s, S, m)' <=> Continues(s, S, m)
  BY <1>1, <1>2 DEF Continues
<1>6. OneBroker(base, s)'
  BY <1>0, <1>2, <1>4, TakeSystem DEF ClientOK, OneBroker
<1>7. NextOK(base, s)'
  <2> SUFFICES ASSUME NEW h \in Subs, Listens(s)', Serves(base, h, s)', Calm(s)'
               PROVE  Continues(s, Heard(s), base[h] + expected[h])'
    BY DEF NextOK
  <2>1. Continues(s, Heard(s), base[h] + expected[h]) /\ Serves(base, h, s)
    BY <1>0, <1>4, TakeSystem DEF ClientOK, NextOK
  <2>2. CASE h # g
    BY <1>4, <1>5, <2>1, <2>2, TakeSystem
  <2>3. CASE h = g
    <3>1. c = base[g] + expected[g] /\ c \in Nat
      BY TakeSystem
    <3>2. ~Matches(s, c)
      BY <2>1, <2>3, TakeSystem DEF Serves
    <3>3. Continues(s, Heard(s), c)
      BY <2>1, <2>3, <3>1
    <3>4. Continues(s, Heard(s), c + 1)
      <4> HIDE DEF c
      <4> QED
        BY <1>0, <3>1, <3>2, <3>3, HeardTypes, ContinuesNext
    <3>5. base[g] \in Nat /\ expected[g] \in Nat
      BY <1>0, GapTypes
    <3>6. base[h] + expected'[h] = c + 1
      BY <2>3, <3>1, <3>5, TakeSystem, SMTT(40)
    <3> QED
      BY <1>4, <1>5, <3>4, <3>6
  <2> QED
    BY <2>2, <2>3
<1> QED
  BY <1>4, <1>6, <1>7 DEF ClientOK

\* A client that the event is for, and whose channel is full.
LEMMA TakeLoses ==
  ASSUME GapInv, StreamInv', NEW g \in Subs, Takes(g), NEW base \in [Subs -> Nat], GapOK(base),
         NEW s \in Subs, Loses(s)
  PROVE  ClientOK(base, s)'
<1>0. TypeOK /\ ClientOK(base, s)
  BY DEF GapInv, StreamInv, StateInv, HookInv, GapOK
<1>1. /\ UNCHANGED <<chan[s], validSeq[s], seen[s], told[s], since[s]>>
      /\ UNCHANGED <<home, doubled, phase, changes>>
      /\ lost'[s] = lost[s] + 1
  BY DEF Takes, Loses
<1>2. lost'[s] # 0
  BY <1>0, <1>1, StreamNumbers
<1>3. /\ Heard(s)' = Heard(s) /\ \A i : Before(s, i)' = Before(s, i)
      /\ \A i : InOrder(s, i)' <=> InOrder(s, i)
  BY <1>1 DEF Heard, Before, InOrder
<1>4. \A S, m : Continues(s, S, m)' <=> Continues(s, S, m)
  BY <1>1 DEF Continues, Matches
<1>5. HeardOK(s)' /\ GapFree(s)' /\ NextOK(base, s)'
  BY <1>0, <1>1, <1>2, <1>3 DEF ClientOK, HeardOK, GapFree, NextOK, Calm, Matches
<1>6. ChanOK(s)'
  BY <1>0, <1>1, <1>3, <1>4 DEF ClientOK, ChanOK
<1>7. OneBroker(base, s)'
  BY <1>0, <1>1, <1>3, TakeSystem DEF ClientOK, OneBroker
<1> QED
  BY <1>5, <1>6, <1>7 DEF ClientOK

\* A client that the event is for, and whose channel has room.
LEMMA TakeGets ==
  ASSUME GapInv, StreamInv', NEW g \in Subs, Takes(g), NEW base \in [Subs -> Nat], GapOK(base),
         NEW s \in Subs, Gets(s, Head(queue[g]).chg), Going(s),
         home[s] = home[g], s \in listed[home[g]]
  PROVE  ClientOK(base, s)'
<1> DEFINE c == Head(queue[g]).chg
           e == [seq |-> candSeq[s], chg |-> c]
<1>0. TypeOK /\ ClientOK(base, s)
  BY DEF GapInv, StreamInv, StateInv, HookInv, GapOK
<1> PICK l \in Nat : l = Len(chan[s])
  BY <1>0, StreamNumbers
<1>1. /\ UNCHANGED <<validSeq, seen, told, since, greetSeq>>
      /\ UNCHANGED <<home, doubled, phase, changes>>
      /\ lost'[s] = lost[s]
  BY DEF Takes, Gets
<1>2. c = base[g] + expected[g] /\ c \in Nat /\ c <= base[g] + cnt[g] /\ c <= Len(changes)
  BY TakeSystem
<1>3. e \in [seq : Nat, chg : Nat] /\ e.seq = candSeq[s] /\ e.chg = c
  BY <1>0, <1>2, StreamNumbers
<1>a. c \in Changes
  <2>1. queue[g] \in Seq(HookEvents) /\ queue[g] # <<>>
    BY <1>0, GapTypes DEF Takes
  <2>2. Head(queue[g]) \in HookEvents
    BY <2>1, TailFacts
  <2> QED
    BY <2>2 DEF HookEvents
<1>b. chan'[s] = Append(chan[s], e)
  BY DEF Gets
<1> HIDE DEF c
<1>c. e \in Candidates
  BY <1>0, <1>a, StreamNumbers DEF Candidates
<1> HIDE DEF e
<1>4. /\ l \in Nat /\ Len(chan'[s]) = l + 1
      /\ \A i \in 1 .. l : chan'[s][i] = chan[s][i]
      /\ chan'[s][l + 1] = e
  BY <1>0, <1>b, <1>c, StreamTypes, AppendElements
<1>5. Heard(s)' = Heard(s) \cup {c}
  <2>1. {chan'[s][j].chg : j \in 1 .. Len(chan'[s])}
          = {chan[s][j].chg : j \in 1 .. l} \cup {c}
    <3>1. 1 .. Len(chan'[s]) = 1 .. l \cup {l + 1}
      BY <1>4
    <3>2. chan'[s][l + 1].chg = c
      BY <1>3, <1>4
    <3> QED
      BY <1>4, <3>1, <3>2, SMTT(40)
  <2> QED
    BY <1>1, <2>1 DEF Heard
<1>6. /\ \A i \in 1 .. l : Before(s, i)' = Before(s, i)
      /\ \A i \in 1 .. l : InOrder(s, i)' <=> InOrder(s, i)
  <2>3. \A i \in 1 .. l : \A j \in 1 .. i - 1 : j \in 1 .. l
    OBVIOUS
  <2>4. ASSUME NEW i \in 1 .. l PROVE Before(s, i)' = Before(s, i)
    <3>1. \A j \in 1 .. i - 1 : chan'[s][j] = chan[s][j]
      BY <1>4, <2>3
    <3> QED
      BY <1>1, <3>1, SMTT(40) DEF Before
  <2>5. \A i \in 1 .. l : InOrder(s, i)' <=> InOrder(s, i)
    <3>1. \A i \in 1 .. l : \A j \in 1 .. i : j \in 1 .. l
      OBVIOUS
    <3> QED
      BY <1>1, <1>4, <3>1 DEF InOrder
  <2> QED
    BY <2>4, <2>5
<1>7. Before(s, l + 1)' = Heard(s)
  <2>1. (l + 1) - 1 = l
    BY <1>4
  <2>2. Before(s, l + 1)' = seen'[s] \cup {chan'[s][j].chg : j \in 1 .. l}
    BY <2>1 DEF Before
  <2>3. \A j \in 1 .. l : chan'[s][j].chg = chan[s][j].chg
    BY <1>4
  <2>4. Heard(s) = seen[s] \cup {chan[s][j].chg : j \in 1 .. l}
    BY DEF Heard
  <2>5. {chan'[s][j].chg : j \in 1 .. l} = {chan[s][j].chg : j \in 1 .. l}
    BY <2>3
  <2> QED
    BY <1>1, <2>2, <2>4, <2>5
<1>8. \A S, m : Continues(s, S, m)' <=> Continues(s, S, m)
  BY <1>1 DEF Continues, Matches
<1>9. /\ validSeq[s] \in Nat /\ candSeq[s] \in Nat /\ lost[s] \in Nat /\ greetSeq[s] \in Nat
      /\ since[s] \in Nat /\ cnt[g] \in Nat /\ base[g] \in Nat
  BY <1>0, StreamNumbers, GapTypes
<1>10. NumbersOK(s)
  BY DEF GapInv, StreamInv, StreamOK
\* The event has the number that is expected: nothing was lost so far.
<1>11. ASSUME told[s] = 0, InOrder(s, l + 1)' PROVE Calm(s) /\ phase[s] # "sending"
  <2>1. candSeq[s] = validSeq[s] + l
    <3>1. chan'[s][l + 1].seq = validSeq'[s] + (l + 1) - 1
      <4>1. l + 1 \in 1 .. l + 1
        OBVIOUS
      <4> QED
        BY <1>11, <4>1 DEF InOrder
    <3> QED
      BY <1>1, <1>3, <1>4, <1>9, <3>1
  <2>2. InOrder(s, l)
    <3>1. \A j \in 1 .. l : j \in 1 .. l + 1
      OBVIOUS
    <3>2. InOrder(s, l)'
      BY <1>11, <3>1 DEF InOrder
    <3>3. \A i \in 1 .. l : i = l => InOrder(s, i)
      BY <1>6, <3>2
    <3>4. CASE l = 0
      BY <3>4 DEF InOrder
    <3>5. CASE l # 0
      BY <3>3, <3>5
    <3> QED
      BY <3>4, <3>5
  <2>3. phase[s] # "sending"
    BY <1>4, <1>9, <1>10, <1>11, <2>1, SMTT(40) DEF NumbersOK
  <2>4. lost[s] = 0
    BY <1>4, <1>9, <1>10, <1>11, <2>1, <2>3 DEF NumbersOK
  <2> QED
    BY <1>11, <2>2, <2>3, <2>4 DEF Calm
<1>12. ~Serves(base, g, s) => ~(since[s] < c)
  <2>1. BrokerRuns(g) /\ base[g] + cnt[g] \in Nat
    BY <1>9 DEF Takes, BrokerRuns
  <2> QED
    BY <1>2, <1>9, <2>1, SMTT(40) DEF Serves
<1>13. HeardOK(s)'
  BY <1>0, <1>1, <1>2, <1>5 DEF ClientOK, HeardOK
<1>14. OneBroker(base, s)'
  <2> SUFFICES ASSUME Listens(s)'
               PROVE  /\ \A b, h \in Subs : Serves(base, b, s)' /\ Serves(base, h, s)' => b = h
                      /\ (\E h \in Subs : home[h] = home[s] /\ phase[h] = "hooking") =>
                           /\ \A b \in Subs : ~Serves(base, b, s)'
                           /\ \A a \in Heard(s)' : a <= since[s]
    BY <1>1 DEF OneBroker
  <2>1. Listens(s) /\ OneBroker(base, s)
    BY <1>0, TakeSystem DEF ClientOK
  <2>2. ASSUME \E h \in Subs : home[h] = home[s] /\ phase[h] = "hooking"
        PROVE  /\ \A b \in Subs : ~Serves(base, b, s)
               /\ \A a \in Heard(s)' : a <= since[s]
    <3>1. /\ \A b \in Subs : ~Serves(base, b, s)
          /\ \A a \in Heard(s) : a <= since[s]
      BY <2>1, <2>2 DEF OneBroker
    <3>2. c <= since[s]
      BY <1>2, <1>9, <1>12, <3>1
    <3> QED
      BY <1>5, <3>1, <3>2
  <2> QED
    BY <2>1, <2>2, TakeSystem DEF OneBroker
<1>15. NextOK(base, s)'
  <2> SUFFICES ASSUME NEW h \in Subs, Listens(s)', Serves(base, h, s)', Calm(s)'
               PROVE  Continues(s, Heard(s), base[h] + expected[h])'
    BY DEF NextOK
  <2>1. Listens(s) /\ Serves(base, h, s)
    BY TakeSystem
  <2>2. Calm(s)
    BY <1>1, <1>4, <1>11 DEF Calm
  <2>3. Continues(s, Heard(s), base[h] + expected[h])
    BY <1>0, <2>1, <2>2 DEF ClientOK, NextOK
  <2>4. CASE h = g
    <3>1. Continues(s, Heard(s), c)
      BY <1>2, <2>3, <2>4
    <3>2. Continues(s, Heard(s) \cup {c}, c + 1)
      BY <1>0, <1>2, <3>1, HeardTypes, ContinuesNext
    <3>3. expected[g] \in Nat
      BY <1>0, GapTypes
    <3>4. base[h] + expected'[h] = c + 1
      <4>1. base[g] + (expected[g] + 1) = c + 1
        BY <1>2, <1>9, <3>3
      <4> QED
        BY <2>4, <4>1, TakeSystem
    <3> QED
      BY <1>5, <1>8, <3>2, <3>4
  <2>5. CASE h # g
    <3>1. ~(since[s] < c)
      BY <1>0, <1>12, <2>1, <2>5 DEF ClientOK, OneBroker
    <3>2. Continues(s, Heard(s) \cup {c}, base[h] + expected[h])
      BY <2>3, <3>1, ContinuesOld
    <3> QED
      BY <1>5, <1>8, <2>5, <3>2, TakeSystem
  <2> QED
    BY <2>4, <2>5
<1>16. ChanOK(s)'
  <2> SUFFICES ASSUME told[s] = 0, home[s] \notin doubled, NEW i \in 1 .. Len(chan'[s]),
                      InOrder(s, i)', since[s] < chan'[s][i].chg
               PROVE  Continues(s, Before(s, i), chan[s][i].chg)'
    BY <1>1 DEF ChanOK
  <2>1. CASE i \in 1 .. l
    <3>1. Continues(s, Before(s, i), chan[s][i].chg)
      BY <1>0, <1>4, <1>6, <2>1 DEF ClientOK, ChanOK
    <3> QED
      BY <1>4, <1>6, <1>8, <2>1, <3>1
  <2>2. CASE i = l + 1
    <3>1. chan'[s][i].chg = c /\ Before(s, i)' = Heard(s)
      BY <1>3, <1>4, <1>7, <2>2
    <3>2. Serves(base, g, s) /\ Listens(s) /\ Calm(s)
      BY <1>11, <1>12, <2>2, <3>1 DEF Listens
    <3>3. Continues(s, Heard(s), c)
      BY <1>0, <1>2, <3>2 DEF ClientOK, NextOK
    <3> QED
      BY <1>8, <3>1, <3>3
  <2> QED
    BY <1>4, <2>1, <2>2
<1>17. GapFree(s)'
  BY <1>0, <1>1 DEF ClientOK, GapFree, Matches
<1> QED
  BY <1>13, <1>14, <1>15, <1>16, <1>17 DEF ClientOK

LEMMA GapTake ==
  ASSUME GapInv, StreamInv', NEW g \in Subs, BrokerDispatch(g) \/ BrokerTableGone(g)
  PROVE  GapInv'
<1> PICK base \in [Subs -> Nat] : GapOK(base)
  BY DEF GapInv
<1> DEFINE c == Head(queue[g]).chg
<1>0. TypeOK /\ StateInv
  BY SMTT(40) DEF GapInv, StreamInv, StateInv, HookInv
<1>1. Takes(g)
  <2>1. \A p \in Subs : listed'[p] \subseteq listed[p]
    <3>1. \E S \in SUBSET listed[home[g]] : listed' = [listed EXCEPT ![home[g]] = S]
      <4>1. CASE BrokerDispatch(g)
        <5>1. \E D : listed' = [listed EXCEPT ![home[g]] = listed[home[g]] \ D]
          BY <4>1 DEF BrokerDispatch
        <5> QED
          BY <5>1
      <4>2. CASE BrokerTableGone(g)
        <5>1. \E t : listed' = [listed EXCEPT
                       ![home[g]] = {s \in listed[home[g]] : TableOf[s] # t}]
          BY <4>2, ZenonT(60) DEF BrokerTableGone
        <5> QED
          BY <5>1
      <4> QED
        BY <4>1, <4>2
    <3> QED
      BY <1>0, <3>1, GapTypes
  <2>2. \E b \in {"check", "unhook"} : broker' = [broker EXCEPT ![g] = b]
    BY DEF BrokerDispatch, BrokerTableGone
  <2> QED
    BY <2>1, <2>2 DEF Takes, BrokerDispatch, BrokerTableGone, connVars, reqVars, clientVars
<1>2. Aligned(base)' /\ OneHook' /\ home[g] \in Subs
  BY <1>1, TakeSystem
<1>3. ASSUME NEW s \in Subs PROVE ClientOK(base, s)'
  <2>1. CASE ~Going(s)
    BY <1>1, <2>1, ClientGone DEF Going, Takes
  <2>2. CASE Going(s) /\ BrokerTableGone(g)
    <3>1. chan'[s] = chan[s] /\ lost'[s] = lost[s]
      BY <2>2 DEF BrokerTableGone, reqVars, clientVars
    <3>2. s \in listed'[home[g]] => ~Matches(s, c)
      BY <1>0, <1>2, <2>2, GapTypes DEF BrokerTableGone, Matches
    <3> QED
      BY <1>1, <3>1, <3>2, TakeUntouched
  <2>3. CASE Going(s) /\ BrokerDispatch(g)
    <3>1. IF s \in listed[home[g]] /\ Matches(s, c)
          THEN Gets(s, c) \/ Loses(s)
          ELSE Untouched(s)
      BY <1>0, <2>3, DispatchEffect DEF Going
    <3>2. s \in listed'[home[g]] => s \in listed[home[g]]
      BY <1>1, <1>2 DEF Takes
    <3>3. CASE Untouched(s) /\ ~(s \in listed[home[g]] /\ Matches(s, c))
      BY <1>1, <3>2, <3>3, TakeUntouched DEF Untouched
    <3>4. CASE s \in listed[home[g]] /\ Gets(s, c)
      <4>1. home[s] = home[g]
        BY <1>0, <1>2, <3>4 DEF StateInv, ListedOK
      <4> QED
        BY <1>1, <2>3, <3>4, <4>1, TakeGets
    <3>5. CASE Loses(s)
      BY <1>1, <3>5, TakeLoses
    <3> QED
      BY <3>1, <3>3, <3>4, <3>5
  <2> QED
    BY <2>1, <2>2, <2>3
<1> QED
  BY <1>2, <1>3 DEF GapInv, GapOK

LEMMA GapNext == GapInv /\ [Next]_vars => GapInv'
<1> SUFFICES ASSUME GapInv, [Next]_vars PROVE GapInv'
  OBVIOUS
<1>1. StreamInv'
  BY StreamNext DEF GapInv
<1>2. ASSUME NEW s \in Subs,
             Request(s) \/ Cancel(s) \/ Stream(s) \/ Leave(s) \/ LeaveUnhook(s)
      PROVE  GapInv'
  <2>1. CASE Push(s)
    BY <1>1, <2>1, GapPush
  <2>2. CASE AddHook(s)
    BY <1>1, <2>2, GapAddHook
  <2>3. CASE TakeGreetSeq(s) \/ SendGreeting(s) \/ Stream(s)
    BY <1>1, <2>3, GapStream
  <2>4. CASE Lookup(s) \/ Attach(s) \/ RecordNotFound(s) \/ Cancel(s) \/ Leave(s)
             \/ LeaveUnhook(s)
    BY <1>1, <2>4, GapQuietSteps
  <2> QED
    BY <1>2, <2>1, <2>2, <2>3, <2>4 DEF Request
<1>3. ASSUME NEW g \in Subs, Broker(g) PROVE GapInv'
  <2>1. CASE BrokerDispatch(g) \/ BrokerTableGone(g)
    BY <1>1, <2>1, GapTake
  <2>2. CASE BrokerCheck(g) \/ BrokerDisconnected(g) \/ BrokerOverflow(g) \/ BrokerUnhook(g)
    BY <1>1, <2>2, GapQuietSteps
  <2> QED
    BY <1>3, <2>1, <2>2 DEF Broker
<1>4. CASE Writer
  BY <1>1, <1>4, GapChange, ConstantsAssumption DEF Writer
<1>5. CASE ReloadKeeps \/ ReloadForgets \/ (\E p \in Subs : DropState(p)) \/ UNCHANGED vars
  BY <1>1, <1>5, GapQuietSteps
<1> QED
  BY <1>2, <1>3, <1>4, <1>5 DEF Next

\* A client that was told of no loss (validate_event) missed no change that matched
\* its subscription between two it observed (hook.rs, broker_subscriptions,
\* subscribe_sse, subscribe_ws), unless its state got a second hook while it had one.
THEOREM NoSilentGaps == Spec => []NoSilentGap
<1>1. Init => GapInv
  BY GapInit
<1>2. GapInv /\ [Next]_vars => GapInv'
  BY GapNext
<1>3. GapInv => NoSilentGap
  BY DEF GapInv, GapOK, ClientOK, GapFree, NoSilentGap
<1> QED
  BY <1>1, <1>2, <1>3, PTL DEF Spec
=============================================================================
