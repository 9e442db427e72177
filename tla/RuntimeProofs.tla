---------------------------- MODULE RuntimeProofs ----------------------------
(***************************************************************************)
(* Theorems about what runs beside the requests: about GuestRuntime, for   *)
(* any timers, any length of the body and any sizes of the chunks the      *)
(* stream takes; about Scheduler, for any jobs, any number of admins and   *)
(* of changes of the configuration.                                        *)
(***************************************************************************)
EXTENDS GuestRuntime, Scheduler, TLAPS

-----------------------------------------------------------------------------
(* The body.                                                               *)

\* Every round subtracts from `remaining' all that was written so far, not
\* only its own chunk: the loop stops early, never late, and n rounds leave
\* out at most what n - 1 more of what was written would cover.
BodyInv ==
  /\ body \in Nat /\ written \in Nat /\ chunks \in Nat /\ remaining \in Int
  /\ NeverPastEnd
  /\ written + remaining <= body
  /\ body <= chunks * written + remaining
  /\ chunks = 0 => written = 0 /\ remaining = body
  /\ chunks = 1 => written + remaining = body
  /\ ShortOnlyAfterTwoChunks

LEMMA Product ==
  ASSUME NEW c \in Nat, NEW w \in Nat, NEW k \in Nat
  PROVE  (c + 1) * (w + k) = c * w + w + c * k + k /\ c * k \in Nat /\ c * w \in Nat
  OBVIOUS

\* What one chunk does to the sums.
LEMMA ChunkKeeps ==
  ASSUME BodyInv, NEW count \in Nat \ {0}, remaining > 0, count <= remaining,
         written' = written + count, remaining' = RemainingAfter(count),
         chunks' = chunks + 1, UNCHANGED <<body, response>>
  PROVE  BodyInv'
<1> DEFINE p == chunks * written
           q == chunks' * written'
<1>1. /\ body \in Nat /\ written \in Nat /\ chunks \in Nat /\ remaining \in Int
      /\ written + remaining <= body /\ body <= p + remaining
      /\ body' = body
  BY DEF BodyInv
<1>2. remaining' = remaining - (written + count)
  BY DEF RemainingAfter
<1>3. p \in Nat /\ q \in Nat /\ q >= p + written + count
  <2>1. q = p + written + chunks * count + count /\ chunks * count \in Nat /\ p \in Nat
    BY <1>1, Product
  <2> HIDE DEF p, q
  <2> DEFINE r == chunks * count
  <2>2. q = p + written + r + count /\ r \in Nat /\ p \in Nat
    BY <2>1
  <2> HIDE DEF r
  <2> QED
    BY <2>2, <1>1
<1>4. written' + remaining' <= body' /\ written' \in Nat /\ chunks' \in Nat /\ remaining' \in Int
  BY <1>1, <1>2
<1>5. body' <= q + remaining'
  <2> HIDE DEF p, q
  <2> QED
    BY <1>1, <1>2, <1>3
<1>6. chunks' # 0 /\ (chunks' = 1 => written' + remaining' = body')
  <2>1. chunks' # 0
    BY <1>1
  <2>2. CASE chunks = 0
    <3>1. written = 0 /\ remaining = body
      BY <2>2 DEF BodyInv
    <3> QED
      BY <1>1, <1>2, <2>1, <3>1
  <2>3. CASE chunks # 0
    BY <1>1, <2>3
  <2> QED
    BY <2>1, <2>2, <2>3
<1>7. ShortOnlyAfterTwoChunks'
  BY DEF BodyInv, ShortOnlyAfterTwoChunks
<1>8. NeverPastEnd'
  BY <1>1 DEF NeverPastEnd
<1> QED
  BY <1>1, <1>4, <1>5, <1>6, <1>7, <1>8 DEF BodyInv

LEMMA StartKeeps ==
  ASSUME BodyInv, NEW n \in Nat, NEW e, StartBody(n, e), UNCHANGED response
  PROVE  BodyInv'
<1>1. body' = n /\ written' = 0 /\ remaining' = n /\ chunks' = 0
  BY DEF StartBody
<1>2. ShortOnlyAfterTwoChunks'
  BY DEF BodyInv, ShortOnlyAfterTwoChunks
<1> QED
  BY <1>1, <1>2 DEF BodyInv, NeverPastEnd

LEMMA SameBody ==
  ASSUME BodyInv, UNCHANGED <<bodyVars, response>>
  PROVE  BodyInv'
  BY DEF BodyInv, bodyVars, NeverPastEnd, ShortOnlyAfterTwoChunks

LEMMA BodyStep ==
  ASSUME BodyInv, [Next]_vars
  PROVE  BodyInv'
<1> USE GuestRuntimeAssumption
<1>1. ASSUME NEW n \in 0 .. MaxBody, HandlerReturns(n) \/ HandlerThrows(n) PROVE BodyInv'
  <2>1. n \in Nat
    OBVIOUS
  <2>2. CASE HandlerReturns(n)
    BY <2>1, <2>2, StartKeeps DEF HandlerReturns
  <2>3. CASE HandlerThrows(n)
    BY <2>1, <2>3, StartKeeps DEF HandlerThrows
  <2> QED
    BY <1>1, <2>2, <2>3
<1>2. CASE buildSmallResponse
  <2>1. response'.sent = body /\ response'.length = body
    BY <1>2 DEF buildSmallResponse, writeResponse
  <2>2. ShortOnlyAfterTwoChunks'
    BY <2>1 DEF ShortOnlyAfterTwoChunks
  <2> QED
    BY <1>2, <2>2 DEF buildSmallResponse, BodyInv, NeverPastEnd, bodyVars
<1>3. CASE buildLargeResponse
  <2>1. /\ response'.sent = written /\ response'.length = body /\ response'.chunks = chunks
        /\ remaining <= 0 /\ UNCHANGED bodyVars
    BY <1>3 DEF buildLargeResponse, writeResponse
  <2>2. ASSUME written # body PROVE chunks >= 2 /\ chunks * written >= body
    <3>1. chunks # 0 /\ chunks # 1
      <4>1. written \in Nat /\ remaining \in Int /\ body \in Nat /\ written <= body
        BY DEF BodyInv, NeverPastEnd
      <4>2. CASE chunks = 0
        BY <2>1, <2>2, <4>1, <4>2 DEF BodyInv
      <4>3. CASE chunks = 1
        BY <2>1, <2>2, <4>1, <4>3 DEF BodyInv
      <4> QED
        BY <4>2, <4>3
    <3> DEFINE p == chunks * written
    <3>2. p \in Nat /\ body <= p + remaining /\ body \in Nat /\ remaining \in Int
      BY Product DEF BodyInv
    <3> HIDE DEF p
    <3>3. p >= body
      BY <2>1, <3>2
    <3>4. chunks >= 2
      BY <3>1 DEF BodyInv
    <3> QED
      BY <3>3, <3>4 DEF p
  <2>3. ShortOnlyAfterTwoChunks'
    BY <2>1, <2>2 DEF ShortOnlyAfterTwoChunks
  <2> QED
    BY <2>1, <2>3 DEF BodyInv, NeverPastEnd, bodyVars
<1>4. ASSUME NEW n \in 0 .. MaxBody, WriteChunk(n) PROVE BodyInv'
  <2> DEFINE count == IF remaining <= n THEN remaining ELSE n
  <2>1. count \in Nat /\ count <= remaining /\ remaining > 0
    BY <1>4 DEF WriteChunk, BodyInv
  <2>2. CASE count = 0
    BY <1>4, <2>2 DEF WriteChunk, BodyInv, NeverPastEnd, ShortOnlyAfterTwoChunks
  <2>3. CASE count # 0
    BY <1>4, <2>1, <2>3, ChunkKeeps DEF WriteChunk
  <2> QED
    BY <2>2, <2>3
<1>5. CASE WriteFails
  <2>1. CASE StartBody(1, TRUE)
    BY <1>5, <2>1, StartKeeps DEF WriteFails
  <2>2. CASE UNCHANGED bodyVars
    BY <1>5, <2>2, SameBody DEF WriteFails
  <2> QED
    BY <1>5, <2>1, <2>2 DEF WriteFails
<1>6. ASSUME NEW t \in Timers, FireTimeout(t) \/ FireInterval(t) PROVE BodyInv'
  BY <1>6, SameBody DEF FireTimeout, FireInterval
<1>7. CASE RunHandler \/ AwaitTimeouts \/ Finish \/ HangUp
  BY <1>7, SameBody DEF RunHandler, AwaitTimeouts, Finish, HangUp
<1>8. CASE UNCHANGED vars
  BY <1>8, SameBody DEF vars
<1> QED
  BY <1>1, <1>2, <1>3, <1>4, <1>5, <1>6, <1>7, <1>8 DEF Next, Respond

LEMMA BodyInit == Init => BodyInv
  BY DEF Init, BodyInv, NeverPastEnd, ShortOnlyAfterTwoChunks

\* No typed array is made past the end of the body.
THEOREM WritesStayInside == Spec => []NeverPastEnd
<1>1. BodyInv => NeverPastEnd
  BY DEF BodyInv
<1> QED
  BY <1>1, BodyInit, BodyStep, PTL DEF Spec

\* A body is cut only after two chunks, to the n-th part after n chunks.
THEOREM CutIsBounded == Spec => []ShortOnlyAfterTwoChunks
<1>1. BodyInv => ShortOnlyAfterTwoChunks
  BY DEF BodyInv
<1> QED
  BY <1>1, BodyInit, BodyStep, PTL DEF Spec

-----------------------------------------------------------------------------
(* The timers.                                                             *)

\* A timer that may still fire has a promise that is not resolved, under its
\* key, and the promise is awaited unless the map was looked at before.
TimerInv ==
  /\ \A t \in Timers : timer[t] = "unused" => t \notin timeouts \cup intervals \cup resolved
  /\ \A t \in Timers : timer[t] = "timeout" => t \in timeouts \ resolved
  /\ \A t \in Timers : timer[t] = "interval" => t \in intervals \ resolved
  /\ phase = "waitIntervals" =>
       \A t \in Timers : timer[t] = "interval" => t \in awaited \cup missed
  /\ phase = "waitTimeouts" =>
       /\ \A t \in Timers : timer[t] = "interval" => t \in missed
       /\ \A t \in Timers : timer[t] = "timeout" => t \in awaited \cup missed
  /\ phase = "done" =>
       \A t \in Timers : timer[t] \in {"timeout", "interval"} => t \in missed

LEMMA CodeKeeps ==
  ASSUME TimerInv, NEW TO \in SUBSET Unused, NEW IV \in SUBSET (Unused \ TO),
         NEW CL \in SUBSET (timeouts \cup intervals),
         NEW over \in SUBSET Timers, over \cap Unused = {},
         NEW s \in {"fired", "threw"}, NEW r \in SUBSET over,
         Code(TO, IV, CL, over, s, r), phase # "done", UNCHANGED <<phase, awaited>>
  PROVE  TimerInv'
<1>1. TO \cap CL = {} /\ IV \cap CL = {} /\ TO \cap over = {} /\ IV \cap over = {}
      /\ TO \cap IV = {} /\ TO \subseteq Timers /\ IV \subseteq Timers
  BY DEF TimerInv, Unused
<1>2. ASSUME NEW t \in Timers
      PROVE  /\ timer'[t] = "timeout" => t \in TO \/ (timer[t] = "timeout" /\ t \notin CL \cup over)
             /\ timer'[t] = "interval" => t \in IV \/ (timer[t] = "interval" /\ t \notin CL \cup over)
             /\ timer'[t] = "unused" => timer[t] = "unused" /\ t \notin CL \cup over \cup TO \cup IV
  <2>1. CASE t \in TO
    BY <1>1, <2>1 DEF Code
  <2>2. CASE t \in IV
    BY <1>1, <2>2 DEF Code
  <2>3. CASE t \in CL
    BY <1>1, <2>3 DEF Code
  <2>4. CASE t \notin TO \cup IV \cup CL /\ t \in over
    BY <1>1, <2>4 DEF Code
  <2>5. CASE t \notin TO \cup IV \cup CL \cup over
    BY <1>1, <2>5 DEF Code
  <2> QED
    BY <2>1, <2>2, <2>3, <2>4, <2>5
<1>3. /\ timeouts' = (timeouts \cup TO) \ CL /\ intervals' = (intervals \cup IV) \ CL
      /\ resolved' = resolved \cup CL \cup r
      /\ missed \subseteq missed'
      /\ phase \in {"waitIntervals", "waitTimeouts"} => IV \subseteq missed'
      /\ phase = "waitTimeouts" => TO \subseteq missed'
  BY DEF Code
<1>4. \A t \in TO \cup IV : t \notin timeouts \cup intervals \cup resolved
  BY DEF TimerInv, Unused
<1>5. \A t \in Timers : timer'[t] = "unused" => t \notin timeouts' \cup intervals' \cup resolved'
  BY <1>2, <1>3 DEF TimerInv
<1>6. \A t \in Timers : timer'[t] = "timeout" => t \in timeouts' \ resolved'
  BY <1>1, <1>2, <1>3, <1>4 DEF TimerInv
<1>7. \A t \in Timers : timer'[t] = "interval" => t \in intervals' \ resolved'
  BY <1>1, <1>2, <1>3, <1>4 DEF TimerInv
<1>8. phase' = "waitIntervals" =>
        \A t \in Timers : timer'[t] = "interval" => t \in awaited' \cup missed'
  BY <1>2, <1>3 DEF TimerInv
<1>9. phase' = "waitTimeouts" =>
        /\ \A t \in Timers : timer'[t] = "interval" => t \in missed'
        /\ \A t \in Timers : timer'[t] = "timeout" => t \in awaited' \cup missed'
  BY <1>2, <1>3 DEF TimerInv
<1> QED
  BY <1>5, <1>6, <1>7, <1>8, <1>9 DEF TimerInv

LEMMA SomeCodeKeeps ==
  ASSUME TimerInv, NEW over \in SUBSET Timers, over \cap Unused = {},
         NEW s \in {"fired", "threw"}, NEW r \in SUBSET over,
         SomeCode(over, s, r), phase # "done", UNCHANGED <<phase, awaited>>
  PROVE  TimerInv'
<1>1. PICK TO \in SUBSET Unused : \E IV \in SUBSET (Unused \ TO) :
          \E CL \in SUBSET (timeouts \cup intervals) : Code(TO, IV, CL, over, s, r)
  BY DEF SomeCode
<1>2. PICK IV \in SUBSET (Unused \ TO) :
          \E CL \in SUBSET (timeouts \cup intervals) : Code(TO, IV, CL, over, s, r)
  BY <1>1
<1>3. PICK CL \in SUBSET (timeouts \cup intervals) : Code(TO, IV, CL, over, s, r)
  BY <1>2
<1> QED
  BY <1>3, CodeKeeps, SMTT(60)

LEMMA SameTimers ==
  ASSUME TimerInv, UNCHANGED <<timerVars, phase, awaited>>
  PROVE  TimerInv'
  BY DEF TimerInv, timerVars

\* Before the response is out nobody waits for a timer.
LEMMA ToResponse ==
  ASSUME TimerInv, UNCHANGED timerVars, phase' \in {"building", "failing"}
  PROVE  TimerInv'
  BY DEF TimerInv, timerVars

LEMMA AwaitIntervalsKeeps ==
  ASSUME TimerInv, UNCHANGED timerVars, AwaitIntervals
  PROVE  TimerInv'
  BY DEF TimerInv, timerVars, AwaitIntervals

LEMMA TimerStep ==
  ASSUME TimerInv, [Next]_vars
  PROVE  TimerInv'
<1>1. ASSUME NEW t \in Timers, FireTimeout(t) PROVE TimerInv'
  <2>1. PICK threw \in BOOLEAN :
          SomeCode({t}, IF threw THEN "threw" ELSE "fired", ResolveAfter(t, threw))
    BY <1>1 DEF FireTimeout
  <2>2. {t} \cap Unused = {} /\ phase # "done" /\ UNCHANGED <<phase, awaited>>
    BY <1>1 DEF FireTimeout, Unused
  <2>3. ResolveAfter(t, threw) \in SUBSET {t}
    BY DEF ResolveAfter
  <2>4. CASE threw
    <3>1. SomeCode({t}, "threw", ResolveAfter(t, threw))
      BY <2>1, <2>4
    <3>2. {t} \in SUBSET Timers /\ "threw" \in {"fired", "threw"}
      OBVIOUS
    <3> QED
      BY <2>2, <2>3, <3>1, <3>2, SomeCodeKeeps, SMTT(60)
  <2>5. CASE ~threw
    <3>1. SomeCode({t}, "fired", ResolveAfter(t, threw))
      BY <2>1, <2>5
    <3>2. {t} \in SUBSET Timers /\ "fired" \in {"fired", "threw"}
      OBVIOUS
    <3> QED
      BY <2>2, <2>3, <3>1, <3>2, SomeCodeKeeps, SMTT(60)
  <2> QED
    BY <2>4, <2>5
<1>2. ASSUME NEW t \in Timers, FireInterval(t) PROVE TimerInv'
  BY <1>2, SomeCodeKeeps DEF FireInterval
<1>3. CASE RunHandler
  BY <1>3, SomeCodeKeeps DEF RunHandler
<1>4. ASSUME NEW n \in 0 .. MaxBody, HandlerReturns(n) \/ HandlerThrows(n) PROVE TimerInv'
  BY <1>4, ToResponse DEF HandlerReturns, HandlerThrows
<1>5. CASE buildSmallResponse \/ buildLargeResponse
  BY <1>5, AwaitIntervalsKeeps DEF buildSmallResponse, buildLargeResponse
<1>6. ASSUME NEW n \in 0 .. MaxBody, WriteChunk(n) PROVE TimerInv'
  BY <1>6, SameTimers DEF WriteChunk
<1>7. CASE WriteFails
  <2>1. CASE phase' = "failing"
    BY <1>7, <2>1, ToResponse DEF WriteFails
  <2>2. CASE AwaitIntervals
    BY <1>7, <2>2, AwaitIntervalsKeeps DEF WriteFails
  <2> QED
    BY <1>7, <2>1, <2>2 DEF WriteFails
<1>8. CASE AwaitTimeouts
  BY <1>8 DEF AwaitTimeouts, NextAwaited, TimerInv, timerVars
<1>9. CASE Finish
  BY <1>9 DEF Finish, TimerInv, timerVars
<1>10. CASE HangUp
  BY <1>10, SameTimers DEF HangUp
<1>11. CASE UNCHANGED vars
  BY <1>11, SameTimers DEF vars
<1> QED
  BY <1>1, <1>2, <1>3, <1>4, <1>5, <1>6, <1>7, <1>8, <1>9, <1>10, <1>11 DEF Next, Respond

\* No timer that was set in time is left behind, however many there are and
\* whatever their callbacks set and clear.
THEOREM TimersAreAwaited == Spec => []NoTimerForgotten
<1>1. Init => TimerInv
  BY DEF Init, TimerInv
<1>2. TimerInv => NoTimerForgotten
  BY DEF TimerInv, NoTimerForgotten, Armed
<1> QED
  BY <1>1, <1>2, TimerStep, PTL DEF Spec
-----------------------------------------------------------------------------
(* Types.                                                                  *)

\* What BodyInv and TimerInv leave open.
TimerTypes ==
  /\ timer \in [Timers -> TimerStates]
  /\ intervals \subseteq Timers /\ timeouts \subseteq Timers
  /\ resolved \subseteq Timers /\ missed \subseteq Timers /\ awaited \subseteq Timers

PlaceTypes ==
  /\ phase \in Phases
  /\ body \in 0 .. MaxBody /\ spins \in 0 .. MaxSpins /\ error \in BOOLEAN
  /\ response \in {None} \cup [error : BOOLEAN, sent : Nat, length : Nat, chunks : Nat]
  /\ client \in {"waiting", "answered", "refused", "gone"}

LEMMA SomeCodeTyped ==
  ASSUME TimerTypes, NEW over \in SUBSET Timers, NEW s \in {"fired", "threw"},
         NEW r \in SUBSET Timers, SomeCode(over, s, r), UNCHANGED awaited
  PROVE  TimerTypes'
<1>1. PICK TO \in SUBSET Unused : \E IV \in SUBSET (Unused \ TO) :
          \E CL \in SUBSET (timeouts \cup intervals) : Code(TO, IV, CL, over, s, r)
  BY DEF SomeCode
<1>2. PICK IV \in SUBSET (Unused \ TO) :
          \E CL \in SUBSET (timeouts \cup intervals) : Code(TO, IV, CL, over, s, r)
  BY <1>1
<1>3. PICK CL \in SUBSET (timeouts \cup intervals) : Code(TO, IV, CL, over, s, r)
  BY <1>2
<1>4. TO \subseteq Timers /\ IV \subseteq Timers /\ CL \subseteq Timers
  BY DEF Unused, TimerTypes
<1>5. timer' \in [Timers -> TimerStates]
  <2>1. \A t \in Timers :
          timer[t] \in TimerStates
    BY DEF TimerTypes
  <2> QED
    BY <1>3, <2>1 DEF Code, TimerStates
<1>6. missed' \subseteq Timers
  BY <1>3, <1>4 DEF Code, TimerTypes
<1> QED
  BY <1>3, <1>4, <1>5, <1>6 DEF Code, TimerTypes

LEMMA TimerTypesStep ==
  ASSUME TimerTypes, [Next]_vars
  PROVE  TimerTypes'
<1>1. ASSUME NEW t \in Timers, FireTimeout(t) PROVE TimerTypes'
  <2>1. PICK threw \in BOOLEAN :
          SomeCode({t}, IF threw THEN "threw" ELSE "fired", ResolveAfter(t, threw))
    BY <1>1 DEF FireTimeout
  <2>2. UNCHANGED awaited /\ ResolveAfter(t, threw) \in SUBSET Timers
    BY <1>1 DEF FireTimeout, ResolveAfter
  <2>3. CASE threw
    BY <2>1, <2>2, <2>3, SomeCodeTyped
  <2>4. CASE ~threw
    BY <2>1, <2>2, <2>4, SomeCodeTyped
  <2> QED
    BY <2>3, <2>4
<1>2. ASSUME NEW t \in Timers, FireInterval(t) PROVE TimerTypes'
  BY <1>2, SomeCodeTyped DEF FireInterval
<1>3. CASE RunHandler
  BY <1>3, SomeCodeTyped DEF RunHandler
<1>4. ASSUME UNCHANGED timerVars, UNCHANGED awaited \/ AwaitIntervals \/ awaited' = NextAwaited
      PROVE  TimerTypes'
  BY <1>4 DEF TimerTypes, timerVars, AwaitIntervals, NextAwaited
<1>5. ASSUME NEW n \in 0 .. MaxBody, HandlerReturns(n) \/ HandlerThrows(n) \/ WriteChunk(n)
      PROVE  TimerTypes'
  BY <1>4, <1>5 DEF HandlerReturns, HandlerThrows, WriteChunk
<1>6. CASE buildSmallResponse \/ buildLargeResponse \/ WriteFails
  BY <1>4, <1>6 DEF buildSmallResponse, buildLargeResponse, WriteFails
<1>7. CASE AwaitTimeouts \/ Finish \/ HangUp \/ UNCHANGED vars
  BY <1>4, <1>7 DEF AwaitTimeouts, Finish, HangUp, vars
<1> QED
  BY <1>1, <1>2, <1>3, <1>5, <1>6, <1>7 DEF Next, Respond

LEMMA PlaceTypesStep ==
  ASSUME BodyInv, PlaceTypes, [Next]_vars
  PROVE  PlaceTypes'
<1> USE GuestRuntimeAssumption
<1>1. ASSUME NEW n \in 0 .. MaxBody, HandlerReturns(n) \/ HandlerThrows(n) PROVE PlaceTypes'
  <2>1. body' = n /\ spins' = 0 /\ error' \in BOOLEAN /\ phase' \in Phases
        /\ UNCHANGED <<response, client>>
    <3>1. CASE HandlerReturns(n)
      BY <3>1 DEF HandlerReturns, StartBody, Phases
    <3>2. CASE HandlerThrows(n)
      BY <3>2 DEF HandlerThrows, StartBody, Phases
    <3> QED
      BY <1>1, <3>1, <3>2
  <2>2. 0 \in 0 .. MaxSpins
    OBVIOUS
  <2> QED
    BY <2>1, <2>2 DEF PlaceTypes
<1>2. CASE buildSmallResponse
  BY <1>2 DEF buildSmallResponse, writeResponse, AwaitIntervals, bodyVars, PlaceTypes, BodyInv,
              Phases
<1>3. CASE buildLargeResponse
  BY <1>3 DEF buildLargeResponse, writeResponse, AwaitIntervals, bodyVars, PlaceTypes, BodyInv,
              Phases
<1>4. ASSUME NEW n \in 0 .. MaxBody, WriteChunk(n) PROVE PlaceTypes'
  <2>1. spins' \in 0 .. MaxSpins
    BY <1>4 DEF WriteChunk, PlaceTypes
  <2> QED
    BY <1>4, <2>1 DEF WriteChunk, PlaceTypes
<1>5. CASE WriteFails
  <2>1. CASE StartBody(1, TRUE)
    BY <1>5, <2>1 DEF WriteFails, StartBody, PlaceTypes, Phases, AwaitIntervals
  <2>2. CASE UNCHANGED bodyVars
    BY <1>5, <2>2 DEF WriteFails, bodyVars, PlaceTypes, Phases, AwaitIntervals
  <2> QED
    BY <1>5, <2>1, <2>2 DEF WriteFails
<1>6. ASSUME NEW t \in Timers, FireTimeout(t) \/ FireInterval(t) PROVE PlaceTypes'
  BY <1>6 DEF FireTimeout, FireInterval, bodyVars, PlaceTypes
<1>7. CASE RunHandler \/ AwaitTimeouts \/ Finish \/ HangUp
  BY <1>7 DEF RunHandler, AwaitTimeouts, Finish, HangUp, bodyVars, PlaceTypes, Phases
<1>8. CASE UNCHANGED vars
  BY <1>8 DEF vars, bodyVars, PlaceTypes
<1> QED
  BY <1>1, <1>2, <1>3, <1>4, <1>5, <1>6, <1>7, <1>8 DEF Next, Respond

\* Every variable keeps its type: the sums of buildLargeResponse stay integers
\* and what is written never goes below zero, in spite of what the loop subtracts.
THEOREM TypesHold == Spec => []TypeOK
<1> DEFINE Inv == BodyInv /\ TimerTypes /\ PlaceTypes
<1>1. Init => Inv
  <2> SUFFICES ASSUME Init PROVE Inv
    OBVIOUS
  <2>1. TimerTypes
    BY DEF Init, TimerTypes, TimerStates
  <2>2. 0 \in 0 .. MaxBody /\ 0 \in 0 .. MaxSpins
    BY GuestRuntimeAssumption
  <2>3. error \in BOOLEAN
    BY DEF Init
  <2>4. PlaceTypes
    BY <2>2, <2>3 DEF Init, PlaceTypes, Phases
  <2> QED
    BY <2>1, <2>4, BodyInit
<1>2. Inv /\ [Next]_vars => Inv'
  BY BodyStep, TimerTypesStep, PlaceTypesStep
<1>3. Inv => TypeOK
  BY DEF BodyInv, TimerTypes, PlaceTypes, TypeOK
<1> QED
  BY <1>1, <1>2, <1>3, PTL DEF Spec

-----------------------------------------------------------------------------
(* The scheduler's registries and tasks.                                   *)

Started == {p \in Registries \X Jobs : task[p[1]][p[2]] # "none"}

\* A registry is built at a time, from nothing, and only its entries are started.
OrderInv ==
  /\ current <= built
  /\ \A r \in Registries, j \in Jobs :
       task[r][j] # "none" => r <= built /\ j \in jobs[r]
  /\ \A a \in Admins : run[a] # NoRun => run[a][1] <= current

\* What is scheduled belongs to a registry that somebody refers to.
KeptInv ==
  \A r \in Registries, j \in Jobs :
    Scheduled(r, j) => r = current \/ r = built \/ Held(r)

IInv == SchedulerAssumption /\ SchedulerTypeOK /\ OrderInv /\ KeptInv

-----------------------------------------------------------------------------
(* Tasks and references.                                                   *)

\* One task changes its state, and none is started by it.
LEMMA TaskStep ==
  ASSUME IInv, NEW r \in Registries, NEW j \in Jobs, NEW s \in TaskStates \ {"none"},
         task' = [task EXCEPT ![r][j] = s], task[r][j] # "none",
         s = "ended" \/ Scheduled(r, j) \/ <<r, j>> \in aborted,
         UNCHANGED <<serving, config, current, built, jobs, aborted, run>>
  PROVE  IInv'
<1>1. task' \in [Registries -> [Jobs -> TaskStates]]
  BY DEF IInv, SchedulerTypeOK
<1>2. \A q \in Registries, i \in Jobs : task'[q][i] = IF q = r /\ i = j THEN s ELSE task[q][i]
  BY DEF IInv, SchedulerTypeOK
<1>3. SchedulerTypeOK'
  <2>1. Started \subseteq Started'
    BY <1>2 DEF Started
  <2> QED
    BY <1>1, <2>1 DEF IInv, SchedulerTypeOK, Started
<1>4. OrderInv'
  BY <1>2 DEF IInv, OrderInv
<1>5. \A q \in Registries, i \in Jobs : Scheduled(q, i)' => Scheduled(q, i)
  BY <1>2 DEF Scheduled
<1>6. KeptInv'
  BY <1>5 DEF IInv, KeptInv, Held, Holds
<1> QED
  BY <1>3, <1>4, <1>6 DEF IInv

\* A reference to r goes: if it was the last, nothing of r stays scheduled.
LEMMA ReleaseStops ==
  ASSUME IInv, NEW r \in Registries, task' = task,
         aborted' = aborted \/ aborted' = aborted \cup Stop(r)
  PROVE  /\ aborted' \subseteq Started
         /\ \A q \in Registries, i \in Jobs : Scheduled(q, i)' => Scheduled(q, i)
         /\ aborted' = aborted \cup Stop(r) => \A i \in Jobs : ~Scheduled(r, i)'
<1>1. Stop(r) \subseteq Started
  BY DEF Stop, Started, IInv, SchedulerTypeOK
<1>2. aborted \subseteq Started
  BY DEF IInv, SchedulerTypeOK, Started
<1>3. aborted' \subseteq Started /\ aborted \subseteq aborted'
  BY <1>1, <1>2
<1>4. ASSUME aborted' = aborted \cup Stop(r), NEW i \in Jobs PROVE ~Scheduled(r, i)'
  <2>1. task[r][i] # "none" => <<r, i>> \in Stop(r)
    BY DEF Stop, IInv, OrderInv
  <2> QED
    BY <1>4, <2>1 DEF Scheduled
<1> QED
  BY <1>3, <1>4 DEF Scheduled

-----------------------------------------------------------------------------
(* One lemma per group of actions.                                         *)

LEMMA KeptInit == SchedulerAssumption /\ SchedulerInit => IInv
<1> SUFFICES ASSUME SchedulerAssumption, SchedulerInit PROVE IInv
  OBVIOUS
<1>1. 0 \in Registries
  BY DEF Registries, SchedulerAssumption
<1>2. SchedulerTypeOK
  BY <1>1 DEF SchedulerInit, SchedulerTypeOK, TaskStates, Jobs
<1>3. OrderInv
  <2>1. current <= built /\ \A a \in Admins : run[a] = NoRun
    BY DEF SchedulerInit
  <2>2. \A r \in Registries, j \in Jobs : task[r][j] # "none" => r = 0 /\ j \in SystemJobs
    BY DEF SchedulerInit
  <2>3. jobs[0] = SystemJobs /\ built = 0
    BY <1>1 DEF SchedulerInit
  <2> QED
    BY <2>1, <2>2, <2>3 DEF OrderInv
<1>4. KeptInv
  BY <1>1 DEF SchedulerInit, KeptInv, Scheduled
<1> QED
  BY <1>2, <1>3, <1>4 DEF IInv

LEMMA KeptInstall ==
  ASSUME IInv, NEW g \in GuestJobs, InstallJob(g)
  PROVE  IInv'
<1>1. g \in Jobs
  BY DEF Jobs
<1>2. /\ task' \in [Registries -> [Jobs -> TaskStates]]
      /\ jobs' \in [Registries -> SUBSET Jobs]
  BY <1>1 DEF InstallJob, IInv, SchedulerTypeOK, TaskStates
<1>3. \A q \in Registries, i \in Jobs :
        task'[q][i] = IF q = current /\ i = g THEN "asleep" ELSE task[q][i]
  BY <1>1 DEF InstallJob, IInv, SchedulerTypeOK
<1>4. \A q \in Registries : jobs[q] \subseteq jobs'[q] /\ (q = current => g \in jobs'[q])
  BY DEF InstallJob, IInv, SchedulerTypeOK
<1>5. SchedulerTypeOK'
  <2>1. Started \subseteq Started'
    BY <1>3 DEF Started
  <2> QED
    BY <1>2, <2>1 DEF InstallJob, IInv, SchedulerTypeOK, Started
<1>6. OrderInv'
  BY <1>3, <1>4 DEF InstallJob, IInv, OrderInv
<1>7. KeptInv'
  <2>1. \A q \in Registries, i \in Jobs : Scheduled(q, i)' => q = current \/ Scheduled(q, i)
    BY <1>3 DEF InstallJob, Scheduled
  <2> QED
    BY <2>1 DEF InstallJob, IInv, KeptInv, Held, Holds
<1> QED
  BY <1>5, <1>6, <1>7 DEF IInv

LEMMA KeptBuild ==
  ASSUME IInv, NEW c \in SUBSET SystemJobs, Build(c)
  PROVE  IInv'
<1>0. built \in Nat /\ current = built /\ built + 1 \in Registries /\ c \subseteq Jobs
  BY DEF Build, IInv, SchedulerTypeOK, Registries, Jobs
<1> DEFINE n == built + 1
<1>1. /\ task' \in [Registries -> [Jobs -> TaskStates]]
      /\ jobs' \in [Registries -> SUBSET Jobs]
  BY <1>0 DEF Build, IInv, SchedulerTypeOK, TaskStates, Jobs
<1>2. \A q \in Registries, i \in Jobs :
        task'[q][i] = IF q = n THEN (IF i \in c THEN "asleep" ELSE "none") ELSE task[q][i]
  BY <1>0 DEF Build, IInv, SchedulerTypeOK
<1>3. \A q \in Registries : jobs'[q] = IF q = n THEN SystemJobs ELSE jobs[q]
  BY <1>0 DEF Build, IInv, SchedulerTypeOK
<1>4. \A i \in Jobs : task[n][i] = "none"
  BY <1>0 DEF IInv, OrderInv
<1>5. SchedulerTypeOK'
  <2>1. \A p \in Started : p[1] # n
    BY <1>4 DEF Started
  <2>2. Started \subseteq Started'
    BY <1>2, <2>1 DEF Started
  <2> QED
    BY <1>0, <1>1, <2>2 DEF Build, IInv, SchedulerTypeOK, Started
<1>6. OrderInv'
  <2>1. built' = n /\ current' = current /\ run' = run /\ current <= n
    BY <1>0 DEF Build
  <2>2. ASSUME NEW q \in Registries, NEW i \in Jobs, task'[q][i] # "none"
        PROVE  q <= n /\ i \in jobs'[q]
    <3>1. CASE q = n
      BY <1>0, <1>2, <1>3, <2>2, <3>1
    <3>2. CASE q # n
      <4>1. q <= built /\ i \in jobs[q]
        BY <1>2, <2>2, <3>2 DEF IInv, OrderInv
      <4> QED
        BY <1>0, <1>3, <3>2, <4>1 DEF Registries
    <3> QED
      BY <3>1, <3>2
  <2> QED
    BY <2>1, <2>2 DEF IInv, OrderInv
<1>7. KeptInv'
  <2>1. \A q \in Registries, i \in Jobs : Scheduled(q, i)' => q = n \/ Scheduled(q, i)
    BY <1>2 DEF Build, Scheduled
  <2> QED
    BY <1>0, <2>1 DEF Build, IInv, KeptInv, Held, Holds
<1> QED
  BY <1>5, <1>6, <1>7 DEF IInv

LEMMA KeptSwap ==
  ASSUME IInv, Swap
  PROVE  IInv'
<1>0. PICK r \in Registries :
        /\ r = current
        /\ aborted' = IF Held(r) THEN aborted ELSE aborted \cup Stop(r)
  BY DEF IInv, SchedulerTypeOK, Swap, Release
<1>1. UNCHANGED <<serving, config, built, jobs, task, run>> /\ current' = built
  BY DEF Swap
<1>2. /\ aborted' \subseteq Started
      /\ \A q \in Registries, i \in Jobs : Scheduled(q, i)' => Scheduled(q, i)
      /\ ~Held(r) => \A i \in Jobs : ~Scheduled(r, i)'
  BY <1>0, <1>1, ReleaseStops
<1>3. SchedulerTypeOK'
  BY <1>1, <1>2 DEF IInv, SchedulerTypeOK, Started
<1>4. OrderInv'
  <2>1. \A a \in Admins : run[a] # NoRun => run[a][1] \in Registries
    BY DEF IInv, SchedulerTypeOK
  <2>2. \A a \in Admins : run[a] # NoRun => run[a][1] <= built
    BY <1>0, <2>1 DEF IInv, SchedulerTypeOK, OrderInv, Registries
  <2> QED
    BY <1>1, <2>2 DEF IInv, SchedulerTypeOK, OrderInv, Registries
<1>5. KeptInv'
  <2>1. \A q \in Registries : Held(q) => Held(q)'
    BY <1>1 DEF Held, Holds
  <2> SUFFICES ASSUME NEW q \in Registries, NEW i \in Jobs, Scheduled(q, i)'
               PROVE  q = current' \/ q = built' \/ Held(q)'
    BY DEF KeptInv
  <2>2. q = current \/ q = built \/ Held(q)
    BY <1>2 DEF IInv, KeptInv
  <2>3. q = current => Held(q)
    BY <1>0, <1>2
  <2> QED
    BY <1>1, <2>1, <2>2, <2>3
<1> QED
  BY <1>3, <1>4, <1>5 DEF IInv

LEMMA KeptRunJob ==
  ASSUME IInv, NEW a \in Admins, NEW j \in Jobs, RunJob(a, j)
  PROVE  IInv'
<1>1. \A b \in Admins : run'[b] = IF b = a THEN <<current, j>> ELSE run[b]
  BY DEF RunJob, IInv, SchedulerTypeOK
<1>2. SchedulerTypeOK'
  BY DEF RunJob, IInv, SchedulerTypeOK
<1>3. OrderInv'
  BY <1>1 DEF RunJob, IInv, SchedulerTypeOK, OrderInv, Registries
<1>4. \A r \in Registries : Held(r) => Held(r)'
  <2>1. \A r \in Registries, i \in Jobs : NoRun # <<r, i>>
    BY DEF IInv, SchedulerAssumption
  <2>2. run[a] = NoRun
    BY DEF RunJob
  <2>3. ASSUME NEW r \in Registries, NEW b \in Admins, Holds(b, r)
        PROVE  Holds(b, r)'
    BY <1>1, <2>1, <2>2, <2>3 DEF Holds
  <2> QED
    BY <2>3 DEF Held
<1>5. KeptInv'
  BY <1>4 DEF RunJob, IInv, KeptInv, Scheduled
<1> QED
  BY <1>2, <1>3, <1>5 DEF IInv

LEMMA KeptRunEnds ==
  ASSUME IInv, NEW a \in Admins, NEW j \in Jobs, RunEnds(a, j)
  PROVE  IInv'
<1>0. PICK r \in Registries : r = run[a][1]
  BY DEF RunEnds, IInv, SchedulerTypeOK
<1>1. /\ UNCHANGED <<serving, config, current, built, jobs, task>>
      /\ \/ aborted' = aborted \cup Stop(r)
         \/ aborted' = aborted /\ (r = current \/ \E b \in Admins \ {a} : Holds(b, r))
  BY <1>0 DEF RunEnds, Release
<1>2. run' = [run EXCEPT ![a] = NoRun]
  BY DEF RunEnds
<1>3. \A b \in Admins : run'[b] = IF b = a THEN NoRun ELSE run[b]
  BY <1>2 DEF IInv, SchedulerTypeOK
<1>4. /\ aborted' \subseteq Started
      /\ \A q \in Registries, i \in Jobs : Scheduled(q, i)' => Scheduled(q, i)
      /\ aborted' = aborted \cup Stop(r) => \A i \in Jobs : ~Scheduled(r, i)'
  BY <1>1, ReleaseStops
<1>5. SchedulerTypeOK'
  BY <1>1, <1>2, <1>4 DEF IInv, SchedulerTypeOK, Started
<1>6. OrderInv'
  BY <1>1, <1>3 DEF IInv, OrderInv
<1>7. \A q \in Registries : Held(q) => Held(q)' \/ q = r
  <2> SUFFICES ASSUME NEW q \in Registries, Held(q), q # r PROVE Held(q)'
    OBVIOUS
  <2>1. PICK b \in Admins, i \in Jobs : run[b] = <<q, i>>
    BY DEF Held, Holds
  <2>2. b # a /\ run'[b] = <<q, i>>
    BY <1>0, <1>3, <2>1
  <2> QED
    BY <2>2 DEF Held, Holds
<1>8. (\E b \in Admins \ {a} : Holds(b, r)) => Held(r)'
  <2> SUFFICES ASSUME NEW b \in Admins \ {a}, Holds(b, r) PROVE Held(r)'
    OBVIOUS
  <2>1. run'[b] = run[b]
    BY <1>3
  <2> QED
    BY <2>1 DEF Held, Holds
<1>9. KeptInv'
  <2> SUFFICES ASSUME NEW q \in Registries, NEW i \in Jobs, Scheduled(q, i)'
               PROVE  q = current' \/ q = built' \/ Held(q)'
    BY DEF KeptInv
  <2>1. q = current \/ q = built \/ Held(q)
    BY <1>4 DEF IInv, KeptInv
  <2>2. q = r => r = current \/ Held(r)'
    BY <1>1, <1>4, <1>8
  <2> QED
    BY <1>1, <1>7, <2>1, <2>2
<1> QED
  BY <1>5, <1>6, <1>9 DEF IInv

LEMMA KeptStep == IInv /\ [SchedulerNext]_schedulerVars => IInv'
<1> SUFFICES ASSUME IInv, [SchedulerNext]_schedulerVars PROVE IInv'
  OBVIOUS
<1>1. ASSUME NEW r \in Registries, NEW j \in Jobs, Tick(r, j) PROVE IInv'
  BY <1>1, TaskStep DEF Tick, TaskStates, Scheduled
<1>2. ASSUME NEW r \in Registries, NEW j \in Jobs, CallbackEnds(r, j) PROVE IInv'
  BY <1>2, TaskStep DEF CallbackEnds, TaskStates, Scheduled
<1>3. ASSUME NEW r \in Registries, NEW j \in Jobs, Drop(r, j) PROVE IInv'
  <2>1. task[r][j] # "none"
    BY <1>3 DEF Drop, IInv, SchedulerTypeOK
  <2> QED
    BY <1>3, <2>1, TaskStep DEF Drop, TaskStates
<1>4. CASE Serve
  BY <1>4 DEF Serve, IInv, SchedulerTypeOK, OrderInv, KeptInv, Scheduled, Held, Holds
<1>5. CASE UNCHANGED schedulerVars
  BY <1>5 DEF schedulerVars, IInv, SchedulerTypeOK, OrderInv, KeptInv, Scheduled, Held, Holds
<1> QED
  BY <1>1, <1>2, <1>3, <1>4, <1>5, KeptInstall, KeptBuild, KeptSwap, KeptRunJob, KeptRunEnds
  DEF SchedulerNext

-----------------------------------------------------------------------------
\* The registries, the tasks and the admins' runs keep their types, and nothing
\* is aborted that was not started (scheduler.rs).
THEOREM RegistriesTyped == SchedulerSpec => []SchedulerTypeOK
<1>1. SchedulerInit => IInv
  BY SchedulerAssumption, KeptInit
<1>2. IInv => SchedulerTypeOK
  BY DEF IInv
<1> QED
  BY <1>1, <1>2, KeptStep, PTL DEF SchedulerSpec

\* However registries are exchanged and admins' runs end, a job has two tasks
\* by schedule only during an exchange or while a run refers to the older
\* registry (JobRegistry's destructor).
THEOREM JobsAreScheduledOnce == SchedulerSpec => []ScheduledOnce
<1>1. SchedulerInit => IInv
  BY SchedulerAssumption, KeptInit
<1>2. IInv => ScheduledOnce
  <2> SUFFICES ASSUME IInv, NEW r \in Registries, NEW s \in Registries, NEW j \in Jobs,
                      r < s, Scheduled(r, j), Scheduled(s, j)
               PROVE  r = current \/ Held(r)
    BY DEF ScheduledOnce
  <2>1. s <= built
    BY DEF IInv, OrderInv, Scheduled
  <2>2. r # built
    BY <2>1 DEF Registries, IInv, SchedulerTypeOK
  <2> QED
    BY <2>2 DEF IInv, KeptInv
<1> QED
  BY <1>1, <1>2, KeptStep, PTL DEF SchedulerSpec
=============================================================================
