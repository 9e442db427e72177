---------------------------- MODULE GuestRuntime ----------------------------
(***************************************************************************)
(* One request in the JavaScript runtime of a WASM guest: the handler, its *)
(* timers and the response (guests/typescript/src/http/incoming.ts,        *)
(* http/response.ts, timer.ts), and the host that waits for the response   *)
(* but not for the guest (crates/wasm-runtime-host/src/lib.rs).  The host  *)
(* makes an instance per request, so nothing here is shared.               *)
(*                                                                         *)
(* A body is as many units as it is long; the host's stream decides how    *)
(* many it takes at a time.                                                *)
(***************************************************************************)
EXTENDS Integers, FiniteSets

CONSTANTS
  Timers,     \* handles the guest may create
  None,
  Small,      \* body length that blockingWriteAndFlush takes at once
  MaxBody,    \* bound: longest body, an error's included
  MaxSpins    \* bound: times the stream takes nothing

ASSUME GuestRuntimeAssumption ==
  /\ Small \in Nat /\ MaxBody \in Nat \ {0} /\ MaxSpins \in Nat

VARIABLES
  phase,      \* where the incoming handler is
  timer,      \* the runtime's own timers
  intervals,  \* keys of PENDING_INTERVALS
  timeouts,   \* keys of PENDING_TIMEOUTS
  resolved,   \* timers whose pending promise is resolved
  awaited,    \* promises awaitPendingTimers waits for
  body,       \* length of the body to send
  written, remaining,   \* of buildLargeResponse
  spins, chunks,        \* bound and history: what the loop did
  error,      \* the response under construction reports an error
  response,   \* what ResponseOutparam was set to, with the bytes sent
  client,     \* call_incoming_http_handler, waiting for the response
  missed      \* history: timers set after awaitPendingTimers looked at their map

timerVars == <<timer, intervals, timeouts, resolved, missed>>
bodyVars == <<body, written, remaining, spins, chunks, error>>
vars == <<phase, timerVars, awaited, bodyVars, response, client>>

TimerStates == {"unused", "timeout", "interval", "fired", "threw", "cleared"}
Phases == {"running", "building", "failing", "waitIntervals", "waitTimeouts", "done"}
Armed == {t \in Timers : timer[t] \in {"timeout", "interval"}}

-----------------------------------------------------------------------------
(* timer.ts                                                                *)

\* What a stretch of guest code does to timers before it awaits or ends: it
\* sets those of TO and IV, and clears those of CL with the function for them;
\* timers in over come to state s; the promises of r are resolved besides.
Code(TO, IV, CL, over, s, r) ==
  /\ timer' = [t \in Timers |->
       CASE t \in TO \ CL -> "timeout"
         [] t \in IV \ CL -> "interval"
         [] t \in CL -> "cleared"
         [] t \in over -> s
         [] OTHER -> timer[t]]
  /\ timeouts' = (timeouts \cup TO) \ CL
  /\ intervals' = (intervals \cup IV) \ CL
  /\ resolved' = resolved \cup CL \cup r
  /\ missed' = missed \cup (IF phase \in {"waitIntervals", "waitTimeouts"} THEN IV ELSE {})
                      \cup (IF phase = "waitTimeouts" THEN TO ELSE {})

\* Choices of guest code: any new timers, any of the old ones cleared.
Unused == {t \in Timers : timer[t] = "unused"}

SomeCode(over, s, r) ==
  \E TO \in SUBSET Unused : \E IV \in SUBSET (Unused \ TO) :
    \E CL \in SUBSET (timeouts \cup intervals) : Code(TO, IV, CL, over, s, r)

\* The wrapped handler of setTimeout: the callback, then resolve().  A callback
\* that throws leaves the promise pending.
ResolveNever(t, threw) == {}
ResolveAfter(t, threw) == IF threw THEN {} ELSE {t}

FireTimeout(t) ==
  /\ phase \notin {"building", "failing", "done"}
  /\ timer[t] = "timeout"
  /\ \E threw \in BOOLEAN :
       SomeCode({t}, IF threw THEN "threw" ELSE "fired", ResolveAfter(t, threw))
  /\ UNCHANGED <<phase, awaited, bodyVars, response, client>>

\* setInterval hands the callback to the runtime as it is; only clearInterval
\* resolves its promise.
FireInterval(t) ==
  /\ phase \notin {"building", "failing", "done"}
  /\ timer[t] = "interval"
  /\ SomeCode({}, "fired", {})
  /\ UNCHANGED <<phase, awaited, bodyVars, response, client>>

-----------------------------------------------------------------------------
(* incoming.ts, response.ts                                                *)

\* A stretch of the handler between two awaits.
RunHandler ==
  /\ phase = "running"
  /\ SomeCode({}, "fired", {})
  /\ UNCHANGED <<phase, awaited, bodyVars, response, client>>

StartBodyFromEnd(n, e) ==
  /\ body' = n /\ written' = n - 1 /\ remaining' = n /\ spins' = 0
  /\ chunks' = 0 /\ error' = e
StartBody(n, e) ==
  /\ body' = n /\ written' = 0 /\ remaining' = n /\ spins' = 0
  /\ chunks' = 0 /\ error' = e

\* The handler returned a body of n units.
HandlerReturns(n) ==
  /\ phase = "running"
  /\ phase' = "building" /\ StartBody(n, FALSE)
  /\ UNCHANGED <<timerVars, awaited, response, client>>

\* The finally block calls awaitPendingTimers: it takes the promises of the intervals.
AwaitIntervals ==
  /\ phase' = "waitIntervals"
  /\ awaited' = intervals \ resolved

\* It threw, or there is none for the path: errorToOutgoingResponse.
HandlerThrows(n) ==
  /\ phase = "running"
  /\ phase' = "failing" /\ StartBody(n, TRUE)
  /\ UNCHANGED <<timerVars, awaited, response, client>>

\* writeResponse: the host's receiver gets the response.
writeResponse(sent) ==
  /\ response' = [error |-> error, sent |-> sent, length |-> body, chunks |-> chunks]
  /\ client' = IF client = "waiting" THEN "answered" ELSE client

\* buildSmallResponse: one blockingWriteAndFlush.
buildSmallResponse ==
  /\ phase \in {"building", "failing"}
  /\ body <= Small
  /\ written = 0 /\ remaining = body
  /\ writeResponse(body)
  /\ AwaitIntervals
  /\ UNCHANGED <<timerVars, bodyVars>>

\* buildLargeResponse's loop: n is the result of checkWrite().
RemainingLagging(n) == body - written
RemainingTwice(n) == remaining - (written + n) - n
RemainingAfter(n) == remaining - (written + n)

WriteChunk(n) ==
  /\ phase \in {"building", "failing"}
  /\ body > Small /\ remaining > 0
  /\ LET count == IF remaining <= n THEN remaining ELSE n IN
       IF count = 0
       THEN /\ spins < MaxSpins /\ spins' = spins + 1
            /\ UNCHANGED <<written, remaining, chunks>>
       ELSE /\ written' = written + count
            /\ remaining' = RemainingAfter(count)
            /\ chunks' = chunks + 1
            /\ UNCHANGED spins
  /\ UNCHANGED <<phase, timerVars, awaited, body, error, response, client>>

buildLargeResponse ==
  /\ phase \in {"building", "failing"}
  /\ body > Small /\ remaining <= 0
  /\ writeResponse(written)
  /\ AwaitIntervals
  /\ UNCHANGED <<timerVars, bodyVars>>

\* A write fails. While the handler's response is built, the catch block
\* builds an error instead; there, the error leaves the function.
WriteFails ==
  /\ \/ phase = "building" /\ phase' = "failing" /\ StartBody(1, TRUE) /\ UNCHANGED awaited
     \/ phase = "failing" /\ AwaitIntervals /\ UNCHANGED bodyVars
  /\ UNCHANGED <<timerVars, response, client>>

\* The promises of the intervals are resolved: those of the timeouts are next.
NextAwaitedNone == {}
NextAwaited == timeouts \ resolved

AwaitTimeouts ==
  /\ phase = "waitIntervals" /\ awaited \subseteq resolved
  /\ phase' = "waitTimeouts"
  /\ awaited' = NextAwaited
  /\ UNCHANGED <<timerVars, bodyVars, response, client>>

\* The handler's promise is settled: the host drops the instance, and the
\* sender of a response that was never set.
Finish ==
  /\ phase = "waitTimeouts" /\ awaited \subseteq resolved
  /\ phase' = "done"
  /\ client' = IF client = "waiting" THEN "refused" ELSE client
  /\ UNCHANGED <<timerVars, awaited, bodyVars, response>>

\* The HTTP client goes away: the guest's task is not aborted.
HangUp ==
  /\ client = "waiting" /\ client' = "gone"
  /\ UNCHANGED <<phase, timerVars, awaited, bodyVars, response>>

-----------------------------------------------------------------------------

Init ==
  /\ phase = "running"
  /\ timer = [t \in Timers |-> "unused"]
  /\ intervals = {} /\ timeouts = {} /\ resolved = {} /\ missed = {} /\ awaited = {}
  /\ body = 0 /\ written = 0 /\ remaining = 0 /\ spins = 0 /\ chunks = 0 /\ error = FALSE
  /\ response = None /\ client = "waiting"

Respond ==
  \/ buildSmallResponse \/ buildLargeResponse
  \/ \E n \in 0 .. MaxBody : WriteChunk(n)

Next ==
  \/ \E t \in Timers : FireTimeout(t) \/ FireInterval(t)
  \/ RunHandler
  \/ \E n \in 0 .. MaxBody : HandlerReturns(n) \/ HandlerThrows(n)
  \/ Respond \/ WriteFails \/ AwaitTimeouts \/ Finish \/ HangUp

Spec == Init /\ [][Next]_vars

\* The runtime's event loop: a timer that is due fires, the function goes on
\* when what it awaits is resolved.  A handler returns sooner or later.
LiveSpec ==
  /\ Spec
  /\ \A t \in Timers : WF_vars(FireTimeout(t))
  /\ WF_vars(\E n \in 0 .. MaxBody : HandlerReturns(n) \/ HandlerThrows(n))
  /\ WF_vars(Respond) /\ WF_vars(AwaitTimeouts) /\ WF_vars(Finish)

-----------------------------------------------------------------------------
(* Properties.                                                             *)

\* Every variable has its type.
TypeOK ==
  /\ phase \in Phases /\ timer \in [Timers -> TimerStates]
  /\ intervals \subseteq Timers /\ timeouts \subseteq Timers
  /\ resolved \subseteq Timers /\ missed \subseteq Timers /\ awaited \subseteq Timers
  /\ body \in 0 .. MaxBody /\ written \in Nat /\ remaining \in Int
  /\ spins \in 0 .. MaxSpins /\ chunks \in Nat /\ error \in BOOLEAN
  /\ response \in {None} \cup [error : BOOLEAN, sent : Nat, length : Nat, chunks : Nat]
  /\ client \in {"waiting", "answered", "refused", "gone"}

\* buildLargeResponse never reads past the end of the body: a RangeError of
\* the typed array's constructor would turn the response into an error.
NeverPastEnd == written <= body

\* A body arrives short only when the stream took its first two chunks
\* without taking all of it; in n chunks, at least the n-th part of it arrives
\* (response.ts, buildLargeResponse).
ShortOnlyAfterTwoChunks ==
  response # None /\ response.sent # response.length =>
    /\ response.chunks >= 2
    /\ response.chunks * response.sent >= response.length

\* When the guest is done the only timers left behind are those set after
\* awaitPendingTimers had looked at their map: every callback set before the
\* response runs, and so does every timeout an interval set.
NoTimerForgotten == phase = "done" => Armed \subseteq missed

\* The guest ends, and with it its instance on the host, unless a timeout's
\* callback threw or an interval is never cleared.
GuestEnds ==
  \/ <>(phase = "done")
  \/ <>[](\E t \in awaited \ resolved : timer[t] \in {"threw", "interval"})

=============================================================================
