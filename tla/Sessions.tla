------------------------------ MODULE Sessions ------------------------------
(***************************************************************************)
(* The TypeScript client (crates/assets/js/client/src/client.ts) and the   *)
(* sessions of the server it talks to (crates/core/src/auth/tokens.rs,     *)
(* api/status.rs, api/logout.rs, api/delete.rs).  A client has one token   *)
(* state and any number of promises under way; each reads the state when   *)
(* it is called and stores one when its answer arrives.  The server looks  *)
(* a session up in one database and its user in another.                   *)
(*                                                                         *)
(* A refresh token is the number of its session; an auth token is the user *)
(* it names and the time it expires.  Time is counted in minutes: the      *)
(* margin of shouldRefresh and the leeway of the JWT check are one.        *)
(***************************************************************************)
EXTENDS Integers, FiniteSets

CONSTANTS
  Users,        \* accounts
  Promises,     \* calls of the client that may be under way at once
  None,
  AuthTTL,      \* life of an auth token
  RefreshTTL,   \* life of a session
  MaxSessions,  \* bound: sessions of a behaviour
  MaxTime,      \* bound: the clock stops here
  MaxMishaps,   \* bound: failures, and acts of others, in a behaviour
  MaxCalls      \* bound: calls after the constructor, in a behaviour

ASSUME SessionsAssumption ==
  /\ None \notin Users
  /\ AuthTTL \in Nat \ {0} /\ RefreshTTL \in Nat \ {0}
  /\ MaxSessions \in Nat \ {0} /\ MaxTime \in Nat /\ MaxMishaps \in Nat /\ MaxCalls \in Nat

VARIABLES
  now,          \* the clock
  account,      \* a user's row: verified, unverified or gone
  session,      \* the session table: refresh token -> owner and expiry
  issued,       \* refresh tokens given out so far
  leaving,      \* users whose sessions were deleted, and perhaps the row next
  tok,          \* the client's _tokenState
  notified,     \* the user onAuthChange last reported
  op,           \* the promises under way
  mishaps,      \* failures, and acts of others, so far
  calls,        \* calls so far
  owner,        \* history: whose session a refresh token was made for
  died,         \* history: when a session ceased to be alive
  late,         \* history: sessions that died under a reauth in progress
  crossed,      \* history: calls that stored a state over another session's
  quiet         \* history: signed out by logout(), nothing else under way

serverVars == <<account, session, issued, leaving, owner, died, late>>
clientVars == <<tok, notified, crossed, quiet>>
vars == <<now, serverVars, clientVars, op, mishaps, calls>>

Ids == 1 .. MaxSessions
Tokens == [user : Users, session : Ids \cup {None}, exp : Nat]
Verdicts == {"ok", "401", "lost", "5xx"}
Kinds == {"check", "login", "logout", "refresh"}

Idle == [kind |-> "none", stage |-> "none", pc |-> "idle",
         was |-> None, hdr |-> None, user |-> None, found |-> None, reply |-> "ok"]

-----------------------------------------------------------------------------
(* The token state.                                                        *)

shouldRefresh(t) == t # None /\ t.session # None /\ t.exp - 1 < now

buildUser(t) == IF t = None THEN None ELSE t.user

\* The server's check of an auth token, with the library's leeway.
Accepted(t) == t # None /\ t.exp >= now - 1

\* Storing t now replaces the tokens of another session than the call read,
\* or revives a client that was signed out since.
Crosses(o, t) ==
  \/ tok # None /\ (op[o].was = None \/ tok.session # op[o].was.session)
  \/ tok = None /\ t # None /\ op[o].was # None

\* Which of the client's functions stores the state.
Writer(o) == IF op[o].stage = "refresh" THEN "refresh" ELSE op[o].kind

setTokenState(o, t, skipCb) ==
  /\ tok' = t
  /\ notified' = IF skipCb THEN notified ELSE buildUser(t)
  /\ crossed' = IF Crosses(o, t) THEN crossed \cup {Writer(o)} ELSE crossed
  /\ UNCHANGED quiet

NoTokenChange == UNCHANGED clientVars
Mishap == mishaps < MaxMishaps /\ mishaps' = mishaps + 1 /\ UNCHANGED calls
Settle(o) == op' = [op EXCEPT ![o] = Idle]

-----------------------------------------------------------------------------
(* The server's tables.                                                    *)

\* reauth_with_refresh_token, first query: expires > UNIXEPOCH().
AliveStored(s) == session[s] # None
Alive(s) == session[s] # None /\ session[s].expires > now

AliveIn(table, s, time) == table[s] # None /\ table[s].expires > time

\* Sessions removed by a statement; a reauth past its first query goes on.
Remove(ids) ==
  /\ session' = [s \in Ids |-> IF s \in ids THEN None ELSE session[s]]
  /\ died' = [s \in Ids |-> IF s \in ids /\ AliveIn(session, s, now) THEN now ELSE died[s]]
  /\ late' = late \cup {s \in ids : \E o \in Promises :
                          op[o].pc = "mint" /\ op[o].hdr.session = s}

SessionsOf(u) == {s \in Ids : session[s] # None /\ session[s].user = u}

-----------------------------------------------------------------------------
(* The client calls.                                                       *)

Begin(o, k, u, stage, pc) ==
  /\ calls < MaxCalls /\ calls' = calls + 1
  /\ op' = [op EXCEPT ![o] = [kind |-> k, stage |-> stage, pc |-> pc,
                           was |-> tok, hdr |-> tok, user |-> u, found |-> None,
                           reply |-> "ok"]]

\* login(), logout() and the constructor's check go through fetch(), which
\* refreshes first when the token is about to expire.
Call(o, k, u) ==
  /\ op[o].pc = "idle"
  /\ k = "login" =>
       issued + Cardinality({p \in Promises : op[p].kind = "login"}) < MaxSessions
  /\ IF shouldRefresh(tok) THEN Begin(o, k, u, "refresh", "reauth")
     ELSE Begin(o, k, u, "request", "send")
  /\ quiet' = (quiet /\ k = "logout")
  /\ UNCHANGED <<mishaps, now, serverVars, tok, notified, crossed>>

\* refreshAuthToken(), forced or not. Any other fetch(), deleteUser() and its
\* GET that the router refuses among them, does no more to the tokens.
refreshAuthToken(o) ==
  /\ op[o].pc = "idle"
  /\ tok # None /\ tok.session # None
  /\ Begin(o, "refresh", None, "refresh", "reauth")
  /\ UNCHANGED <<mishaps, now, serverVars, clientVars>>

-----------------------------------------------------------------------------
(* reauth_with_refresh_token, for POST /refresh and GET /status.           *)

ReauthSession(o) ==
  /\ op[o].pc = "reauth"
  /\ LET s == op[o].hdr.session IN
       op' = [op EXCEPT ![o] =
                IF Alive(s) THEN [@ EXCEPT !.pc = "mint", !.found = session[s].user]
                ELSE [@ EXCEPT !.pc = "answer", !.reply = "401"]]
  /\ UNCHANGED <<mishaps, calls, now, serverVars, clientVars>>

\* A missing user is a 401; an unverified one fails the handler's assertion
\* and the connection is dropped.
ReauthUser(o) ==
  /\ op[o].pc = "mint"
  /\ LET u == op[o].found IN
       op' = [op EXCEPT ![o] =
         CASE account[u] = "gone" -> [@ EXCEPT !.pc = "answer", !.reply = "401"]
           [] account[u] = "unverified" -> [@ EXCEPT !.pc = "answer", !.reply = "lost"]
           [] OTHER -> [@ EXCEPT !.pc = "answer", !.reply = "ok",
                !.hdr = [user |-> u, session |-> op[o].hdr.session, exp |-> now + AuthTTL]]]
  /\ UNCHANGED <<mishaps, calls, now, serverVars, clientVars>>

\* The tokens refreshTokensImpl returns: the new auth token and the refresh
\* token the request was made with, which the response does not repeat.
RefreshedTokensCurrent(o) ==
  IF tok = None THEN op[o].hdr ELSE [op[o].hdr EXCEPT !.session = tok.session]
RefreshedTokens(o) == op[o].hdr

Rejected(r) == r = "401"

\* The refresh answered. On a 401 the client drops its tokens and goes on
\* without them; any other failure is thrown at the caller.
refreshTokensImpl(o) ==
  /\ op[o].pc = "answer" /\ op[o].stage = "refresh"
  /\ op[o].reply = "ok" \/ Rejected(op[o].reply)
  /\ LET t == IF Rejected(op[o].reply) THEN None ELSE RefreshedTokens(o) IN
       /\ setTokenState(o, t, FALSE)
       /\ IF op[o].kind = "refresh" THEN Settle(o)
          ELSE op' = [op EXCEPT ![o] = [@ EXCEPT !.stage = "request", !.pc = "send",
                                                 !.hdr = t, !.reply = "ok"]]
  /\ UNCHANGED <<mishaps, calls, now, serverVars>>

-----------------------------------------------------------------------------
(* The request itself.                                                     *)

\* The login handlers read the user, then insert a session.
ServeLogin(o) ==
  /\ op[o].pc = "send" /\ op[o].kind = "login"
  /\ op' = [op EXCEPT ![o] =
       IF account[op[o].user] = "verified" THEN [@ EXCEPT !.pc = "insert"]
       ELSE [@ EXCEPT !.pc = "answer", !.reply = "401"]]
  /\ UNCHANGED <<mishaps, calls, now, serverVars, clientVars>>

mint_new_tokens(o) ==
  /\ op[o].pc = "insert" /\ issued < MaxSessions
  /\ LET u == op[o].user
         s == issued + 1 IN
       /\ issued' = s
       /\ session' = [session EXCEPT ![s] = [user |-> u, expires |-> now + RefreshTTL]]
       /\ owner' = [owner EXCEPT ![s] = u]
       /\ op' = [op EXCEPT ![o].pc = "answer",
                  ![o].hdr = [user |-> u, session |-> s, exp |-> now + AuthTTL]]
  /\ UNCHANGED <<mishaps, calls, now, account, leaving, died, late, clientVars>>

\* POST /logout deletes the session of the refresh token the call read; GET
\* /logout, for tokens without one, all sessions of the user.
ServeLogout(o) ==
  /\ op[o].pc = "send" /\ op[o].kind = "logout"
  /\ LET t == op[o].was IN
       Remove(IF t # None /\ t.session # None THEN {t.session}
              ELSE IF Accepted(op[o].hdr) THEN SessionsOf(op[o].hdr.user) ELSE {})
  /\ op' = [op EXCEPT ![o].pc = "answer"]
  /\ UNCHANGED <<mishaps, calls, now, account, issued, leaving, owner, clientVars>>

\* GET /status: no tokens, or stale ones, are answered with no tokens; a
\* refresh token is used to mint a new auth token; without one the auth token
\* is returned as it is.
login_status_handler(o) ==
  /\ op[o].pc = "send" /\ op[o].kind = "check"
  /\ LET t == op[o].hdr IN
       op' = [op EXCEPT ![o] =
         IF ~Accepted(t) THEN [@ EXCEPT !.pc = "answer", !.hdr = None]
         ELSE IF t.session # None THEN [@ EXCEPT !.pc = "reauth"]
         ELSE [@ EXCEPT !.pc = "answer"]]
  /\ UNCHANGED <<mishaps, calls, now, serverVars, clientVars>>

\* The request or its answer is lost, or the server fails: fetch throws. Only
\* the check is asked not to, and then a failure of the server differs.
Lose(o) ==
  /\ Mishap
  /\ op[o].pc \in {"reauth", "send", "answer"} /\ op[o].reply # "lost"
  /\ op' = [op EXCEPT ![o].pc = "answer", ![o].reply = "lost", ![o].hdr = None]
  /\ UNCHANGED <<now, serverVars, clientVars>>

Fail(o) ==
  /\ Mishap
  /\ op[o].pc \in {"send", "reauth"} /\ op[o].kind = "check" /\ op[o].stage = "request"
  /\ op' = [op EXCEPT ![o].pc = "answer", ![o].reply = "5xx", ![o].hdr = None]
  /\ UNCHANGED <<now, serverVars, clientVars>>

-----------------------------------------------------------------------------
(* The answer of the request.                                              *)

Answered(o) == op[o].pc = "answer" /\ op[o].stage = "request"

LoginAnswered(o) ==
  /\ Answered(o) /\ op[o].kind = "login"
  /\ IF op[o].reply = "ok" THEN setTokenState(o, op[o].hdr, FALSE) ELSE NoTokenChange
  /\ Settle(o)
  /\ UNCHANGED <<mishaps, calls, now, serverVars>>

\* Whatever went wrong, in the refresh before it too, logout() forgets the
\* tokens.
TokensKeptOnError(o) == IF op[o].reply = "lost" THEN tok ELSE None
TokensAfterLogout(o) == None

LogoutAnswered(o) ==
  /\ op[o].kind = "logout" /\ op[o].pc = "answer"
  /\ op[o].stage = "request" \/ op[o].reply = "lost"
  /\ tok' = TokensAfterLogout(o) /\ notified' = buildUser(TokensAfterLogout(o))
  /\ crossed' = IF Crosses(o, None) THEN crossed \cup {"logout"} ELSE crossed
  /\ quiet' = \A p \in Promises \ {o} : op[p].pc = "idle"
  /\ Settle(o)
  /\ UNCHANGED <<mishaps, calls, now, serverVars>>

\* The constructor's check: anything but an ok answer with an auth token signs
\* the client out and tells the observer; tokens are stored without telling
\* it; a thrown error is logged.
CheckedTokens(o) == IF op[o].reply = "ok" THEN op[o].hdr ELSE None

SkipAlways(t) == TRUE
SkipCb(t) == t # None

CheckAnswered(o) ==
  /\ Answered(o) /\ op[o].kind = "check"
  /\ IF op[o].reply = "lost" THEN NoTokenChange
     ELSE setTokenState(o, CheckedTokens(o), SkipCb(CheckedTokens(o)))
  /\ Settle(o)
  /\ UNCHANGED <<mishaps, calls, now, serverVars>>

\* fetch() or refreshAuthToken() throws where the refresh failed.
RefreshThrows(o) ==
  /\ op[o].pc = "answer" /\ op[o].stage = "refresh"
  /\ op[o].reply = "lost" /\ op[o].kind # "logout"
  /\ Settle(o)
  /\ UNCHANGED <<mishaps, calls, now, serverVars, clientVars>>

-----------------------------------------------------------------------------
(* Others: an administrator, the same user elsewhere, the clock.           *)

\* update_user_handler takes the verified flag away.
Unverify(u) ==
  /\ Mishap
  /\ account[u] = "verified"
  /\ account' = [account EXCEPT ![u] = "unverified"]
  /\ UNCHANGED <<now, session, issued, leaving, owner, died, late, clientVars, op>>

\* delete_handler: the sessions first, then the row. The first alone is also
\* a GET /logout of another client of the user.
DeleteSessions(u) ==
  /\ Mishap
  /\ account[u] # "gone" /\ u \notin leaving
  /\ leaving' = leaving \cup {u}
  /\ Remove(SessionsOf(u))
  /\ UNCHANGED <<now, account, issued, owner, clientVars, op>>

DeleteRow(u) ==
  /\ u \in leaving
  /\ leaving' = leaving \ {u}
  /\ account' = [account EXCEPT ![u] = "gone"]
  /\ UNCHANGED <<mishaps, calls, now, session, issued, owner, died, late, clientVars, op>>

Tick ==
  /\ now < MaxTime
  /\ now' = now + 1
  /\ died' = [s \in Ids |-> IF AliveIn(session, s, now) /\ ~AliveIn(session, s, now + 1)
                             THEN now + 1 ELSE died[s]]
  /\ late' = late \cup {s \in Ids : /\ AliveIn(session, s, now) /\ ~AliveIn(session, s, now + 1)
                                     /\ \E o \in Promises :
                                          op[o].pc = "mint" /\ op[o].hdr.session = s}
  /\ UNCHANGED <<mishaps, calls, account, session, issued, leaving, owner, clientVars, op>>

-----------------------------------------------------------------------------

\* The constructor takes tokens that were stored earlier: their session may
\* have expired or been deleted. With a refresh token it checks them at once.
Init ==
  /\ now = 0
  /\ account = [u \in Users |-> "verified"]
  /\ leaving = {} /\ issued = 1
  /\ \E u \in Users :
       /\ owner = [s \in Ids |-> IF s = 1 THEN u ELSE None]
       /\ \E row \in {None} \cup [user : {u}, expires : 1 .. RefreshTTL] :
            session = [s \in Ids |-> IF s = 1 THEN row ELSE None]
       /\ tok \in {None} \cup [user : {u}, session : {1, None}, exp : 0 .. AuthTTL]
  /\ died = [s \in Ids |-> IF s = 1 /\ ~AliveIn(session, s, 0) THEN 0 ELSE None]
  /\ notified = buildUser(tok)
  /\ late = {} /\ crossed = {} /\ quiet = FALSE /\ mishaps = 0 /\ calls = 0
  /\ \E o \in Promises :
       op = [p \in Promises |->
         IF p # o \/ tok = None THEN Idle
         ELSE IF tok.session = None THEN Idle
         ELSE [kind |-> "check", was |-> tok, hdr |-> tok, user |-> None,
               found |-> None, reply |-> "ok",
               stage |-> IF shouldRefresh(tok) THEN "refresh" ELSE "request",
               pc |-> IF shouldRefresh(tok) THEN "reauth" ELSE "send"]]

Server(o) ==
  \/ ReauthSession(o) \/ ReauthUser(o) \/ ServeLogin(o)
  \/ mint_new_tokens(o) \/ ServeLogout(o) \/ login_status_handler(o)

Answer(o) ==
  \/ refreshTokensImpl(o) \/ LoginAnswered(o)
  \/ LogoutAnswered(o) \/ CheckAnswered(o) \/ RefreshThrows(o)

Next ==
  \/ \E o \in Promises :
       \/ \E u \in Users : Call(o, "login", u)
       \/ Call(o, "logout", None)
       \/ refreshAuthToken(o)
       \/ Server(o) \/ Answer(o) \/ Fail(o) \/ Lose(o)
  \/ \E u \in Users : Unverify(u) \/ DeleteSessions(u) \/ DeleteRow(u)
  \/ Tick

Spec == Init /\ [][Next]_vars

-----------------------------------------------------------------------------
(* Properties.                                                             *)

\* Every variable has its type.
TypeOK ==
  /\ now \in 0 .. MaxTime
  /\ account \in [Users -> {"verified", "unverified", "gone"}]
  /\ session \in [Ids -> [user : Users, expires : Nat] \cup {None}]
  /\ issued \in Ids /\ leaving \subseteq Users
  /\ tok \in Tokens \cup {None} /\ notified \in Users \cup {None}
  /\ op \in [Promises ->
       [kind : Kinds \cup {"none"}, stage : {"none", "refresh", "request"},
        pc : {"idle", "reauth", "mint", "send", "insert", "answer"},
        was : Tokens \cup {None}, hdr : Tokens \cup {None},
        user : Users \cup {None}, found : Users \cup {None}, reply : Verdicts]]
  /\ owner \in [Ids -> Users \cup {None}]
  /\ died \in [Ids -> Nat \cup {None}] /\ late \subseteq Ids
  /\ crossed \subseteq Kinds /\ quiet \in BOOLEAN /\ mishaps \in 0 .. MaxMishaps
  /\ calls \in 0 .. MaxCalls

\* Tokens the client holds, or that are on their way to it.
Held == {tok} \cup {op[o].hdr : o \in Promises} \cup {op[o].was : o \in Promises}

\* client.ts merges a new auth token with the refresh token the request was
\* made with. However calls overlap, an auth token and the refresh token kept
\* beside it belong to the same user.
TokensOfOneSession ==
  \A t \in Held \ {None} : t.session # None => owner[t.session] = t.user

\* The only way to deceive the observer is the constructor's check answered
\* after another call replaced the tokens it had read.
DeceivedByCheckOnly == notified = buildUser(tok) \/ "check" \in crossed

\* logout.rs:23: a deleted session is not brought back to life by refresh
\* tokens. The auth tokens of a session that was deleted or ran out expire one
\* AuthTTL later, except where it went between the two queries of a reauth.
RevocationBounds ==
  \A t \in Held \ {None} :
    t.session # None /\ t.session \notin late /\ died[t.session] # None =>
      t.exp <= died[t.session] + AuthTTL

\* Once logout() ended with no other call under way, the client has no tokens
\* until somebody calls it again.
LoggedOutForGood == quiet => tok = None
=============================================================================
