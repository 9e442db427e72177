--------------------------- MODULE SessionsProofs ---------------------------
(***************************************************************************)
(* Theorems about Sessions, for any users, any number of promises under    *)
(* way, any lives of tokens and sessions and any bounds: types and the     *)
(* owners of tokens together (Inv), then logout, the observer, and the     *)
(* bound on revoked tokens (LifeInv), each on top of Inv.                  *)
(***************************************************************************)
EXTENDS Sessions, TLAPS

OpType ==
  [kind : Kinds \cup {"none"}, stage : {"none", "refresh", "request"},
   pc : {"idle", "reauth", "mint", "send", "insert", "answer"},
   was : Tokens \cup {None}, hdr : Tokens \cup {None},
   user : Users \cup {None}, found : Users \cup {None}, reply : Verdicts]

ServerType ==
  /\ account \in [Users -> {"verified", "unverified", "gone"}]
  /\ session \in [Ids -> [user : Users, expires : Nat] \cup {None}]
  /\ issued \in Ids /\ leaving \subseteq Users
  /\ owner \in [Ids -> Users \cup {None}]
  /\ died \in [Ids -> Nat \cup {None}] /\ late \subseteq Ids

ClientType ==
  /\ tok \in Tokens \cup {None} /\ notified \in Users \cup {None}
  /\ crossed \subseteq Kinds /\ quiet \in BOOLEAN

CountType ==
  /\ now \in 0 .. MaxTime /\ mishaps \in 0 .. MaxMishaps /\ calls \in 0 .. MaxCalls

LEMMA TypeParts ==
  TypeOK <=> ServerType /\ ClientType /\ CountType /\ op \in [Promises -> OpType]
  BY DEF TypeOK, ServerType, ClientType, CountType, OpType

LEMMA TypeNext ==
  ServerType' /\ ClientType' /\ CountType' /\ op' \in [Promises -> OpType] => TypeOK'
  BY DEF TypeOK, ServerType, ClientType, CountType, OpType

LEMMA OpUpdate ==
  ASSUME op \in [Promises -> OpType], NEW o \in Promises, NEW r \in OpType,
         op' = [op EXCEPT ![o] = r]
  PROVE  op' \in [Promises -> OpType]
  OBVIOUS

LEMMA IdleTyped == Idle \in OpType
  BY DEF Idle, OpType, Verdicts

LEMMA SetTokenTyped ==
  ASSUME TypeOK, NEW o \in Promises, NEW t \in Tokens \cup {None}, NEW b \in BOOLEAN,
         Writer(o) \in Kinds, setTokenState(o, t, b)
  PROVE  ClientType'
<1>1. buildUser(t) \in Users \cup {None}
  BY DEF buildUser, Tokens
<1> QED
  BY <1>1 DEF setTokenState, TypeOK, ClientType

LEMMA RemoveTyped ==
  ASSUME TypeOK, NEW ids \in SUBSET Ids, Remove(ids), UNCHANGED <<account, issued, leaving, owner>>
  PROVE  ServerType'
<1> USE SessionsAssumption
<1>1. session' \in [Ids -> [user : Users, expires : Nat] \cup {None}]
  BY DEF Remove, TypeOK
<1>2. died' \in [Ids -> Nat \cup {None}]
  BY DEF Remove, TypeOK
<1>3. late' \subseteq Ids
  BY DEF Remove, TypeOK
<1> QED
  BY <1>1, <1>2, <1>3 DEF TypeOK, ServerType

LEMMA ServerSame ==
  ASSUME ServerType, UNCHANGED serverVars
  PROVE  ServerType'
  BY DEF ServerType, serverVars

LEMMA ClientSame ==
  ASSUME ClientType, UNCHANGED clientVars
  PROVE  ClientType'
  BY DEF ClientType, clientVars

LEMMA CountSame ==
  ASSUME CountType, UNCHANGED <<now, mishaps, calls>>
  PROVE  CountType'
  BY DEF CountType

LEMMA Fields ==
  ASSUME TypeOK, NEW o \in Promises
  PROVE  /\ op[o] \in OpType
         /\ op[o].hdr \in Tokens \cup {None} /\ op[o].was \in Tokens \cup {None}
         /\ op[o].found \in Users \cup {None} /\ op[o].user \in Users \cup {None}
         /\ op[o].kind \in Kinds \cup {"none"} /\ op[o].reply \in Verdicts
  BY TypeParts DEF OpType

LEMMA MishapTyped ==
  ASSUME CountType, Mishap, UNCHANGED now
  PROVE  CountType'
  BY SessionsAssumption DEF CountType, Mishap

LEMMA BeginTyped ==
  ASSUME TypeOK, NEW o \in Promises, NEW k \in Kinds, NEW u \in Users \cup {None},
         NEW stage \in {"refresh", "request"}, NEW pc \in {"reauth", "send"},
         Begin(o, k, u, stage, pc), UNCHANGED <<now, mishaps>>
  PROVE  op' \in [Promises -> OpType] /\ CountType'
<1> DEFINE r == [kind |-> k, stage |-> stage, pc |-> pc, was |-> tok, hdr |-> tok,
                 user |-> u, found |-> None, reply |-> "ok"]
<1>1. r \in OpType
  BY DEF OpType, TypeOK, Verdicts
<1>2. op' = [op EXCEPT ![o] = r]
  BY DEF Begin
<1>3. op' \in [Promises -> OpType]
  BY <1>1, <1>2, OpUpdate, TypeParts
<1>4. CountType'
  BY SessionsAssumption DEF Begin, TypeOK, CountType
<1> QED
  BY <1>3, <1>4

LEMMA TypeInit == Init => TypeOK
<1> USE SessionsAssumption
<1> SUFFICES ASSUME Init PROVE TypeOK
  OBVIOUS
<1>1. PICK u \in Users :
        /\ owner = [s \in Ids |-> IF s = 1 THEN u ELSE None]
        /\ \E row \in {None} \cup [user : {u}, expires : 1 .. RefreshTTL] :
             session = [s \in Ids |-> IF s = 1 THEN row ELSE None]
        /\ tok \in {None} \cup [user : {u}, session : {1, None}, exp : 0 .. AuthTTL]
  BY DEF Init
<1>2. 1 \in Ids
  BY DEF Ids
<1>3. tok \in Tokens \cup {None}
  BY <1>1, <1>2 DEF Tokens
<1>4. ServerType
  <2>1. owner \in [Ids -> Users \cup {None}]
    BY <1>1
  <2>2. PICK row \in {None} \cup [user : {u}, expires : 1 .. RefreshTTL] :
             session = [s \in Ids |-> IF s = 1 THEN row ELSE None]
    BY <1>1
  <2>3. row \in [user : Users, expires : Nat] \cup {None}
    OBVIOUS
  <2>4. session \in [Ids -> [user : Users, expires : Nat] \cup {None}]
    BY <2>2, <2>3
  <2>5. died \in [Ids -> Nat \cup {None}]
    BY DEF Init
  <2> QED
    BY <1>2, <2>1, <2>4, <2>5 DEF Init, ServerType
<1>5. ClientType
  BY <1>3 DEF Init, ClientType, buildUser, Tokens
<1>6. CountType
  BY DEF Init, CountType
<1>7. op \in [Promises -> OpType]
  <2>1. PICK o \in Promises :
          op = [p \in Promises |->
            IF p # o \/ tok = None THEN Idle
            ELSE IF tok.session = None THEN Idle
            ELSE [kind |-> "check", was |-> tok, hdr |-> tok, user |-> None,
                  found |-> None, reply |-> "ok",
                  stage |-> IF shouldRefresh(tok) THEN "refresh" ELSE "request",
                  pc |-> IF shouldRefresh(tok) THEN "reauth" ELSE "send"]]
    BY DEF Init
  <2>2. [kind |-> "check", was |-> tok, hdr |-> tok, user |-> None,
         found |-> None, reply |-> "ok",
         stage |-> IF shouldRefresh(tok) THEN "refresh" ELSE "request",
         pc |-> IF shouldRefresh(tok) THEN "reauth" ELSE "send"] \in OpType
    BY <1>3 DEF OpType, Kinds, Verdicts
  <2> QED
    BY <2>1, <2>2, IdleTyped
<1> QED
  BY <1>4, <1>5, <1>6, <1>7, TypeParts

\* Tokens that name an issued session name the user it was made for.
Good(t, w, n) == t # None /\ t.session # None => t.session <= n /\ w[t.session] = t.user

\* A call's tokens are good; a reauth has a session, and has found its owner.
OpOwn(r, w, n) ==
  /\ Good(r.hdr, w, n) /\ Good(r.was, w, n)
  /\ r.pc \in {"reauth", "mint"} => r.hdr # None /\ r.hdr.session # None
  /\ r.pc = "mint" => r.found = w[r.hdr.session] /\ r.found # None
  /\ r.pc = "insert" => r.kind = "login"
  /\ r.kind = "login" => r.user # None
  /\ r.kind = "check" =>
       /\ r.was # None /\ r.was.session # None
       /\ r.hdr # None => r.hdr.session = r.was.session

OwnInv ==
  /\ Good(tok, owner, issued)
  /\ \A o \in Promises : OpOwn(op[o], owner, issued)
  /\ \A s \in Ids : session[s] # None => s <= issued /\ session[s].user = owner[s]

Inv == TypeOK /\ OwnInv

LEMMA IdleOwn == OpOwn(Idle, owner, issued)
  BY DEF OpOwn, Idle, Good

\* A step of one call that issues no session.
LEMMA OpStep ==
  ASSUME Inv, NEW o \in Promises, NEW r \in OpType, OpOwn(r, owner, issued),
         op' = [op EXCEPT ![o] = r], UNCHANGED <<owner, issued>>
  PROVE  /\ op' \in [Promises -> OpType]
         /\ \A p \in Promises : OpOwn(op'[p], owner', issued')
<1>1. op \in [Promises -> OpType]
  BY TypeParts DEF Inv
<1>2. op' \in [Promises -> OpType]
  BY <1>1, OpUpdate
<1>3. ASSUME NEW p \in Promises PROVE OpOwn(op'[p], owner', issued')
  <2>1. CASE p = o
    <3>1. op'[p] = r
      BY <1>1, <2>1
    <3> QED
      BY <3>1
  <2>2. CASE p # o
    <3>1. op'[p] = op[p]
      BY <1>1, <2>2
    <3> QED
      BY <3>1 DEF Inv, OwnInv
  <2> QED
    BY <2>1, <2>2
<1> QED
  BY <1>2, <1>3

\* A step of one call that changes nothing else.
LEMMA OpOnly ==
  ASSUME Inv, NEW o \in Promises, NEW r \in OpType, OpOwn(r, owner, issued),
         op' = [op EXCEPT ![o] = r], CountType', UNCHANGED <<serverVars, clientVars>>
  PROVE  Inv'
<1>1. UNCHANGED <<owner, issued, session, tok>>
  BY DEF serverVars, clientVars
<1>2. op' \in [Promises -> OpType] /\ \A p \in Promises : OpOwn(op'[p], owner', issued')
  BY <1>1, OpStep
<1>3. TypeOK'
  <2>1. ServerType /\ ClientType
    BY TypeParts DEF Inv
  <2> QED
    BY <1>2, <2>1, ServerSame, ClientSame, TypeNext
<1>4. OwnInv'
  BY <1>1, <1>2 DEF Inv, OwnInv
<1> QED
  BY <1>3, <1>4 DEF Inv

LEMMA OpFacts ==
  ASSUME Inv, NEW o \in Promises
  PROVE  /\ ServerType /\ ClientType /\ CountType /\ op \in [Promises -> OpType]
         /\ op[o] \in OpType /\ OpOwn(op[o], owner, issued)
         /\ op[o].hdr \in Tokens \cup {None} /\ op[o].was \in Tokens \cup {None}
         /\ op[o].found \in Users \cup {None} /\ op[o].user \in Users \cup {None}
         /\ op[o].reply \in Verdicts
  BY TypeParts, Fields DEF Inv, OwnInv

LEMMA ReauthSessionKeeps ==
  ASSUME Inv, NEW o \in Promises, ReauthSession(o)
  PROVE  Inv'
<1>0. /\ ServerType /\ op \in [Promises -> OpType] /\ op[o] \in OpType
      /\ OpOwn(op[o], owner, issued) /\ CountType /\ op[o].hdr \in Tokens \cup {None}
  BY OpFacts
<1>s. PICK s : s = op[o].hdr.session
  OBVIOUS
<1>1. s \in Ids
  BY <1>0, <1>s DEF OpOwn, ReauthSession, Tokens
<1>2. CountType'
  BY <1>0, CountSame DEF ReauthSession
<1>3. CASE Alive(s)
  <2>1. session[s].user \in Users /\ session[s].user = owner[s]
    BY <1>0, <1>1, <1>3 DEF Alive, ServerType, Inv, OwnInv
  <2>u. PICK u \in Users : u = session[s].user
    BY <2>1
  <2>r. PICK r : r = [op[o] EXCEPT !.pc = "mint", !.found = u]
    OBVIOUS
  <2>2. op' = [op EXCEPT ![o] = r]
    BY <1>s, <1>3, <2>r, <2>u DEF ReauthSession
  <2>3. r \in OpType
    BY <1>0, <2>r DEF OpType
  <2>4. /\ r.hdr = op[o].hdr /\ r.was = op[o].was /\ r.found = u /\ r.pc = "mint"
        /\ r.kind = op[o].kind /\ r.user = op[o].user
    BY <1>0, <2>r DEF OpType
  <2>5. u # None
    BY SessionsAssumption
  <2>6. OpOwn(r, owner, issued)
    BY <1>0, <1>s, <2>1, <2>u, <2>4, <2>5 DEF OpOwn, ReauthSession
  <2> QED
    BY <1>2, <2>2, <2>3, <2>6, OpOnly DEF ReauthSession
<1>4. CASE ~Alive(s)
  <2>r. PICK r : r = [op[o] EXCEPT !.pc = "answer", !.reply = "401"]
    OBVIOUS
  <2>2. op' = [op EXCEPT ![o] = r]
    BY <1>s, <1>4, <2>r DEF ReauthSession
  <2>3. r \in OpType
    BY <1>0, <2>r DEF OpType, Verdicts
  <2>4. /\ r.hdr = op[o].hdr /\ r.was = op[o].was /\ r.pc = "answer"
        /\ r.kind = op[o].kind /\ r.user = op[o].user
    BY <1>0, <2>r DEF OpType
  <2>6. OpOwn(r, owner, issued)
    BY <1>0, <2>4 DEF OpOwn
  <2> QED
    BY <1>2, <2>2, <2>3, <2>6, OpOnly DEF ReauthSession
<1> QED
  BY <1>3, <1>4

LEMMA ReauthUserKeeps ==
  ASSUME Inv, NEW o \in Promises, ReauthUser(o)
  PROVE  Inv'
<1>0. /\ ServerType /\ op \in [Promises -> OpType] /\ op[o] \in OpType
      /\ OpOwn(op[o], owner, issued) /\ CountType /\ op[o].hdr \in Tokens \cup {None}
      /\ op[o].found \in Users \cup {None}
  BY OpFacts
<1>2. CountType'
  BY <1>0, CountSame DEF ReauthUser
<1>u. PICK u : u = op[o].found
  OBVIOUS
<1>t. PICK t : t = [user |-> u, session |-> op[o].hdr.session, exp |-> now + AuthTTL]
  OBVIOUS
<1>3. /\ op[o].hdr # None /\ op[o].hdr \in Tokens /\ op[o].hdr.session # None
      /\ u = owner[op[o].hdr.session] /\ u \in Users /\ op[o].pc = "mint"
  BY <1>0, <1>u DEF ReauthUser, OpOwn
<1>4. t \in Tokens /\ Good(t, owner, issued)
  <2>1. now + AuthTTL \in Nat
    BY <1>0, SessionsAssumption DEF CountType
  <2>2. t \in Tokens
    BY <1>3, <1>t, <2>1 DEF Tokens
  <2> QED
    BY <1>0, <1>3, <1>t, <2>2 DEF OpOwn, Good
<1>5. CASE account[u] = "gone"
  <2>r. PICK r : r = [op[o] EXCEPT !.pc = "answer", !.reply = "401"]
    OBVIOUS
  <2>1. op' = [op EXCEPT ![o] = r]
    BY <1>5, <1>u, <2>r DEF ReauthUser
  <2>2. r \in OpType
    BY <1>0, <2>r DEF OpType, Verdicts
  <2>3. OpOwn(r, owner, issued)
    BY <1>0, <2>r DEF OpOwn, OpType
  <2> QED
    BY <1>2, <2>1, <2>2, <2>3, OpOnly DEF ReauthUser
<1>6. CASE account[u] = "unverified"
  <2>r. PICK r : r = [op[o] EXCEPT !.pc = "answer", !.reply = "lost"]
    OBVIOUS
  <2>1. op' = [op EXCEPT ![o] = r]
    BY <1>6, <1>u, <2>r DEF ReauthUser
  <2>2. r \in OpType
    BY <1>0, <2>r DEF OpType, Verdicts
  <2>3. OpOwn(r, owner, issued)
    BY <1>0, <2>r DEF OpOwn, OpType
  <2> QED
    BY <1>2, <2>1, <2>2, <2>3, OpOnly DEF ReauthUser
<1>7. CASE account[u] # "gone" /\ account[u] # "unverified"
  <2>r. PICK r : r = [op[o] EXCEPT !.pc = "answer", !.reply = "ok", !.hdr = t]
    OBVIOUS
  <2>1. op' = [op EXCEPT ![o] = r]
    <3>1. op' = [op EXCEPT ![o] = [op[o] EXCEPT !.pc = "answer", !.reply = "ok",
                     !.hdr = [user |-> u, session |-> op[o].hdr.session,
                              exp |-> now + AuthTTL]]]
      BY <1>7, <1>u DEF ReauthUser
    <3> QED
      BY <3>1, <1>t, <2>r
  <2>2. r \in OpType
    BY <1>0, <1>4, <2>r DEF OpType, Verdicts
  <2>3. OpOwn(r, owner, issued)
    <3>1. /\ r.hdr = t /\ r.was = op[o].was /\ r.pc = "answer"
          /\ r.kind = op[o].kind /\ r.user = op[o].user
      BY <1>0, <2>r DEF OpType
    <3> QED
      <4>1. t.session = op[o].hdr.session
        BY <1>t
      <4> QED
        BY <1>0, <1>3, <1>4, <3>1, <4>1 DEF OpOwn
  <2> QED
    BY <1>2, <2>1, <2>2, <2>3, OpOnly DEF ReauthUser
<1> QED
  BY <1>5, <1>6, <1>7

LEMMA ServeLoginKeeps ==
  ASSUME Inv, NEW o \in Promises, ServeLogin(o)
  PROVE  Inv'
<1>0. /\ op[o] \in OpType /\ OpOwn(op[o], owner, issued) /\ CountType
  BY OpFacts
<1>1. CountType'
  BY <1>0, CountSame DEF ServeLogin
<1>2. CASE account[op[o].user] = "verified"
  <2>r. PICK r : r = [op[o] EXCEPT !.pc = "insert"]
    OBVIOUS
  <2>1. op' = [op EXCEPT ![o] = r]
    BY <1>2, <2>r DEF ServeLogin
  <2>2. r \in OpType
    BY <1>0, <2>r DEF OpType
  <2>3. OpOwn(r, owner, issued)
    BY <1>0, <2>r DEF OpOwn, OpType, ServeLogin
  <2> QED
    BY <1>1, <2>1, <2>2, <2>3, OpOnly DEF ServeLogin
<1>3. CASE account[op[o].user] # "verified"
  <2>r. PICK r : r = [op[o] EXCEPT !.pc = "answer", !.reply = "401"]
    OBVIOUS
  <2>1. op' = [op EXCEPT ![o] = r]
    BY <1>3, <2>r DEF ServeLogin
  <2>2. r \in OpType
    BY <1>0, <2>r DEF OpType, Verdicts
  <2>3. OpOwn(r, owner, issued)
    BY <1>0, <2>r DEF OpOwn, OpType
  <2> QED
    BY <1>1, <2>1, <2>2, <2>3, OpOnly DEF ServeLogin
<1> QED
  BY <1>2, <1>3

LEMMA CheckServedKeeps ==
  ASSUME Inv, NEW o \in Promises, login_status_handler(o)
  PROVE  Inv'
<1>0. /\ op[o] \in OpType /\ OpOwn(op[o], owner, issued) /\ CountType
  BY OpFacts
<1>1. CountType'
  BY <1>0, CountSame DEF login_status_handler
<1>2. CASE ~Accepted(op[o].hdr)
  <2>r. PICK r : r = [op[o] EXCEPT !.pc = "answer", !.hdr = None]
    OBVIOUS
  <2>1. op' = [op EXCEPT ![o] = r]
    BY <1>2, <2>r DEF login_status_handler
  <2>2. r \in OpType
    BY <1>0, <2>r DEF OpType
  <2>3. OpOwn(r, owner, issued)
    BY <1>0, <2>r DEF OpOwn, OpType, Good
  <2> QED
    BY <1>1, <2>1, <2>2, <2>3, OpOnly DEF login_status_handler
<1>3. CASE Accepted(op[o].hdr) /\ op[o].hdr.session # None
  <2>r. PICK r : r = [op[o] EXCEPT !.pc = "reauth"]
    OBVIOUS
  <2>1. op' = [op EXCEPT ![o] = r]
    BY <1>3, <2>r DEF login_status_handler
  <2>2. r \in OpType
    BY <1>0, <2>r DEF OpType
  <2>3. OpOwn(r, owner, issued)
    BY <1>0, <1>3, <2>r DEF OpOwn, OpType, Accepted
  <2> QED
    BY <1>1, <2>1, <2>2, <2>3, OpOnly DEF login_status_handler
<1>4. CASE Accepted(op[o].hdr) /\ op[o].hdr.session = None
  <2>r. PICK r : r = [op[o] EXCEPT !.pc = "answer"]
    OBVIOUS
  <2>1. op' = [op EXCEPT ![o] = r]
    BY <1>4, <2>r DEF login_status_handler
  <2>2. r \in OpType
    BY <1>0, <2>r DEF OpType
  <2>3. OpOwn(r, owner, issued)
    BY <1>0, <2>r DEF OpOwn, OpType
  <2> QED
    BY <1>1, <2>1, <2>2, <2>3, OpOnly DEF login_status_handler
<1> QED
  BY <1>2, <1>3, <1>4

\* A login gets the next session: what was good stays good.
LEMMA MintKeeps ==
  ASSUME Inv, NEW o \in Promises, mint_new_tokens(o)
  PROVE  Inv'
<1>0. /\ ServerType /\ ClientType /\ CountType /\ op \in [Promises -> OpType]
      /\ op[o] \in OpType /\ OpOwn(op[o], owner, issued)
  BY OpFacts
<1>u. PICK u : u = op[o].user
  OBVIOUS
<1>s. PICK s : s = issued + 1
  OBVIOUS
<1>t. PICK t : t = [user |-> u, session |-> s, exp |-> now + AuthTTL]
  OBVIOUS
<1>r. PICK r : r = [op[o] EXCEPT !.pc = "answer", !.hdr = t]
  OBVIOUS
<1>1. /\ issued' = s /\ owner' = [owner EXCEPT ![s] = u]
      /\ session' = [session EXCEPT ![s] = [user |-> u, expires |-> now + RefreshTTL]]
      /\ op' = [op EXCEPT ![o] = r]
  <2>1. op' = [op EXCEPT ![o].pc = "answer",
                         ![o].hdr = [user |-> u, session |-> s, exp |-> now + AuthTTL]]
    BY <1>u, <1>s DEF mint_new_tokens
  <2>2. op' = [op EXCEPT ![o] = r]
    BY <1>0, <1>t, <1>r, <2>1
  <2> QED
    BY <1>u, <1>s, <2>2 DEF mint_new_tokens
<1>2. s \in Ids /\ issued \in Nat /\ s \in Nat
  <2>1. issued < MaxSessions /\ issued \in Ids
    BY <1>0 DEF mint_new_tokens, ServerType
  <2> QED
    BY <1>s, <2>1, SessionsAssumption DEF Ids
<1>3. u \in Users
  BY <1>0, <1>u DEF mint_new_tokens, OpOwn, OpType
<1>4. t \in Tokens
  BY <1>0, <1>2, <1>3, <1>t, SessionsAssumption DEF Tokens, CountType
<1>5. r \in OpType
  BY <1>0, <1>4, <1>r DEF OpType
<1>6. op' \in [Promises -> OpType]
  BY <1>0, <1>1, <1>5
<1>7. ServerType'
  <2>1. now + RefreshTTL \in Nat
    BY <1>0, SessionsAssumption DEF CountType
  <2>2. session' \in [Ids -> [user : Users, expires : Nat] \cup {None}]
    BY <1>0, <1>1, <1>2, <1>3, <2>1 DEF ServerType
  <2>3. owner' \in [Ids -> Users \cup {None}]
    BY <1>0, <1>1, <1>2, <1>3 DEF ServerType
  <2> QED
    BY <1>0, <1>1, <1>2, <2>2, <2>3 DEF ServerType, mint_new_tokens
<1>8. TypeOK'
  <2>1. ClientType'
    BY <1>0, ClientSame DEF mint_new_tokens
  <2>2. CountType'
    BY <1>0, CountSame DEF mint_new_tokens
  <2> QED
    BY <1>6, <1>7, <2>1, <2>2, TypeNext
<1>9. ASSUME NEW x \in Tokens \cup {None}, Good(x, owner, issued)
      PROVE  Good(x, owner', issued')
  <2>1. CASE x # None /\ x.session # None
    <3>1. x.session \in Ids /\ x.session <= issued
      BY <1>9, <2>1 DEF Good, Tokens
    <3>2. x.session # s /\ x.session <= s
      BY <1>2, <1>s, <3>1 DEF Ids
    <3>3. owner'[x.session] = owner[x.session]
      BY <1>0, <1>1, <3>1, <3>2 DEF ServerType
    <3> QED
      BY <1>1, <1>9, <2>1, <3>2, <3>3 DEF Good
  <2>2. CASE x = None \/ x.session = None
    BY <2>2 DEF Good
  <2> QED
    BY <2>1, <2>2
<1>10. ASSUME NEW p \in Promises PROVE OpOwn(op'[p], owner', issued')
  <2>0. /\ op[p] \in OpType /\ OpOwn(op[p], owner, issued)
        /\ op[p].hdr \in Tokens \cup {None} /\ op[p].was \in Tokens \cup {None}
    BY OpFacts
  <2>1. Good(op[p].hdr, owner', issued') /\ Good(op[p].was, owner', issued')
    BY <1>9, <2>0 DEF OpOwn
  <2>2. CASE p = o
    <3>1. op'[p] = r
      BY <1>0, <1>1, <2>2
    <3>2. /\ r.hdr = t /\ r.was = op[o].was /\ r.pc = "answer"
          /\ r.kind = op[o].kind /\ r.user = op[o].user
      BY <1>0, <1>r DEF OpType
    <3>3. Good(t, owner', issued')
      <4>1. owner'[s] = u /\ issued' = s /\ s <= s
        BY <1>0, <1>1, <1>2 DEF ServerType
      <4> QED
        BY <1>t, <4>1 DEF Good
    <3> QED
      <4>1. op[o].kind = "login"
        BY <1>0 DEF mint_new_tokens, OpOwn
      <4> QED
        BY <2>0, <2>1, <2>2, <3>1, <3>2, <3>3, <4>1 DEF OpOwn
  <2>3. CASE p # o
    <3>1. op'[p] = op[p]
      BY <1>0, <1>1, <2>3
    <3>2. ASSUME op[p].pc = "mint"
          PROVE  owner'[op[p].hdr.session] = owner[op[p].hdr.session]
      <4>1. op[p].hdr # None /\ op[p].hdr.session # None
        BY <2>0, <3>2 DEF OpOwn
      <4>2. op[p].hdr.session \in Ids /\ op[p].hdr.session <= issued
        BY <2>0, <4>1 DEF OpOwn, Good, Tokens
      <4>3. op[p].hdr.session # s
        BY <1>2, <1>s, <4>2 DEF Ids
      <4> QED
        BY <1>0, <1>1, <4>2, <4>3 DEF ServerType
    <3> QED
      BY <2>0, <2>1, <3>1, <3>2 DEF OpOwn
  <2> QED
    BY <2>2, <2>3
<1>11. ASSUME NEW x \in Ids, session'[x] # None
       PROVE  x <= issued' /\ session'[x].user = owner'[x]
  <2>1. CASE x = s
    <3>1. session'[x].user = u /\ owner'[x] = u
      BY <1>0, <1>1, <1>2, <2>1 DEF ServerType
    <3> QED
      BY <1>1, <1>2, <2>1, <3>1
  <2>2. CASE x # s
    <3>1. session'[x] = session[x] /\ owner'[x] = owner[x]
      BY <1>0, <1>1, <1>2, <2>2 DEF ServerType
    <3>2. x <= issued /\ session[x].user = owner[x] /\ x \in Nat
      BY <1>11, <3>1 DEF Inv, OwnInv, Ids
    <3> QED
      BY <1>1, <1>2, <1>s, <3>1, <3>2
  <2> QED
    BY <2>1, <2>2
<1>12. Good(tok', owner', issued')
  BY <1>0, <1>9 DEF mint_new_tokens, clientVars, ClientType, Inv, OwnInv
<1> QED
  BY <1>8, <1>10, <1>11, <1>12 DEF Inv, OwnInv

\* Deleting sessions gives no session another owner.
LEMMA RemoveOwn ==
  ASSUME Inv, NEW ids \in SUBSET Ids, Remove(ids), UNCHANGED <<owner, issued>>,
         NEW s \in Ids, session'[s] # None
  PROVE  s <= issued' /\ session'[s].user = owner'[s]
<1>1. session'[s] = session[s]
  BY DEF Remove
<1> QED
  BY <1>1 DEF Inv, OwnInv

LEMMA LogoutServedKeeps ==
  ASSUME Inv, NEW o \in Promises, ServeLogout(o)
  PROVE  Inv'
<1>0. /\ ServerType /\ ClientType /\ CountType /\ op[o] \in OpType
      /\ OpOwn(op[o], owner, issued)
      /\ op[o].was \in Tokens \cup {None} /\ op \in [Promises -> OpType]
  BY OpFacts
<1>i. PICK ids : ids = (IF op[o].was # None /\ op[o].was.session # None
                        THEN {op[o].was.session}
                        ELSE IF Accepted(op[o].hdr) THEN SessionsOf(op[o].hdr.user) ELSE {})
  OBVIOUS
<1>1. ids \in SUBSET Ids
  BY <1>0, <1>i DEF Tokens, SessionsOf
<1>2. Remove(ids)
  BY <1>i DEF ServeLogout
<1>r. PICK r : r = [op[o] EXCEPT !.pc = "answer"]
  OBVIOUS
<1>3. op' = [op EXCEPT ![o] = r]
  BY <1>0, <1>r DEF ServeLogout
<1>4. r \in OpType
  BY <1>0, <1>r DEF OpType
<1>5. OpOwn(r, owner, issued)
  BY <1>0, <1>r DEF OpOwn, OpType
<1>6. UNCHANGED <<owner, issued, account, leaving, tok>>
  BY DEF ServeLogout, clientVars
<1>7. op' \in [Promises -> OpType] /\ \A p \in Promises : OpOwn(op'[p], owner', issued')
  BY <1>3, <1>4, <1>5, <1>6, OpStep
<1>8. TypeOK'
  <2>1. ClientType'
    BY <1>0, ClientSame DEF ServeLogout
  <2>2. CountType'
    BY <1>0, CountSame DEF ServeLogout
  <2>3. ServerType'
    BY <1>1, <1>2, <1>6, RemoveTyped DEF Inv
  <2> QED
    BY <1>7, <2>1, <2>2, <2>3, TypeNext
<1>9. \A s \in Ids : session'[s] # None => s <= issued' /\ session'[s].user = owner'[s]
  BY <1>1, <1>2, <1>6, RemoveOwn
<1>10. Good(tok', owner', issued')
  BY <1>6 DEF Inv, OwnInv
<1> QED
  BY <1>7, <1>8, <1>9, <1>10 DEF Inv, OwnInv

\* A call's answer stores a state.
LEMMA StoreKeeps ==
  ASSUME Inv, NEW o \in Promises, NEW r \in OpType, OpOwn(r, owner, issued),
         op' = [op EXCEPT ![o] = r], UNCHANGED <<mishaps, calls, now, serverVars>>,
         ClientType', Good(tok', owner, issued)
  PROVE  Inv'
<1>1. UNCHANGED <<owner, issued, session>>
  BY DEF serverVars
<1>2. op' \in [Promises -> OpType] /\ \A p \in Promises : OpOwn(op'[p], owner', issued')
  BY <1>1, OpStep
<1>3. TypeOK'
  <2>1. ServerType /\ CountType
    BY TypeParts DEF Inv
  <2> QED
    BY <1>2, <2>1, ServerSame, CountSame, TypeNext
<1>4. OwnInv'
  BY <1>1, <1>2 DEF Inv, OwnInv
<1> QED
  BY <1>3, <1>4 DEF Inv

LEMMA RefreshAnsweredKeeps ==
  ASSUME Inv, NEW o \in Promises, refreshTokensImpl(o)
  PROVE  Inv'
<1>0. /\ op[o] \in OpType /\ OpOwn(op[o], owner, issued)
      /\ op[o].hdr \in Tokens \cup {None}
  BY OpFacts
<1>t. PICK t : t = (IF Rejected(op[o].reply) THEN None ELSE RefreshedTokens(o))
  OBVIOUS
<1>1. t \in Tokens \cup {None} /\ Good(t, owner, issued)
  BY <1>0, <1>t DEF RefreshedTokens, OpOwn, Good
<1>2. ClientType' /\ tok' = t
  <2>1. setTokenState(o, t, FALSE)
    BY <1>t DEF refreshTokensImpl
  <2>2. Writer(o) \in Kinds
    BY DEF Writer, Kinds, refreshTokensImpl
  <2>3. ClientType'
    BY <1>1, <2>1, <2>2, SetTokenTyped DEF Inv
  <2> QED
    BY <2>1, <2>3 DEF setTokenState
<1>3. UNCHANGED <<mishaps, calls, now, serverVars>>
  BY DEF refreshTokensImpl
<1>4. CASE op[o].kind = "refresh"
  <2>1. op' = [op EXCEPT ![o] = Idle]
    BY <1>4 DEF refreshTokensImpl, Settle
  <2> QED
    BY <1>1, <1>2, <1>3, <2>1, IdleTyped, IdleOwn, StoreKeeps
<1>5. CASE op[o].kind # "refresh"
  <2>r. PICK r : r = [op[o] EXCEPT !.stage = "request", !.pc = "send",
                                   !.hdr = t, !.reply = "ok"]
    OBVIOUS
  <2>1. op' = [op EXCEPT ![o] = r]
    BY <1>5, <1>t, <2>r DEF refreshTokensImpl
  <2>2. r \in OpType
    BY <1>0, <1>1, <2>r DEF OpType, Verdicts
  <2>3. OpOwn(r, owner, issued)
    <3>1. /\ r.hdr = t /\ r.was = op[o].was /\ r.pc = "send"
          /\ r.kind = op[o].kind /\ r.user = op[o].user
      BY <1>0, <2>r DEF OpType
    <3>2. t = None \/ t = op[o].hdr
      BY <1>t DEF RefreshedTokens
    <3> QED
      BY <1>0, <1>1, <3>1, <3>2 DEF OpOwn
  <2> QED
    BY <1>1, <1>2, <1>3, <2>1, <2>2, <2>3, StoreKeeps
<1> QED
  BY <1>4, <1>5

\* An answer that ends its call and stores t, or nothing.
LEMMA SettleKeeps ==
  ASSUME Inv, NEW o \in Promises, Settle(o), UNCHANGED <<mishaps, calls, now, serverVars>>,
         ClientType', Good(tok', owner, issued)
  PROVE  Inv'
<1>1. op' = [op EXCEPT ![o] = Idle]
  BY DEF Settle
<1> QED
  BY <1>1, IdleTyped, IdleOwn, StoreKeeps

LEMMA NothingStored ==
  ASSUME Inv, NoTokenChange
  PROVE  ClientType' /\ Good(tok', owner, issued)
<1>1. ClientType
  BY TypeParts DEF Inv
<1> QED
  BY <1>1 DEF NoTokenChange, clientVars, ClientType, Inv, OwnInv

LEMMA LoginAnsweredKeeps ==
  ASSUME Inv, NEW o \in Promises, LoginAnswered(o)
  PROVE  Inv'
<1>0. OpOwn(op[o], owner, issued) /\ op[o].hdr \in Tokens \cup {None}
  BY OpFacts
<1>1. ClientType' /\ Good(tok', owner, issued)
  <2>1. CASE op[o].reply = "ok"
    <3>1. setTokenState(o, op[o].hdr, FALSE)
      BY <2>1 DEF LoginAnswered
    <3>2. Writer(o) \in Kinds
      BY DEF Writer, Kinds, LoginAnswered, Answered
    <3>3. ClientType'
      BY <1>0, <3>1, <3>2, SetTokenTyped DEF Inv
    <3> QED
      BY <1>0, <3>1, <3>3 DEF setTokenState, OpOwn
  <2>2. CASE op[o].reply # "ok"
    BY <2>2, NothingStored DEF LoginAnswered
  <2> QED
    BY <2>1, <2>2
<1> QED
  BY <1>1, SettleKeeps DEF LoginAnswered

LEMMA LogoutAnsweredKeeps ==
  ASSUME Inv, NEW o \in Promises, LogoutAnswered(o)
  PROVE  Inv'
<1>1. ClientType
  BY TypeParts DEF Inv
<1>2. tok' = None /\ notified' = None
  BY DEF LogoutAnswered, TokensAfterLogout, buildUser
<1>3. crossed' \subseteq Kinds /\ quiet' \in BOOLEAN
  BY <1>1 DEF LogoutAnswered, ClientType, Kinds
<1>4. ClientType'
  BY <1>2, <1>3 DEF ClientType
<1>5. Good(tok', owner, issued)
  BY <1>2 DEF Good
<1> QED
  BY <1>4, <1>5, SettleKeeps DEF LogoutAnswered

LEMMA CheckAnsweredKeeps ==
  ASSUME Inv, NEW o \in Promises, CheckAnswered(o)
  PROVE  Inv'
<1>0. OpOwn(op[o], owner, issued) /\ op[o].hdr \in Tokens \cup {None}
  BY OpFacts
<1>1. ClientType' /\ Good(tok', owner, issued)
  <2>1. CASE op[o].reply = "lost"
    BY <2>1, NothingStored DEF CheckAnswered
  <2>2. CASE op[o].reply # "lost"
    <3>t. PICK t : t = CheckedTokens(o)
      OBVIOUS
    <3>1. t \in Tokens \cup {None} /\ Good(t, owner, issued)
      BY <1>0, <3>t DEF CheckedTokens, OpOwn, Good
    <3>2. setTokenState(o, t, SkipCb(t))
      BY <2>2, <3>t DEF CheckAnswered
    <3>3. Writer(o) \in Kinds
      BY DEF Writer, Kinds, CheckAnswered, Answered
    <3>b. SkipCb(t) \in BOOLEAN
      BY DEF SkipCb
    <3>4. ClientType'
      BY <3>1, <3>2, <3>3, <3>b, SetTokenTyped DEF Inv
    <3> QED
      BY <3>1, <3>2, <3>4 DEF setTokenState
  <2> QED
    BY <2>1, <2>2
<1> QED
  BY <1>1, SettleKeeps DEF CheckAnswered

LEMMA RefreshThrowsKeeps ==
  ASSUME Inv, NEW o \in Promises, RefreshThrows(o)
  PROVE  Inv'
<1>1. ClientType' /\ Good(tok', owner, issued)
  BY NothingStored DEF RefreshThrows, NoTokenChange
<1> QED
  BY <1>1, SettleKeeps DEF RefreshThrows

LEMMA CallKeeps ==
  ASSUME Inv, NEW o \in Promises, NEW k \in {"login", "logout"}, NEW u \in Users \cup {None},
         k = "login" => u # None, Call(o, k, u)
  PROVE  Inv'
<1>0. ServerType /\ ClientType /\ CountType /\ tok \in Tokens \cup {None}
  BY TypeParts DEF Inv, ClientType
<1>1. PICK stage \in {"refresh", "request"}, pc \in {"reauth", "send"} :
        /\ Begin(o, k, u, stage, pc)
        /\ pc = "reauth" => tok # None /\ tok.session # None
  BY DEF Call, shouldRefresh
<1>r. PICK r : r = [kind |-> k, stage |-> stage, pc |-> pc, was |-> tok, hdr |-> tok,
                    user |-> u, found |-> None, reply |-> "ok"]
  OBVIOUS
<1>2. op' = [op EXCEPT ![o] = r]
  BY <1>1, <1>r DEF Begin
<1>3. r \in OpType
  BY <1>0, <1>r DEF OpType, Verdicts, Kinds
<1>4. OpOwn(r, owner, issued)
  BY <1>1, <1>r DEF OpOwn, Inv, OwnInv
<1>5. UNCHANGED <<owner, issued, session, tok, mishaps, now, serverVars>>
  BY DEF Call, serverVars
<1>6. op' \in [Promises -> OpType] /\ \A p \in Promises : OpOwn(op'[p], owner', issued')
  BY <1>2, <1>3, <1>4, <1>5, OpStep
<1>7. k \in Kinds
  BY DEF Kinds
<1>8. CountType'
  BY <1>1, <1>5, <1>7, BeginTyped DEF Inv
<1>9. ClientType'
  BY <1>0 DEF ClientType, Call
<1>10. TypeOK'
  BY <1>0, <1>5, <1>6, <1>8, <1>9, ServerSame, TypeNext
<1> QED
  BY <1>5, <1>6, <1>10 DEF Inv, OwnInv

LEMMA RefreshCalledKeeps ==
  ASSUME Inv, NEW o \in Promises, refreshAuthToken(o)
  PROVE  Inv'
<1>0. tok \in Tokens \cup {None}
  BY TypeParts DEF Inv, ClientType
<1>r. PICK r : r = [kind |-> "refresh", stage |-> "refresh", pc |-> "reauth", was |-> tok,
                    hdr |-> tok, user |-> None, found |-> None, reply |-> "ok"]
  OBVIOUS
<1>1. op' = [op EXCEPT ![o] = r]
  BY <1>r DEF refreshAuthToken, Begin
<1>2. r \in OpType
  BY <1>0, <1>r DEF OpType, Verdicts, Kinds
<1>3. OpOwn(r, owner, issued)
  BY <1>r DEF OpOwn, Inv, OwnInv, refreshAuthToken
<1>4. CountType'
  <2>1. "refresh" \in Kinds
    BY DEF Kinds
  <2> QED
    BY <2>1, BeginTyped DEF refreshAuthToken, Inv
<1> QED
  BY <1>1, <1>2, <1>3, <1>4, OpOnly DEF refreshAuthToken

LEMMA MishapsKeep ==
  ASSUME Inv, NEW o \in Promises, Lose(o) \/ Fail(o)
  PROVE  Inv'
<1>0. /\ op[o] \in OpType /\ OpOwn(op[o], owner, issued) /\ CountType
      /\ op \in [Promises -> OpType]
  BY OpFacts
<1>1. PICK v \in Verdicts :
        /\ Mishap /\ UNCHANGED <<now, serverVars, clientVars>>
        /\ op' = [op EXCEPT ![o].pc = "answer", ![o].reply = v, ![o].hdr = None]
  BY DEF Lose, Fail, Verdicts
<1>r. PICK r : r = [op[o] EXCEPT !.pc = "answer", !.reply = v, !.hdr = None]
  OBVIOUS
<1>2. op' = [op EXCEPT ![o] = r]
  BY <1>0, <1>1, <1>r
<1>3. r \in OpType
  BY <1>0, <1>r DEF OpType
<1>4. OpOwn(r, owner, issued)
  BY <1>0, <1>r DEF OpOwn, OpType, Good
<1>5. CountType'
  BY <1>0, <1>1, MishapTyped
<1> QED
  BY <1>1, <1>2, <1>3, <1>4, <1>5, OpOnly

LEMMA OthersKeep ==
  ASSUME Inv, NEW u \in Users, Unverify(u) \/ DeleteSessions(u) \/ DeleteRow(u)
  PROVE  Inv'
<1>0. ServerType /\ ClientType /\ CountType /\ op \in [Promises -> OpType]
  BY TypeParts DEF Inv
<1>1. UNCHANGED <<owner, issued, clientVars, op, now, tok>>
  BY DEF Unverify, DeleteSessions, DeleteRow, clientVars
<1>2. CountType'
  BY <1>0, MishapTyped, CountSame DEF Unverify, DeleteSessions, DeleteRow
<1>3. /\ ServerType'
      /\ \A s \in Ids : session'[s] # None => s <= issued' /\ session'[s].user = owner'[s]
  <2>1. CASE Unverify(u)
    <3>1. UNCHANGED <<session, issued, leaving, owner, died, late>>
      BY <2>1 DEF Unverify
    <3>2. account' \in [Users -> {"verified", "unverified", "gone"}]
      BY <1>0, <2>1 DEF Unverify, ServerType
    <3> QED
      BY <1>0, <3>1, <3>2 DEF ServerType, Inv, OwnInv
  <2>2. CASE DeleteSessions(u)
    <3>i. PICK ids : ids = SessionsOf(u)
      OBVIOUS
    <3>1. ids \in SUBSET Ids /\ Remove(ids)
      BY <2>2, <3>i DEF SessionsOf, DeleteSessions
    <3>2. \A s \in Ids : session'[s] # None => s <= issued' /\ session'[s].user = owner'[s]
      BY <1>1, <3>1, RemoveOwn
    <3>3. leaving' \subseteq Users /\ UNCHANGED <<account, issued, owner>>
      BY <1>0, <2>2 DEF DeleteSessions, ServerType
    <3>4. /\ session' \in [Ids -> [user : Users, expires : Nat] \cup {None}]
          /\ died' \in [Ids -> Nat \cup {None}]
          /\ late' \subseteq Ids
      BY <1>0, <3>1, SessionsAssumption DEF Remove, ServerType, CountType
    <3> QED
      BY <1>0, <3>2, <3>3, <3>4 DEF ServerType
  <2>3. CASE DeleteRow(u)
    <3>1. UNCHANGED <<session, issued, owner, died, late>>
      BY <2>3 DEF DeleteRow
    <3>2. /\ account' \in [Users -> {"verified", "unverified", "gone"}]
          /\ leaving' \subseteq Users
      BY <1>0, <2>3 DEF DeleteRow, ServerType
    <3> QED
      BY <1>0, <3>1, <3>2 DEF ServerType, Inv, OwnInv
  <2> QED
    BY <2>1, <2>2, <2>3
<1>4. TypeOK'
  <2>1. ClientType'
    BY <1>0, <1>1, ClientSame
  <2> QED
    BY <1>0, <1>1, <1>2, <1>3, <2>1, TypeNext
<1>5. OwnInv'
  BY <1>1, <1>3 DEF Inv, OwnInv
<1> QED
  BY <1>4, <1>5 DEF Inv

LEMMA TickKeeps ==
  ASSUME Inv, Tick
  PROVE  Inv'
<1>0. ServerType /\ ClientType /\ CountType /\ op \in [Promises -> OpType]
  BY TypeParts DEF Inv
<1>1. UNCHANGED <<owner, issued, session, tok, op, account, leaving>>
  BY DEF Tick, clientVars
<1>2. CountType'
  BY <1>0, SessionsAssumption DEF Tick, CountType
<1>3. died' \in [Ids -> Nat \cup {None}] /\ late' \subseteq Ids
  <2>1. now + 1 \in Nat
    BY <1>0, SessionsAssumption DEF CountType
  <2> QED
    BY <1>0, <2>1 DEF Tick, ServerType
<1>4. TypeOK'
  <2>1. ClientType'
    BY <1>0, ClientSame DEF Tick
  <2>2. ServerType'
    BY <1>0, <1>1, <1>3 DEF ServerType
  <2> QED
    BY <1>0, <1>1, <1>2, <2>1, <2>2, TypeNext
<1>5. OwnInv'
  BY <1>1 DEF Inv, OwnInv
<1> QED
  BY <1>4, <1>5 DEF Inv

LEMMA InvInit == Init => Inv
<1> SUFFICES ASSUME Init PROVE OwnInv
  BY TypeInit DEF Inv
<1>0. tok \in Tokens \cup {None}
  BY TypeInit, TypeParts DEF ClientType
<1>1. PICK u \in Users :
        /\ owner = [s \in Ids |-> IF s = 1 THEN u ELSE None]
        /\ \E row \in {None} \cup [user : {u}, expires : 1 .. RefreshTTL] :
             session = [s \in Ids |-> IF s = 1 THEN row ELSE None]
        /\ tok \in {None} \cup [user : {u}, session : {1, None}, exp : 0 .. AuthTTL]
  BY DEF Init
<1>2. issued = 1 /\ 1 \in Ids
  BY SessionsAssumption DEF Init, Ids
<1>3. Good(tok, owner, issued)
  BY <1>1, <1>2 DEF Good
<1>4. \A s \in Ids : session[s] # None => s <= issued /\ session[s].user = owner[s]
  <2>1. PICK row \in {None} \cup [user : {u}, expires : 1 .. RefreshTTL] :
             session = [s \in Ids |-> IF s = 1 THEN row ELSE None]
    BY <1>1
  <2> QED
    BY <1>1, <1>2, <2>1
<1>5. ASSUME NEW p \in Promises PROVE OpOwn(op[p], owner, issued)
  <2>1. PICK o \in Promises :
          op = [x \in Promises |->
            IF x # o \/ tok = None THEN Idle
            ELSE IF tok.session = None THEN Idle
            ELSE [kind |-> "check", was |-> tok, hdr |-> tok, user |-> None,
                  found |-> None, reply |-> "ok",
                  stage |-> IF shouldRefresh(tok) THEN "refresh" ELSE "request",
                  pc |-> IF shouldRefresh(tok) THEN "reauth" ELSE "send"]]
    BY DEF Init
  <2>2. CASE p # o \/ tok = None \/ tok.session = None
    <3>1. op[p] = Idle
      BY <2>1, <2>2
    <3> QED
      BY <3>1, IdleOwn
  <2>3. CASE p = o /\ tok # None /\ tok.session # None
    <3>1. op[p] = [kind |-> "check", was |-> tok, hdr |-> tok, user |-> None,
                   found |-> None, reply |-> "ok",
                   stage |-> IF shouldRefresh(tok) THEN "refresh" ELSE "request",
                   pc |-> IF shouldRefresh(tok) THEN "reauth" ELSE "send"]
      BY <2>1, <2>3
    <3> QED
      BY <1>3, <2>3, <3>1 DEF OpOwn
  <2> QED
    BY <2>2, <2>3
<1> QED
  BY <1>3, <1>4, <1>5 DEF OwnInv

LEMMA InvStep == Inv /\ [Next]_vars => Inv'
<1> SUFFICES ASSUME Inv, [Next]_vars PROVE Inv'
  OBVIOUS
<1>1. ASSUME NEW o \in Promises, NEW u \in Users, Call(o, "login", u) PROVE Inv'
  <2>1. u # None
    BY SessionsAssumption
  <2> QED
    BY <1>1, <2>1, CallKeeps
<1>2. ASSUME NEW o \in Promises, Call(o, "logout", None) PROVE Inv'
  BY <1>2, CallKeeps
<1>3. ASSUME NEW o \in Promises, Server(o) PROVE Inv'
  BY <1>3, ReauthSessionKeeps, ReauthUserKeeps, ServeLoginKeeps, MintKeeps,
     LogoutServedKeeps, CheckServedKeeps DEF Server
<1>4. ASSUME NEW o \in Promises, Answer(o) PROVE Inv'
  BY <1>4, RefreshAnsweredKeeps, LoginAnsweredKeeps, LogoutAnsweredKeeps,
     CheckAnsweredKeeps, RefreshThrowsKeeps DEF Answer
<1>5. CASE UNCHANGED vars
  <2>1. UNCHANGED <<serverVars, clientVars, now, mishaps, calls, op>>
    BY <1>5 DEF vars
  <2>2. ServerType /\ ClientType /\ CountType /\ op \in [Promises -> OpType]
    BY TypeParts DEF Inv
  <2>3. TypeOK'
    BY <2>1, <2>2, ServerSame, ClientSame, CountSame, TypeNext
  <2>4. OwnInv'
    BY <2>1 DEF serverVars, clientVars, Inv, OwnInv
  <2> QED
    BY <2>3, <2>4 DEF Inv
<1> QED
  BY <1>1, <1>2, <1>3, <1>4, <1>5, RefreshCalledKeeps, MishapsKeep, OthersKeep, TickKeeps
    DEF Next

LEMMA InvHolds == Spec => []Inv
  BY InvInit, InvStep, PTL DEF Spec

\* Every variable of the client, the server and the calls keeps its type.
THEOREM SessionsTyped == Spec => []TypeOK
  BY InvHolds, PTL DEF Inv

\* However calls, answers, mishaps and the acts of others interleave, an auth
\* token and the refresh token refreshTokensImpl keeps beside it belong to the
\* same user.
THEOREM TokensAgree == Spec => []TokensOfOneSession
<1>1. Inv => TokensOfOneSession
  BY DEF Inv, OwnInv, OpOwn, Good, TokensOfOneSession, Held
<1> QED
  BY <1>1, InvHolds, PTL

\* A signed-out client has no tokens and no call under way but logouts.
QuietInv ==
  quiet => /\ tok = None
           /\ \A o \in Promises :
                \/ op[o].pc = "idle"
                \/ op[o].kind = "logout" /\ op[o].stage = "request"

\* After logout() ended alone, nothing in flight brings tokens back until the
\* user calls the client again.
THEOREM LogoutIsFinal == Spec => []LoggedOutForGood
<1>1. Init => QuietInv
  BY DEF Init, QuietInv
<1>2. TypeOK /\ QuietInv /\ [Next]_vars => QuietInv'
  <2> SUFFICES ASSUME TypeOK, QuietInv, [Next]_vars, quiet' PROVE QuietInv'
    BY DEF QuietInv
  <2>0. op \in [Promises -> OpType]
    BY TypeParts
  <2>1. ASSUME NEW o \in Promises, NEW k \in {"login", "logout"}, NEW u, Call(o, k, u)
        PROVE  QuietInv'
    <3>1. quiet /\ k = "logout" /\ tok' = tok
      BY <2>1 DEF Call
    <3>2. tok = None
      BY <3>1 DEF QuietInv
    <3>3. Begin(o, k, u, "request", "send")
      BY <2>1, <3>2 DEF Call, shouldRefresh
    <3>r. PICK r : r = [kind |-> k, stage |-> "request", pc |-> "send",
                        was |-> tok, hdr |-> tok, user |-> u, found |-> None, reply |-> "ok"]
      OBVIOUS
    <3>4. op' = [op EXCEPT ![o] = r]
      BY <3>3, <3>r DEF Begin
    <3>5. r.kind = "logout" /\ r.stage = "request"
      BY <3>1, <3>r
    <3> QED
      BY <2>0, <3>1, <3>2, <3>4, <3>5 DEF QuietInv
  <2>2. ASSUME NEW o \in Promises, refreshAuthToken(o) PROVE QuietInv'
    BY <2>2 DEF refreshAuthToken, clientVars, QuietInv
  <2>3. ASSUME NEW o \in Promises, Server(o) \/ Fail(o) \/ Lose(o) PROVE QuietInv'
    <3>1. UNCHANGED clientVars /\ op[o].pc # "idle"
      BY <2>3 DEF Server, ReauthSession, ReauthUser, ServeLogin, mint_new_tokens, ServeLogout,
                  login_status_handler, Fail, Lose
    <3>2. \A p \in Promises : op'[p].kind = op[p].kind /\ op'[p].stage = op[p].stage
      <4>1. CASE ReauthSession(o)
        BY <2>0, <4>1 DEF ReauthSession, OpType
      <4>2. CASE ReauthUser(o)
        BY <2>0, <4>2 DEF ReauthUser, OpType
      <4>3. CASE ServeLogin(o)
        BY <2>0, <4>3 DEF ServeLogin, OpType
      <4>4. CASE mint_new_tokens(o)
        BY <2>0, <4>4 DEF mint_new_tokens, OpType
      <4>5. CASE ServeLogout(o)
        BY <2>0, <4>5 DEF ServeLogout, OpType
      <4>6. CASE login_status_handler(o)
        BY <2>0, <4>6 DEF login_status_handler, OpType
      <4>7. CASE Fail(o)
        BY <2>0, <4>7 DEF Fail, OpType
      <4>8. CASE Lose(o)
        BY <2>0, <4>8 DEF Lose, OpType
      <4> QED
        BY <2>3, <4>1, <4>2, <4>3, <4>4, <4>5, <4>6, <4>7, <4>8 DEF Server
    <3>3. \A p \in Promises : op[p].pc = "idle" => op'[p].pc = "idle"
      BY <2>0, <2>3, <3>1 DEF Server, ReauthSession, ReauthUser, ServeLogin, mint_new_tokens,
                              ServeLogout, login_status_handler, Fail, Lose
    <3> QED
      BY <3>1, <3>2, <3>3 DEF QuietInv, clientVars
  <2>4. ASSUME NEW o \in Promises, Answer(o) PROVE QuietInv'
    <3>1. CASE LogoutAnswered(o)
      <4>1. op' = [op EXCEPT ![o] = Idle] /\ tok' = None
        BY <3>1 DEF LogoutAnswered, Settle, TokensAfterLogout
      <4>2. \A p \in Promises \ {o} : op[p].pc = "idle"
        BY <3>1 DEF LogoutAnswered
      <4> QED
        BY <2>0, <4>1, <4>2 DEF QuietInv, Idle
    <3>2. CASE refreshTokensImpl(o) \/ LoginAnswered(o) \/ CheckAnswered(o) \/ RefreshThrows(o)
      <4>1. /\ op[o].pc = "answer"
            /\ op[o].stage = "refresh" \/ op[o].kind = "login" \/ op[o].kind = "check"
            /\ quiet' = quiet
        BY <3>2 DEF refreshTokensImpl, LoginAnswered, CheckAnswered, RefreshThrows, Answered,
                    setTokenState, NoTokenChange, clientVars
      <4> QED
        BY <4>1 DEF QuietInv
    <3> QED
      BY <2>4, <3>1, <3>2 DEF Answer
  <2>5. ASSUME UNCHANGED <<clientVars, op>> PROVE QuietInv'
    BY <2>5 DEF QuietInv, clientVars
  <2> QED
    BY <2>1, <2>2, <2>3, <2>4, <2>5 DEF Next, Unverify, DeleteSessions, DeleteRow, Tick, vars
<1>3. QuietInv => LoggedOutForGood
  BY DEF QuietInv, LoggedOutForGood
<1>4. Spec => []TypeOK
  BY InvHolds, PTL DEF Inv
<1> QED
  BY <1>1, <1>2, <1>3, <1>4, PTL DEF Spec

\* What onAuthChange last reported is the user of the tokens, unless the
\* constructor's check answered over another session's tokens: its tokens are
\* those of the session it read, so its silence is right otherwise.
THEOREM OnlyTheCheckDeceives == Spec => []DeceivedByCheckOnly
<1>1. Init => DeceivedByCheckOnly
  BY DEF Init, DeceivedByCheckOnly
<1>2. Inv /\ DeceivedByCheckOnly /\ [Next]_vars => DeceivedByCheckOnly'
  <2> SUFFICES ASSUME Inv, DeceivedByCheckOnly, [Next]_vars PROVE DeceivedByCheckOnly'
    OBVIOUS
  <2>1. ASSUME UNCHANGED <<tok, notified, crossed>> PROVE DeceivedByCheckOnly'
    BY <2>1 DEF DeceivedByCheckOnly, buildUser
  <2>2. ASSUME NEW o \in Promises, Answer(o) PROVE DeceivedByCheckOnly'
    <3>1. CASE refreshTokensImpl(o)
      <4>1. PICK t : setTokenState(o, t, FALSE)
        BY <3>1 DEF refreshTokensImpl
      <4> QED
        BY <4>1 DEF setTokenState, DeceivedByCheckOnly, buildUser
    <3>2. CASE LoginAnswered(o)
      <4>1. CASE op[o].reply = "ok"
        BY <3>2, <4>1 DEF LoginAnswered, setTokenState, DeceivedByCheckOnly, buildUser
      <4>2. CASE op[o].reply # "ok"
        BY <3>2, <4>2, <2>1 DEF LoginAnswered, NoTokenChange, clientVars
      <4> QED
        BY <4>1, <4>2
    <3>3. CASE LogoutAnswered(o)
      BY <3>3 DEF LogoutAnswered, TokensAfterLogout, DeceivedByCheckOnly, buildUser
    <3>4. CASE CheckAnswered(o)
      <4>1. CASE op[o].reply = "lost"
        BY <3>4, <4>1, <2>1 DEF CheckAnswered, NoTokenChange, clientVars
      <4>2. CASE op[o].reply # "lost"
        <5>t. PICK t : t = CheckedTokens(o)
          OBVIOUS
        <5>1. setTokenState(o, t, SkipCb(t))
          BY <3>4, <4>2, <5>t DEF CheckAnswered
        <5>2. CASE t = None
          BY <5>1, <5>2 DEF setTokenState, SkipCb, DeceivedByCheckOnly, buildUser
        <5>3. CASE t # None
          <6>1. tok' = t /\ notified' = notified
            BY <5>1, <5>3 DEF setTokenState, SkipCb
          <6>2. crossed' = IF Crosses(o, t) THEN crossed \cup {"check"} ELSE crossed
            BY <3>4, <5>1 DEF setTokenState, Writer, CheckAnswered, Answered
          <6>3. CASE "check" \in crossed \/ Crosses(o, t)
            BY <6>2, <6>3 DEF DeceivedByCheckOnly
          <6>4. CASE "check" \notin crossed /\ ~Crosses(o, t)
            <7>1. OpOwn(op[o], owner, issued) /\ op[o].kind = "check"
              BY <3>4, OpFacts DEF CheckAnswered
            <7>2. /\ t = op[o].hdr /\ op[o].was # None
                  /\ t.session = op[o].was.session /\ t.session # None
              BY <5>t, <5>3, <7>1 DEF CheckedTokens, OpOwn
            <7>3. tok # None /\ tok.session = t.session
              BY <5>3, <6>4, <7>2 DEF Crosses
            <7>4. tok.user = t.user
              BY <5>3, <7>1, <7>2, <7>3 DEF OpOwn, Good, Inv, OwnInv
            <7>5. notified = tok.user
              BY <6>4, <7>3 DEF DeceivedByCheckOnly, buildUser
            <7> QED
              BY <5>3, <6>1, <7>4, <7>5 DEF DeceivedByCheckOnly, buildUser
          <6> QED
            BY <6>3, <6>4
        <5> QED
          BY <5>2, <5>3
      <4> QED
        BY <4>1, <4>2
    <3>5. CASE RefreshThrows(o)
      BY <3>5, <2>1 DEF RefreshThrows, clientVars
    <3> QED
      BY <2>2, <3>1, <3>2, <3>3, <3>4, <3>5 DEF Answer
  <2>3. ASSUME NEW o \in Promises, Server(o) \/ Fail(o) \/ Lose(o) \/ refreshAuthToken(o)
        PROVE  DeceivedByCheckOnly'
    <3>1. UNCHANGED clientVars
      BY <2>3 DEF Server, ReauthSession, ReauthUser, ServeLogin, mint_new_tokens, ServeLogout,
                  login_status_handler, Fail, Lose, refreshAuthToken
    <3> QED
      BY <2>1, <3>1 DEF clientVars
  <2>4. ASSUME NEW o \in Promises, NEW k, NEW u, Call(o, k, u) PROVE DeceivedByCheckOnly'
    BY <2>1, <2>4 DEF Call
  <2> QED
    BY <2>1, <2>2, <2>3, <2>4
      DEF Next, Unverify, DeleteSessions, DeleteRow, Tick, vars, clientVars
<1> QED
  BY <1>1, <1>2, InvHolds, PTL DEF Spec

-----------------------------------------------------------------------------
(* Revocation.                                                             *)

\* Tokens expire one AuthTTL from now at the latest, and one AuthTTL after the
\* death of their session unless it died under a reauth.
Bound(t, time, d, l) ==
  t # None =>
    /\ t.exp <= time + AuthTTL
    /\ t.session # None /\ t.session \notin l /\ d[t.session] # None =>
         t.exp <= d[t.session] + AuthTTL

\* A reauth past its first query has a session that lives or is in late.
Minting(r, table, time, l) ==
  r.pc = "mint" => AliveIn(table, r.hdr.session, time) \/ r.hdr.session \in l

LifeInv ==
  /\ Bound(tok, now, died, late)
  /\ \A o \in Promises : Bound(op[o].hdr, now, died, late) /\ Bound(op[o].was, now, died, late)
  /\ \A o \in Promises : Minting(op[o], session, now, late)
  /\ \A s \in Ids : AliveIn(session, s, now) => died[s] = None
  /\ \A s \in Ids : s > issued => died[s] = None

LEMMA LifeInit == Init => LifeInv
<1> USE SessionsAssumption
<1> SUFFICES ASSUME Init PROVE LifeInv
  OBVIOUS
<1>0. ServerType /\ now = 0 /\ late = {} /\ issued = 1
  BY TypeInit, TypeParts DEF Init
<1>1. PICK u \in Users :
        tok \in {None} \cup [user : {u}, session : {1, None}, exp : 0 .. AuthTTL]
  BY DEF Init
<1>2. died = [s \in Ids |-> IF s = 1 /\ ~AliveIn(session, s, 0) THEN 0 ELSE None]
  BY DEF Init
<1>3. 1 \in Ids
  BY DEF Ids
<1>4. Bound(tok, now, died, late)
  BY <1>0, <1>1, <1>2, <1>3 DEF Bound
<1>5. PICK o \in Promises :
        op = [p \in Promises |->
          IF p # o \/ tok = None THEN Idle
          ELSE IF tok.session = None THEN Idle
          ELSE [kind |-> "check", was |-> tok, hdr |-> tok, user |-> None,
                found |-> None, reply |-> "ok",
                stage |-> IF shouldRefresh(tok) THEN "refresh" ELSE "request",
                pc |-> IF shouldRefresh(tok) THEN "reauth" ELSE "send"]]
  BY DEF Init
<1>6. \A p \in Promises : /\ op[p].hdr \in {tok, None} /\ op[p].was \in {tok, None}
                         /\ op[p].pc # "mint"
  BY <1>5 DEF Idle
<1>7. \A p \in Promises : /\ Bound(op[p].hdr, now, died, late)
                         /\ Bound(op[p].was, now, died, late)
                         /\ Minting(op[p], session, now, late)
  BY <1>4, <1>6 DEF Bound, Minting
<1>8. \A s \in Ids : /\ AliveIn(session, s, now) => died[s] = None
                     /\ s > issued => died[s] = None
  BY <1>0, <1>2 DEF Ids
<1> QED
  BY <1>4, <1>7, <1>8 DEF LifeInv

\* A step of one call that leaves the clock and the server's tables alone.
LEMMA LifeOp ==
  ASSUME Inv, LifeInv, NEW o \in Promises, NEW r, op' = [op EXCEPT ![o] = r],
         Bound(r.hdr, now, died, late), Bound(r.was, now, died, late),
         Minting(r, session, now, late), Bound(tok', now, died, late),
         UNCHANGED <<now, session, issued, died, late>>
  PROVE  LifeInv'
<1>1. ASSUME NEW p \in Promises
      PROVE  /\ Bound(op'[p].hdr, now, died, late) /\ Bound(op'[p].was, now, died, late)
             /\ Minting(op'[p], session, now, late)
  <2>0. op \in [Promises -> OpType]
    BY TypeParts DEF Inv
  <2>1. CASE p = o
    <3>1. op'[p] = r
      BY <2>0, <2>1
    <3> QED
      BY <3>1
  <2>2. CASE p # o
    <3>1. op'[p] = op[p]
      BY <2>0, <2>2
    <3> QED
      BY <3>1 DEF LifeInv
  <2> QED
    BY <2>1, <2>2
<1> QED
  BY <1>1 DEF LifeInv

\* The usual case: the call's tokens are those it had, the client's, or none.
LEMMA LifeMoves ==
  ASSUME Inv, LifeInv, NEW o \in Promises, NEW r, op' = [op EXCEPT ![o] = r],
         r.hdr \in {op[o].hdr, tok, None}, r.was \in {op[o].was, tok, None},
         r.pc # "mint", tok' \in {tok, op[o].hdr, None},
         UNCHANGED <<now, session, issued, died, late>>
  PROVE  LifeInv'
<1>1. Bound(r.hdr, now, died, late) /\ Bound(r.was, now, died, late)
  BY DEF LifeInv, Bound
<1>2. Bound(tok', now, died, late)
  BY DEF LifeInv, Bound
<1>3. Minting(r, session, now, late)
  BY DEF Minting
<1> QED
  BY <1>1, <1>2, <1>3, LifeOp

LEMMA LifeReauth ==
  ASSUME Inv, LifeInv, NEW o \in Promises, ReauthSession(o) \/ ReauthUser(o)
  PROVE  LifeInv'
<1>0. /\ op[o] \in OpType /\ CountType /\ ServerType
      /\ op[o].hdr \in Tokens \cup {None} /\ OpOwn(op[o], owner, issued)
  BY OpFacts
<1>1. UNCHANGED <<now, session, issued, died, late, tok>>
  BY DEF ReauthSession, ReauthUser, serverVars, clientVars
<1>2. /\ Bound(op[o].hdr, now, died, late) /\ Bound(op[o].was, now, died, late)
      /\ Bound(tok', now, died, late)
  BY <1>1 DEF LifeInv
<1>3. CASE ReauthSession(o)
  <2>1. CASE Alive(op[o].hdr.session)
    <3>r. PICK r : r = [op[o] EXCEPT !.pc = "mint",
                                     !.found = session[op[o].hdr.session].user]
      OBVIOUS
    <3>1. op' = [op EXCEPT ![o] = r]
      BY <1>3, <2>1, <3>r DEF ReauthSession
    <3>2. r.hdr = op[o].hdr /\ r.was = op[o].was
      BY <1>0, <3>r DEF OpType
    <3>3. Minting(r, session, now, late)
      BY <2>1, <3>2 DEF Minting, Alive, AliveIn
    <3> QED
      BY <1>1, <1>2, <3>1, <3>2, <3>3, LifeOp
  <2>2. CASE ~Alive(op[o].hdr.session)
    <3>r. PICK r : r = [op[o] EXCEPT !.pc = "answer", !.reply = "401"]
      OBVIOUS
    <3>1. op' = [op EXCEPT ![o] = r]
      BY <1>3, <2>2, <3>r DEF ReauthSession
    <3>2. r.hdr = op[o].hdr /\ r.was = op[o].was /\ r.pc = "answer"
      BY <1>0, <3>r DEF OpType
    <3> QED
      BY <1>1, <3>1, <3>2, LifeMoves
  <2> QED
    BY <2>1, <2>2
<1>4. CASE ReauthUser(o)
  <2>u. PICK u : u = op[o].found
    OBVIOUS
  <2>t. PICK t : t = [user |-> u, session |-> op[o].hdr.session, exp |-> now + AuthTTL]
    OBVIOUS
  <2>1. PICK r : /\ op' = [op EXCEPT ![o] = r]
                 /\ r.hdr \in {op[o].hdr, t} /\ r.was = op[o].was /\ r.pc = "answer"
    <3>1. CASE account[u] = "gone"
      <4>r. PICK r : r = [op[o] EXCEPT !.pc = "answer", !.reply = "401"]
        OBVIOUS
      <4>1. op' = [op EXCEPT ![o] = r]
        BY <1>4, <2>u, <3>1, <4>r DEF ReauthUser
      <4>2. r.hdr = op[o].hdr /\ r.was = op[o].was /\ r.pc = "answer"
        BY <1>0, <4>r DEF OpType
      <4> QED
        BY <4>1, <4>2
    <3>2. CASE account[u] = "unverified"
      <4>r. PICK r : r = [op[o] EXCEPT !.pc = "answer", !.reply = "lost"]
        OBVIOUS
      <4>1. op' = [op EXCEPT ![o] = r]
        BY <1>4, <2>u, <3>2, <4>r DEF ReauthUser
      <4>2. r.hdr = op[o].hdr /\ r.was = op[o].was /\ r.pc = "answer"
        BY <1>0, <4>r DEF OpType
      <4> QED
        BY <4>1, <4>2
    <3>3. CASE account[u] # "gone" /\ account[u] # "unverified"
      <4>r. PICK r : r = [op[o] EXCEPT !.pc = "answer", !.reply = "ok", !.hdr = t]
        OBVIOUS
      <4>1. op' = [op EXCEPT ![o] = [op[o] EXCEPT !.pc = "answer", !.reply = "ok",
                       !.hdr = [user |-> u, session |-> op[o].hdr.session,
                                exp |-> now + AuthTTL]]]
        BY <1>4, <2>u, <3>3 DEF ReauthUser
      <4>2. op' = [op EXCEPT ![o] = r]
        BY <2>t, <4>r, <4>1
      <4>3. r.hdr = t /\ r.was = op[o].was /\ r.pc = "answer"
        BY <1>0, <4>r DEF OpType
      <4> QED
        BY <4>2, <4>3
    <3> QED
      BY <3>1, <3>2, <3>3
  <2>3. op[o].pc = "mint" /\ op[o].hdr # None /\ op[o].hdr.session # None
    BY <1>0, <1>4 DEF OpOwn, ReauthUser
  <2>4. op[o].hdr.session \in Ids
    BY <1>0, <2>3 DEF Tokens
  <2>5. died[op[o].hdr.session] = None \/ op[o].hdr.session \in late
    BY <2>3, <2>4 DEF LifeInv, Minting
  <2>6. Bound(t, now, died, late)
    <3>1. t.exp = now + AuthTTL /\ t.session = op[o].hdr.session
      BY <2>t
    <3>2. now + AuthTTL \in Nat
      BY <1>0, SessionsAssumption DEF CountType
    <3> QED
      BY <2>5, <3>1, <3>2 DEF Bound
  <2>7. Minting(r, session, now, late)
    BY <2>1 DEF Minting
  <2> QED
    BY <1>1, <1>2, <2>1, <2>6, <2>7, LifeOp
<1> QED
  BY <1>3, <1>4

\* A login's tokens are of a session that has not died.
LEMMA LifeMint ==
  ASSUME Inv, LifeInv, NEW o \in Promises, mint_new_tokens(o)
  PROVE  LifeInv'
<1>0. /\ op[o] \in OpType /\ CountType /\ ServerType /\ op \in [Promises -> OpType]
  BY OpFacts
<1>s. PICK s : s = issued + 1
  OBVIOUS
<1>t. PICK t : t = [user |-> op[o].user, session |-> s, exp |-> now + AuthTTL]
  OBVIOUS
<1>r. PICK r : r = [op[o] EXCEPT !.pc = "answer", !.hdr = t]
  OBVIOUS
<1>w. PICK w : w = [user |-> op[o].user, expires |-> now + RefreshTTL]
  OBVIOUS
<1>1. /\ issued' = s /\ session' = [session EXCEPT ![s] = w]
      /\ UNCHANGED <<now, died, late, tok>>
  BY <1>s, <1>w DEF mint_new_tokens, clientVars
<1>2. op' = [op EXCEPT ![o] = r]
  <2>1. op' = [op EXCEPT ![o].pc = "answer",
                         ![o].hdr = [user |-> op[o].user, session |-> s,
                                     exp |-> now + AuthTTL]]
    BY <1>s DEF mint_new_tokens
  <2> QED
    BY <1>0, <1>t, <1>r, <2>1
<1>3. s \in Ids /\ issued \in Nat /\ s > issued
  <2>1. issued < MaxSessions /\ issued \in Ids
    BY <1>0 DEF mint_new_tokens, ServerType
  <2> QED
    BY <1>s, <2>1, SessionsAssumption DEF Ids
<1>4. died[s] = None
  BY <1>3 DEF LifeInv
<1>5. \A x \in Ids : AliveIn(session, x, now) => AliveIn(session', x, now)
  BY <1>0, <1>1, <1>3, <1>4, SessionsAssumption DEF AliveIn, ServerType, Inv, OwnInv
<1>6. ASSUME NEW x \in Ids
      PROVE  /\ AliveIn(session', x, now) => died[x] = None
             /\ x > s => died[x] = None
  <2>1. x # s => session'[x] = session[x]
    BY <1>0, <1>1, <1>3 DEF ServerType
  <2>2. x > s => x > issued
    BY <1>3, <1>s DEF Ids
  <2> QED
    BY <1>4, <2>1, <2>2 DEF LifeInv, AliveIn
<1>7. Bound(t, now, died, late)
  <2>1. now + AuthTTL \in Nat
    BY <1>0, SessionsAssumption DEF CountType
  <2>2. t.exp = now + AuthTTL /\ t.session = s
    BY <1>t
  <2> QED
    BY <1>4, <2>1, <2>2 DEF Bound
<1>8. ASSUME NEW p \in Promises
      PROVE  /\ Bound(op'[p].hdr, now, died, late) /\ Bound(op'[p].was, now, died, late)
             /\ Minting(op'[p], session', now, late)
  <2>1. CASE p = o
    <3>1. op'[p] = r
      BY <1>0, <1>2, <2>1
    <3>2. r.hdr = t /\ r.was = op[o].was /\ r.pc = "answer"
      BY <1>0, <1>r DEF OpType
    <3>3. Bound(op[o].was, now, died, late)
      BY DEF LifeInv
    <3> QED
      BY <1>7, <3>1, <3>2, <3>3 DEF Minting
  <2>2. CASE p # o
    <3>1. op'[p] = op[p]
      BY <1>0, <1>2, <2>2
    <3>2. op[p].pc = "mint" => op[p].hdr.session \in Ids
      <4>1. op[p].hdr \in Tokens \cup {None} /\ OpOwn(op[p], owner, issued)
        BY OpFacts
      <4> QED
        BY <4>1 DEF OpOwn, Tokens
    <3> QED
      BY <1>5, <3>1, <3>2 DEF LifeInv, Minting
  <2> QED
    BY <2>1, <2>2
<1> QED
  BY <1>1, <1>6, <1>8 DEF LifeInv

\* Time passes or sessions are deleted: a session that dies under a reauth is
\* in late, another one dies no earlier than now.
LEMMA LifeAges ==
  ASSUME Inv, Inv', LifeInv, UNCHANGED <<issued, tok>>,
         now' \in {now, now + 1}, late \subseteq late',
         \A p \in Promises : /\ op'[p].hdr = op[p].hdr /\ op'[p].was = op[p].was
                             /\ op'[p].pc = "mint" => op[p].pc = "mint",
         \A s \in Ids :
           \/ /\ died'[s] = died[s]
              /\ AliveIn(session', s, now') <=> AliveIn(session, s, now)
           \/ /\ AliveIn(session, s, now) /\ ~AliveIn(session', s, now')
              /\ died'[s] # None => died'[s] >= now
              /\ \A p \in Promises :
                   op[p].pc = "mint" /\ op[p].hdr.session = s => s \in late'
           \/ /\ died'[s] = died[s]
              /\ ~AliveIn(session, s, now) /\ ~AliveIn(session', s, now')
  PROVE  LifeInv'
<1>0. /\ CountType /\ ServerType /\ op \in [Promises -> OpType]
      /\ tok \in Tokens \cup {None} /\ AuthTTL \in Nat /\ now \in Nat
      /\ died' \in [Ids -> Nat \cup {None}]
  BY TypeParts, SessionsAssumption DEF Inv, ClientType, CountType, TypeOK
<1>1. ASSUME NEW t \in Tokens \cup {None}, Bound(t, now, died, late)
      PROVE  Bound(t, now', died', late')
  <2>1. SUFFICES ASSUME t # None PROVE Bound(t, now', died', late')
    BY DEF Bound
  <2>2. t.exp \in Nat /\ t.exp <= now + AuthTTL
    BY <1>1, <2>1 DEF Bound, Tokens
  <2>3. t.exp <= now' + AuthTTL
    BY <1>0, <2>2
  <2>4. ASSUME t.session # None, t.session \notin late', died'[t.session] # None
        PROVE  t.exp <= died'[t.session] + AuthTTL
    <3>s. PICK s : s = t.session
      OBVIOUS
    <3>1. s \in Ids /\ s \notin late
      BY <2>1, <2>4, <3>s DEF Tokens
    <3>2. CASE died'[s] = died[s]
      BY <1>1, <2>1, <2>4, <3>s, <3>1, <3>2 DEF Bound
    <3>3. CASE died'[s] # None => died'[s] >= now
      <4>1. died'[s] \in Nat /\ died'[s] >= now
        BY <1>0, <2>4, <3>s, <3>1, <3>3
      <4> QED
        BY <1>0, <2>2, <3>s, <4>1
    <3> QED
      BY <3>1, <3>2, <3>3
  <2> QED
    BY <2>3, <2>4 DEF Bound
<1>2. Bound(tok', now', died', late')
  BY <1>0, <1>1 DEF LifeInv
<1>3. ASSUME NEW p \in Promises
      PROVE  /\ Bound(op'[p].hdr, now', died', late') /\ Bound(op'[p].was, now', died', late')
             /\ Minting(op'[p], session', now', late')
  <2>0. /\ op[p].hdr \in Tokens \cup {None} /\ op[p].was \in Tokens \cup {None}
        /\ OpOwn(op[p], owner, issued)
    BY OpFacts
  <2>1. Bound(op'[p].hdr, now', died', late') /\ Bound(op'[p].was, now', died', late')
    BY <1>1, <2>0 DEF LifeInv
  <2>2. ASSUME op'[p].pc = "mint"
        PROVE  AliveIn(session', op[p].hdr.session, now') \/ op[p].hdr.session \in late'
    <3>s. PICK s : s = op[p].hdr.session
      OBVIOUS
    <3>1. op[p].pc = "mint"
      BY <2>2
    <3>2. s \in Ids
      BY <2>0, <3>1, <3>s DEF OpOwn, Tokens
    <3>3. AliveIn(session, s, now) \/ s \in late
      BY <3>1, <3>s DEF LifeInv, Minting
    <3> QED
      BY <3>1, <3>s, <3>2, <3>3
  <2> QED
    BY <2>1, <2>2 DEF Minting
<1>4. \A s \in Ids : AliveIn(session', s, now') => died'[s] = None
  BY DEF LifeInv
<1>5. ASSUME NEW s \in Ids, s > issued PROVE died'[s] = None
  <2>1. died[s] = None
    BY <1>5 DEF LifeInv
  <2>2. ~AliveIn(session, s, now)
    BY <1>0, <1>5 DEF AliveIn, Inv, OwnInv, Ids, ServerType
  <2> QED
    BY <2>1, <2>2
<1> QED
  BY <1>2, <1>3, <1>4, <1>5 DEF LifeInv

LEMMA LifeRemove ==
  ASSUME Inv, Inv', LifeInv, UNCHANGED <<issued, tok, now>>, NEW ids \in SUBSET Ids, Remove(ids),
         \A p \in Promises : /\ op'[p].hdr = op[p].hdr /\ op'[p].was = op[p].was
                             /\ op'[p].pc = "mint" => op[p].pc = "mint"
  PROVE  LifeInv'
<1>0. now \in Nat
  BY SessionsAssumption DEF Inv, TypeOK
<1>1. ASSUME NEW s \in Ids
      PROVE
           \/ /\ died'[s] = died[s]
              /\ AliveIn(session', s, now') <=> AliveIn(session, s, now)
           \/ /\ AliveIn(session, s, now) /\ ~AliveIn(session', s, now')
              /\ died'[s] # None => died'[s] >= now
              /\ \A p \in Promises :
                   op[p].pc = "mint" /\ op[p].hdr.session = s => s \in late'
           \/ /\ died'[s] = died[s]
              /\ ~AliveIn(session, s, now) /\ ~AliveIn(session', s, now')
  <2>1. CASE s \notin ids
    <3>1. session'[s] = session[s] /\ died'[s] = died[s]
      BY <2>1 DEF Remove
    <3> QED
      BY <3>1 DEF AliveIn
  <2>2. CASE s \in ids /\ AliveIn(session, s, now)
    <3>1. session'[s] = None /\ died'[s] = now
      BY <2>2 DEF Remove
    <3>2. \A p \in Promises : op[p].pc = "mint" /\ op[p].hdr.session = s => s \in late'
      BY <2>2 DEF Remove
    <3> QED
      BY <1>0, <2>2, <3>1, <3>2 DEF AliveIn
  <2>3. CASE s \in ids /\ ~AliveIn(session, s, now)
    <3>1. session'[s] = None /\ died'[s] = died[s]
      BY <2>3 DEF Remove
    <3> QED
      BY <2>3, <3>1 DEF AliveIn
  <2> QED
    BY <2>1, <2>2, <2>3
<1>2. late \subseteq late'
  BY DEF Remove
<1> QED
  BY <1>1, <1>2, LifeAges

LEMMA LifeTick ==
  ASSUME Inv, Inv', LifeInv, Tick
  PROVE  LifeInv'
<1>0. now \in Nat /\ ServerType
  BY SessionsAssumption, TypeParts DEF Inv, TypeOK
<1>1. /\ UNCHANGED <<issued, tok, op, session>> /\ now' = now + 1 /\ late \subseteq late'
  BY DEF Tick, clientVars
<1>2. ASSUME NEW s \in Ids
      PROVE
           \/ /\ died'[s] = died[s]
              /\ AliveIn(session', s, now') <=> AliveIn(session, s, now)
           \/ /\ AliveIn(session, s, now) /\ ~AliveIn(session', s, now')
              /\ died'[s] # None => died'[s] >= now
              /\ \A p \in Promises :
                   op[p].pc = "mint" /\ op[p].hdr.session = s => s \in late'
  <2>1. CASE AliveIn(session, s, now) /\ ~AliveIn(session, s, now + 1)
    <3>1. died'[s] = now + 1
      BY <2>1 DEF Tick
    <3>2. \A p \in Promises : op[p].pc = "mint" /\ op[p].hdr.session = s => s \in late'
      BY <2>1 DEF Tick
    <3>3. died'[s] >= now
      BY <1>0, <3>1
    <3> QED
      BY <1>1, <2>1, <3>2, <3>3
  <2>2. CASE ~(AliveIn(session, s, now) /\ ~AliveIn(session, s, now + 1))
    <3>1. died'[s] = died[s]
      BY <2>2 DEF Tick
    <3>2. AliveIn(session, s, now + 1) => AliveIn(session, s, now)
      BY <1>0, SessionsAssumption DEF AliveIn, ServerType
    <3> QED
      BY <1>1, <2>2, <3>1, <3>2
  <2> QED
    BY <2>1, <2>2
<1> QED
  BY <1>1, <1>2, LifeAges

\* The remaining steps of a call: its tokens move, none is made.
LEMMA LifeCalls ==
  ASSUME Inv, Inv', LifeInv, NEW o \in Promises,
         \/ Answer(o) \/ ServeLogin(o) \/ login_status_handler(o)
         \/ Lose(o) \/ Fail(o) \/ refreshAuthToken(o)
         \/ \E u : Call(o, "login", u) \/ Call(o, "logout", u)
  PROVE  LifeInv'
<1>0. op[o] \in OpType /\ op \in [Promises -> OpType]
  BY OpFacts
<1>1. UNCHANGED <<now, session, issued, died, late>>
  <2>1. UNCHANGED <<now, serverVars>>
    <3>1. CASE Answer(o)
      BY <3>1 DEF Answer, refreshTokensImpl, LoginAnswered, LogoutAnswered, CheckAnswered,
                  RefreshThrows
    <3>2. CASE ServeLogin(o) \/ login_status_handler(o) \/ Lose(o) \/ Fail(o)
      BY <3>2 DEF ServeLogin, login_status_handler, Lose, Fail
    <3>3. CASE refreshAuthToken(o)
      BY <3>3 DEF refreshAuthToken
    <3>4. CASE \E u : Call(o, "login", u) \/ Call(o, "logout", u)
      BY <3>4 DEF Call
    <3> QED
      BY <3>1, <3>2, <3>3, <3>4
  <2> QED
    BY <2>1 DEF serverVars
<1>2. ASSUME op' = [op EXCEPT ![o] = Idle], tok' \in {tok, op[o].hdr, None}
      PROVE  LifeInv'
  <2>1. Idle.hdr = None /\ Idle.was = None /\ Idle.pc # "mint"
    BY DEF Idle
  <2> QED
    BY <1>1, <1>2, <2>1, LifeMoves
<1>3. CASE Answer(o)
  <2>1. CASE refreshTokensImpl(o) /\ op[o].kind # "refresh"
    <3>t. PICK t \in {None, op[o].hdr} :
            /\ tok' = t
            /\ op' = [op EXCEPT ![o] = [op[o] EXCEPT !.stage = "request", !.pc = "send",
                                                   !.hdr = t, !.reply = "ok"]]
      BY <2>1 DEF refreshTokensImpl, RefreshedTokens, setTokenState
    <3>r. PICK r : r = [op[o] EXCEPT !.stage = "request", !.pc = "send",
                                     !.hdr = t, !.reply = "ok"]
      OBVIOUS
    <3>1. r.hdr = t /\ r.was = op[o].was /\ r.pc = "send"
      BY <1>0, <3>r DEF OpType
    <3> QED
      BY <1>1, <3>t, <3>r, <3>1, LifeMoves
  <2>2. CASE refreshTokensImpl(o) /\ op[o].kind = "refresh"
    BY <1>2, <2>2 DEF refreshTokensImpl, RefreshedTokens, setTokenState, Settle
  <2>3. CASE LoginAnswered(o)
    BY <1>2, <2>3 DEF LoginAnswered, setTokenState, Settle, NoTokenChange, clientVars
  <2>4. CASE LogoutAnswered(o)
    BY <1>2, <2>4 DEF LogoutAnswered, TokensAfterLogout, Settle
  <2>5. CASE CheckAnswered(o)
    BY <1>2, <2>5 DEF CheckAnswered, CheckedTokens, setTokenState, Settle, NoTokenChange,
                      clientVars
  <2>6. CASE RefreshThrows(o)
    BY <1>2, <2>6 DEF RefreshThrows, Settle, clientVars
  <2> QED
    BY <1>3, <2>1, <2>2, <2>3, <2>4, <2>5, <2>6 DEF Answer
<1>4. CASE ServeLogin(o) \/ login_status_handler(o) \/ Lose(o) \/ Fail(o)
  <2>0. tok' = tok
    BY <1>4 DEF ServeLogin, login_status_handler, Lose, Fail, clientVars
  <2>1. ASSUME NEW r, op' = [op EXCEPT ![o] = r], r.hdr \in {op[o].hdr, None},
               r.was = op[o].was, r.pc # "mint"
        PROVE  LifeInv'
    BY <1>1, <2>0, <2>1, LifeMoves
  <2>2. CASE ServeLogin(o)
    <3>r. PICK r : r = (IF account[op[o].user] = "verified" THEN [op[o] EXCEPT !.pc = "insert"]
                        ELSE [op[o] EXCEPT !.pc = "answer", !.reply = "401"])
      OBVIOUS
    <3>1. op' = [op EXCEPT ![o] = r]
      BY <2>2, <3>r DEF ServeLogin
    <3>2. r.hdr = op[o].hdr /\ r.was = op[o].was /\ r.pc # "mint"
      BY <1>0, <3>r DEF OpType
    <3> QED
      BY <2>1, <3>1, <3>2
  <2>3. CASE login_status_handler(o)
    <3>r. PICK r : r = (IF ~Accepted(op[o].hdr) THEN [op[o] EXCEPT !.pc = "answer", !.hdr = None]
                        ELSE IF op[o].hdr.session # None THEN [op[o] EXCEPT !.pc = "reauth"]
                        ELSE [op[o] EXCEPT !.pc = "answer"])
      OBVIOUS
    <3>1. op' = [op EXCEPT ![o] = r]
      BY <2>3, <3>r DEF login_status_handler
    <3>2. r.hdr \in {op[o].hdr, None} /\ r.was = op[o].was /\ r.pc # "mint"
      BY <1>0, <3>r DEF OpType
    <3> QED
      BY <2>1, <3>1, <3>2
  <2>4. CASE Lose(o) \/ Fail(o)
    <3>1. PICK v : op' = [op EXCEPT ![o].pc = "answer", ![o].reply = v, ![o].hdr = None]
      BY <2>4 DEF Lose, Fail
    <3>r. PICK r : r = [op[o] EXCEPT !.pc = "answer", !.reply = v, !.hdr = None]
      OBVIOUS
    <3>2. op' = [op EXCEPT ![o] = r]
      BY <1>0, <3>1, <3>r
    <3>3. r.hdr = None /\ r.was = op[o].was /\ r.pc # "mint"
      BY <1>0, <3>r DEF OpType
    <3> QED
      BY <2>1, <3>2, <3>3
  <2> QED
    BY <1>4, <2>2, <2>3, <2>4
<1>5. CASE refreshAuthToken(o) \/ \E u : Call(o, "login", u) \/ Call(o, "logout", u)
  <2>1. PICK k, u, stage, pc : Begin(o, k, u, stage, pc) /\ pc # "mint"
    <3>1. CASE refreshAuthToken(o)
      BY <3>1 DEF refreshAuthToken
    <3>2. ASSUME NEW k, NEW u, Call(o, k, u)
          PROVE  \E stage, pc : Begin(o, k, u, stage, pc) /\ pc # "mint"
      BY <3>2 DEF Call
    <3> QED
      BY <1>5, <3>1, <3>2
  <2>r. PICK r : r = [kind |-> k, stage |-> stage, pc |-> pc, was |-> tok, hdr |-> tok,
                      user |-> u, found |-> None, reply |-> "ok"]
    OBVIOUS
  <2>2. op' = [op EXCEPT ![o] = r]
    BY <2>1, <2>r DEF Begin
  <2>3. r.hdr = tok /\ r.was = tok /\ r.pc # "mint"
    BY <2>1, <2>r
  <2>4. tok' = tok
    BY <1>5 DEF Call, refreshAuthToken, clientVars
  <2> QED
    BY <1>1, <2>2, <2>3, <2>4, LifeMoves
<1> QED
  BY <1>3, <1>4, <1>5

\* logout.rs:23, "cannot be reanimated": the auth tokens of a dead session
\* expire one AuthTTL after its death, unless it died between the two queries
\* of a reauth; no refresh, retry or late answer prolongs them.
THEOREM RevocationIsBounded == Spec => []RevocationBounds
<1>1. Inv /\ Inv' /\ LifeInv /\ [Next]_vars => LifeInv'
  <2> SUFFICES ASSUME Inv, Inv', LifeInv, [Next]_vars PROVE LifeInv'
    OBVIOUS
  <2>1. ASSUME NEW o \in Promises, Server(o) PROVE LifeInv'
    <3>1. CASE ServeLogout(o)
      <4>i. PICK ids : ids = (IF op[o].was # None /\ op[o].was.session # None
                              THEN {op[o].was.session}
                              ELSE IF Accepted(op[o].hdr) THEN SessionsOf(op[o].hdr.user)
                              ELSE {})
        OBVIOUS
      <4>0. op[o].was \in Tokens \cup {None} /\ op \in [Promises -> OpType]
        BY OpFacts
      <4>1. ids \in SUBSET Ids /\ Remove(ids)
        BY <3>1, <4>i, <4>0 DEF ServeLogout, Tokens, SessionsOf
      <4>2. UNCHANGED <<issued, tok, now>>
        BY <3>1 DEF ServeLogout, clientVars
      <4>3. op' = [op EXCEPT ![o].pc = "answer"]
        BY <3>1 DEF ServeLogout
      <4>4. \A p \in Promises : /\ op'[p].hdr = op[p].hdr /\ op'[p].was = op[p].was
                                /\ op'[p].pc = "mint" => op[p].pc = "mint"
        BY <4>0, <4>3 DEF OpType
      <4> QED
        BY <4>1, <4>2, <4>4, LifeRemove
    <3> QED
      BY <2>1, <3>1, LifeReauth, LifeMint, LifeCalls DEF Server
  <2>2. ASSUME NEW u \in Users, DeleteSessions(u) PROVE LifeInv'
    <3>i. PICK ids : ids = SessionsOf(u)
      OBVIOUS
    <3>1. ids \in SUBSET Ids /\ Remove(ids)
      BY <2>2, <3>i DEF DeleteSessions, SessionsOf
    <3>2. UNCHANGED <<issued, tok, now, op>>
      BY <2>2 DEF DeleteSessions, clientVars
    <3> QED
      BY <3>1, <3>2, LifeRemove
  <2>3. ASSUME UNCHANGED <<now, tok, op, session, issued, died, late>> PROVE LifeInv'
    BY <2>3 DEF LifeInv
  <2>4. ASSUME NEW u \in Users, Unverify(u) \/ DeleteRow(u) PROVE LifeInv'
    BY <2>3, <2>4 DEF Unverify, DeleteRow, clientVars
  <2>5. CASE UNCHANGED vars
    BY <2>3, <2>5 DEF vars, serverVars, clientVars
  <2>6. ASSUME NEW o \in Promises, NEW u,
               \/ Call(o, "login", u) \/ Call(o, "logout", u) \/ refreshAuthToken(o)
               \/ Answer(o) \/ Fail(o) \/ Lose(o)
        PROVE  LifeInv'
    BY <2>6, LifeCalls
  <2> QED
    BY <2>1, <2>2, <2>4, <2>5, <2>6, LifeTick DEF Next
<1>2. Inv /\ LifeInv => RevocationBounds
  <2> SUFFICES ASSUME Inv, LifeInv, NEW t \in Held \ {None},
                      t.session # None, t.session \notin late, died[t.session] # None
               PROVE  t.exp <= died[t.session] + AuthTTL
    BY DEF RevocationBounds
  <2>1. Bound(t, now, died, late)
    BY DEF Held, LifeInv
  <2> QED
    BY <2>1 DEF Bound
<1> QED
  BY <1>1, <1>2, LifeInit, InvHolds, PTL DEF Spec
=============================================================================
