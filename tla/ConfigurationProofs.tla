------------------------- MODULE ConfigurationProofs -------------------------
(***************************************************************************)
(* Theorems about Configuration, for any admins, tables, settings, forms   *)
(* and bounds.                                                             *)
(***************************************************************************)
EXTENDS Configuration, TLAPS

-----------------------------------------------------------------------------
(* Values and configurations.                                              *)

LEMMA OverTyped ==
  ASSUME NEW config \in Configs, NEW some, IsPart(some)
  PROVE  Over(some, config) \in Configs
<1>1. DOMAIN some \cup DOMAIN config = Items
  BY DEF IsPart, Configs
<1>2. \A i \in Items : (IF i \in DOMAIN some THEN some[i] ELSE config[i]) \in Values
  BY DEF IsPart, Configs
<1> QED
  BY <1>1, <1>2 DEF Over, Configs

\* None stands for no configuration and for no form as well.
LEMMA NoneIsNot == None \notin Configs /\ Torn \notin Configs /\ None \in Values
  BY ConfigurationAssumption DEF Values

-----------------------------------------------------------------------------
(* Requests.                                                               *)

Ops == {"none", "update", "create", "rename", "drop", "reload"}
Places == {"idle", "migrated", "validate", "load", "store", "notify", "write",
           "rebuild", "install", "read"}

\* TypeOK takes the values a request wants from the requests themselves; here
\* is what that says of one request.
RequestOK(r) ==
  /\ r \in [op : Ops, pc : Places, new : Configs \cup {None}, hash : Configs \cup {None},
            want : {r.want}, snap : Configs \cup {None}, schema : SUBSET Tables,
            from : Tables \cup {None}, to : Tables \cup {None}]
  /\ IsPart(r.want)
  /\ r.pc \in {"validate", "load", "store", "notify"} => r.new \in Configs
  /\ r.pc = "write" => r.snap \in Configs

ReqOK == DOMAIN req = Handlers /\ req = [p \in Handlers |-> req[p]]
         /\ \A p \in Handlers : RequestOK(req[p])

LEMMA IdleOK == RequestOK(Idle)
  BY DEF RequestOK, Idle, Ops, Places, IsPart

\* A handler's request is replaced.
LEMMA ReqSet ==
  ASSUME ReqOK, NEW p \in Handlers, NEW r, RequestOK(r), req' = [req EXCEPT ![p] = r]
  PROVE  ReqOK'
  BY DEF ReqOK

LEMMA StepKeeps ==
  ASSUME ReqOK, NEW p \in Handlers, NEW pc \in Places, Step(p, pc),
         \/ pc \in {"rebuild", "read"}
         \/ pc \in {"load", "notify"} /\ req[p].new \in Configs
  PROVE  ReqOK'
<1>1. RequestOK([req[p] EXCEPT !.pc = pc])
  BY DEF ReqOK, RequestOK
<1>2. req' = [req EXCEPT ![p] = [req[p] EXCEPT !.pc = pc]]
  BY DEF Step
<1> QED
  BY <1>1, <1>2, ReqSet

LEMMA EndKeeps ==
  ASSUME ReqOK, NEW p \in Handlers, End(p)
  PROVE  ReqOK'
  BY IdleOK, ReqSet DEF End

\* The requests of the settings' pages.
LEMMA UpdateKeeps ==
  ASSUME ReqOK, NEW a \in Admins, NEW config \in Configs, NEW want, IsPart(want),
         cache[a] \in Configs, setConfig(a, config, want)
  PROVE  ReqOK'
<1> DEFINE r == [Idle EXCEPT !.op = "update", !.pc = "validate", !.new = config,
                             !.hash = cache[a], !.want = want]
<1>1. RequestOK(r)
  BY DEF RequestOK, Idle, Ops, Places
<1>2. req' = [req EXCEPT ![a] = r]
  BY DEF setConfig, Request
<1>3. a \in Handlers
  BY DEF Handlers
<1> HIDE DEF r
<1> QED
  BY <1>1, <1>2, <1>3, ReqSet

-----------------------------------------------------------------------------
(* Forms.                                                                  *)

Parts == {"server", "email", "auth", "jobs"}
FormOK(f) == /\ f \in [part : Parts, values : {f.values}, edited : {f.edited}]
             /\ f.values \in [FieldsOf(f.part) -> Entered(f.part)]
             /\ f.edited \subseteq FieldsOf(f.part)

LEMMA FormsAre == \A f : f \in Forms <=> FormOK(f)
<1>1. ASSUME NEW f \in Forms PROVE FormOK(f)
  <2>1. PICK part \in Parts :
          f \in [part : {part}, values : [FieldsOf(part) -> Entered(part)],
                edited : SUBSET FieldsOf(part)]
    BY DEF Forms, Parts
  <2> HIDE DEF Parts
  <2> QED
    BY <2>1 DEF FormOK
<1>2. ASSUME NEW f, FormOK(f) PROVE f \in Forms
  <2>1. f \in [part : {f.part}, values : [FieldsOf(f.part) -> Entered(f.part)],
              edited : SUBSET FieldsOf(f.part)]
    BY <1>2 DEF FormOK
  <2>2. f.part \in Parts
    BY <1>2 DEF FormOK
  <2> QED
    BY <2>1, <2>2 DEF Forms, Parts
<1> QED
  BY <1>1, <1>2

LEMMA FieldsAreItems == \A part \in Parts : FieldsOf(part) \subseteq Items
  BY DEF Parts, FieldsOf, Items, Fields

\* What a form sends are values that can be stored.
LEMMA ExtractTyped ==
  ASSUME NEW f \in Forms
  PROVE  /\ DOMAIN extract(f.part, f.values) = FieldsOf(f.part)
         /\ IsPart(extract(f.part, f.values))
<1>1. FormOK(f)
  BY FormsAre
<1>2. f.part \in Parts /\ f.values \in [FieldsOf(f.part) -> Entered(f.part)]
  BY <1>1 DEF FormOK
<1>3. FieldsOf(f.part) \subseteq Items
  BY <1>2, FieldsAreItems
<1>4. CASE f.part = "auth"
  BY <1>2, <1>3, <1>4, NoneIsNot DEF extract, proxyToConfig, FieldsOf, Entered, IsPart
<1>5. CASE f.part = "jobs"
  BY <1>2, <1>3, <1>5, NoneIsNot DEF extract, extractConfig, FieldsOf, Entered, IsPart
<1>6. CASE f.part \in {"server", "email"}
  BY <1>2, <1>3, <1>6 DEF extract, Entered, IsPart
<1> QED
  BY <1>2, <1>4, <1>5, <1>6 DEF Parts

LEMMA ShownTyped ==
  ASSUME NEW a \in Admins, cache[a] \in Configs, NEW part \in Parts
  PROVE  Shown(a, part) \in [FieldsOf(part) -> Entered(part)]
<1>1. FieldsOf(part) \subseteq Items
  BY FieldsAreItems
<1>2. CASE part = "jobs"
  BY <1>1, <1>2 DEF Shown, buildFormProxy, FieldsOf, Entered, Configs
<1>3. CASE part # "jobs"
  BY <1>1, <1>3 DEF Shown, Entered, Configs
<1> QED
  BY <1>2, <1>3

-----------------------------------------------------------------------------
(* Types.                                                                  *)

Mishaps == {"overlap", "schema", "unwritten", "outdated", "torn"}

ServerOK ==
  /\ up \in BOOLEAN /\ cfg \in Configs /\ derived \in Configs /\ file \in Configs \cup {Torn}
  /\ tables \subseteq Tables /\ recorded \in BOOLEAN /\ meta \subseteq Tables
ClientOK ==
  /\ cache \in [Admins -> Configs] /\ form \in [Admins -> Forms \cup {None}]
  /\ marked \in [Admins -> SUBSET Databases]
HistoryOK ==
  /\ acked \in Configs /\ silent \subseteq Items /\ mishaps \subseteq Mishaps

TypeInv == ServerOK /\ ReqOK /\ ClientOK /\ HistoryOK

LEMMA TypeInvIsTypeOK == TypeInv => TypeOK
<1> SUFFICES ASSUME TypeInv PROVE TypeOK
  OBVIOUS
<1>1. req \in [Handlers -> Requests] /\ \A p \in Handlers : IsPart(req[p].want)
  <2>1. ASSUME NEW p \in Handlers PROVE req[p] \in Requests /\ IsPart(req[p].want)
    <3>1. RequestOK(req[p])
      BY DEF TypeInv, ReqOK
    <3>2. req[p].want \in {req[q].want : q \in Handlers}
      OBVIOUS
    <3> QED
      BY <3>1, <3>2 DEF RequestOK, Requests, Ops, Places
  <2> HIDE DEF Requests
  <2> QED
    BY <2>1 DEF TypeInv, ReqOK
<1> QED
  BY <1>1 DEF TypeInv, ServerOK, ClientOK, HistoryOK, Mishaps, TypeOK

LEMMA TypeInit == Init => TypeInv
<1> SUFFICES ASSUME Init PROVE TypeInv
  OBVIOUS
<1>1. ReqOK
  BY IdleOK DEF Init, ReqOK
<1>2. ServerOK /\ ClientOK /\ HistoryOK
  BY ConfigurationAssumption DEF Init, ServerOK, ClientOK, HistoryOK
<1> QED
  BY <1>1, <1>2 DEF TypeInv

LEMMA ServerKept == ServerOK /\ UNCHANGED serverVars => ServerOK'
  BY DEF ServerOK, serverVars

LEMMA ClientKept == ClientOK /\ UNCHANGED clientVars => ClientOK'
  BY DEF ClientOK, clientVars

LEMMA OverlapNoted ==
  ASSUME HistoryOK, NEW p, NoteOverlap(p), UNCHANGED <<acked, silent>>
  PROVE  HistoryOK'
  BY DEF HistoryOK, NoteOverlap, Mishaps

LEMMA FailTyped ==
  ASSUME TypeInv, NEW p \in Handlers, Fail(p)
  PROVE  TypeInv'
<1>1. ReqOK'
  BY EndKeeps DEF TypeInv, Fail
<1>2. HistoryOK'
  BY DEF TypeInv, Fail, HistoryOK, Mishaps
<1> QED
  BY <1>1, <1>2, ServerKept, ClientKept DEF TypeInv, Fail

LEMMA SucceedTyped ==
  ASSUME ReqOK, ClientOK, HistoryOK, NEW p \in Handlers, Succeed(p),
         mishaps' \subseteq Mishaps
  PROVE  ReqOK' /\ ClientOK' /\ HistoryOK'
<1>1. ReqOK'
  BY EndKeeps DEF Succeed
<1>2. HistoryOK'
  <2>1. IsPart(req[p].want)
    BY DEF ReqOK, RequestOK
  <2>2. acked' \in Configs
    BY <2>1, OverTyped DEF Succeed, Acknowledge, HistoryOK
  <2>3. silent' \subseteq Items
    BY DEF Succeed, Acknowledge, HistoryOK, Unlike
  <2> QED
    BY <2>2, <2>3 DEF HistoryOK
<1>3. ClientOK'
  <2>1. ASSUME NEW f \in Forms PROVE [f EXCEPT !.edited = {}] \in Forms
    BY <2>1, FormsAre DEF FormOK
  <2>2. form' \in [Admins -> Forms \cup {None}]
    BY <2>1 DEF Succeed, Told, ClientOK
  <2> QED
    BY <2>2 DEF Succeed, Told, ClientOK
<1> QED
  BY <1>1, <1>2, <1>3

LEMMA TypeUpdate ==
  ASSUME TypeInv, NEW p \in Handlers, Update(p)
  PROVE  TypeInv'
<1>0. RequestOK(req[p])
  BY DEF TypeInv, ReqOK
<1>1. CASE Validate(p)
  <2>1. CASE validate(req[p].new, meta) /\ Step(p, "load")
             /\ UNCHANGED <<serverVars, clientVars, counters, history>>
    <3>1. req[p].new \in Configs
      BY <1>0, <1>1 DEF Validate, RequestOK
    <3>2. ReqOK'
      BY <2>1, <3>1, StepKeeps DEF TypeInv, Places
    <3> QED
      BY <2>1, <3>2, ServerKept, ClientKept DEF TypeInv, HistoryOK, history
  <2> QED
    BY <1>1, <2>1, FailTyped DEF Validate
<1>2. CASE Load(p)
  <2>1. CASE hashMatches(p)
    <3> DEFINE r == [req[p] EXCEPT !.pc = IF req[p].new = cfg THEN "write" ELSE "store",
                                   !.snap = cfg]
    <3>1. RequestOK(r)
      BY <1>0, <1>2 DEF Load, RequestOK, TypeInv, ServerOK, Places
    <3>2. req' = [req EXCEPT ![p] = r]
      BY <1>2, <2>1 DEF Load
    <3>3. ReqOK'
      <4> HIDE DEF r
      <4> QED
        BY <3>1, <3>2, ReqSet DEF TypeInv
    <3>4. NoteOverlap(p) /\ UNCHANGED <<serverVars, clientVars, counters, acked, silent>>
      BY <1>2, <2>1 DEF Load
    <3> QED
      BY <3>3, <3>4, OverlapNoted, ServerKept, ClientKept DEF TypeInv
  <2> QED
    BY <1>2, <2>1, FailTyped DEF Load
<1>3. CASE Store(p)
  <2>1. req[p].new \in Configs
    BY <1>0, <1>3 DEF Store, RequestOK
  <2>2. ReqOK'
    BY <1>3, <2>1, StepKeeps DEF Store, TypeInv, Places
  <2>3. ServerOK'
    BY <1>3, <2>1 DEF Store, TypeInv, ServerOK
  <2> QED
    BY <1>3, <2>2, <2>3, ClientKept DEF Store, TypeInv, HistoryOK, history
<1>4. CASE Notify(p)
  <2> DEFINE r == [req[p] EXCEPT !.pc = "write", !.snap = cfg]
  <2>1. RequestOK(r)
    BY <1>0 DEF RequestOK, TypeInv, ServerOK, Places
  <2>2. req' = [req EXCEPT ![p] = r]
    BY <1>4 DEF Notify
  <2>3. ReqOK'
    <3> HIDE DEF r
    <3> QED
      BY <2>1, <2>2, ReqSet DEF TypeInv
  <2>4. ServerOK'
    BY <1>0, <1>4 DEF Notify, TypeInv, ServerOK, RequestOK
  <2> QED
    BY <1>4, <2>3, <2>4, ClientKept DEF Notify, TypeInv, HistoryOK, history
<1>5. CASE Write(p)
  <2>1. ServerOK'
    BY <1>0, <1>5 DEF Write, TypeInv, ServerOK, RequestOK
  <2>2. CASE Succeed(p)
    <3>1. ReqOK' /\ ClientOK' /\ HistoryOK'
      BY <1>5, <2>2, SucceedTyped DEF Write, TypeInv, HistoryOK
    <3> QED
      BY <2>1, <3>1 DEF TypeInv
  <2>3. CASE Step(p, "rebuild") /\ UNCHANGED <<acked, silent, clientVars>>
    <3>1. ReqOK'
      BY <2>3, StepKeeps DEF TypeInv, Places
    <3> QED
      BY <1>5, <2>1, <2>3, <3>1, ClientKept DEF Write, TypeInv, HistoryOK
  <2> QED
    BY <1>5, <2>2, <2>3 DEF Write
<1>6. CASE WriteFails(p)
  BY <1>6, FailTyped DEF WriteFails
<1> QED
  BY <1>1, <1>2, <1>3, <1>4, <1>5, <1>6 DEF Update

LEMMA TypeRebuild ==
  ASSUME TypeInv, NEW p \in Handlers, Rebuild(p)
  PROVE  TypeInv'
<1>0. RequestOK(req[p])
  BY DEF TypeInv, ReqOK
<1>1. CASE ReadSchema(p)
  <2> DEFINE r == [req[p] EXCEPT !.pc = "install", !.schema = tables]
  <2>1. RequestOK(r)
    BY <1>0, ZenonT(60) DEF RequestOK, TypeInv, ServerOK, Places
  <2>2. req' = [req EXCEPT ![p] = r]
    BY <1>1 DEF ReadSchema
  <2>3. ReqOK'
    <3> HIDE DEF r
    <3> QED
      BY <2>1, <2>2, ReqSet DEF TypeInv
  <2> QED
    BY <1>1, <2>3, ServerKept, ClientKept DEF ReadSchema, TypeInv, HistoryOK, history
<1>2. CASE Install(p)
  <2>1. ServerOK'
    BY <1>0, <1>2 DEF Install, TypeInv, ServerOK, RequestOK
  <2>2. mishaps' \subseteq Mishaps
    BY <1>2 DEF Install, TypeInv, HistoryOK, Mishaps
  <2>3. CASE Succeed(p)
    <3>1. ReqOK' /\ ClientOK' /\ HistoryOK'
      BY <2>2, <2>3, SucceedTyped DEF TypeInv
    <3> QED
      BY <2>1, <3>1 DEF TypeInv
  <2>4. CASE Step(p, "read") /\ UNCHANGED <<acked, silent, clientVars>>
    <3>1. ReqOK'
      BY <2>4, StepKeeps DEF TypeInv, Places
    <3> QED
      BY <2>1, <2>2, <2>4, <3>1, ClientKept DEF TypeInv, HistoryOK
  <2>5. CASE End(p) /\ UNCHANGED <<acked, silent, clientVars>>
    <3>1. ReqOK'
      BY <2>5, EndKeeps DEF TypeInv
    <3> QED
      BY <2>1, <2>2, <2>5, <3>1, ClientKept DEF TypeInv, HistoryOK
  <2> QED
    BY <1>2, <2>3, <2>4, <2>5 DEF Install
<1> QED
  BY <1>1, <1>2 DEF Rebuild

LEMMA TypeHandle ==
  ASSUME TypeInv, NEW a \in Admins, Handle(a)
  PROVE  TypeInv'
<1>0. RequestOK(req[a]) /\ a \in Handlers
  BY DEF TypeInv, ReqOK, Handlers
<1>1. CASE Migrated(a)
  <2> DEFINE want == [n \in apisOn(req[a].from) |-> req[a].to]
  <2>0. UNCHANGED <<serverVars, clientVars, counters, acked, silent>>
    BY <1>1 DEF Migrated
  <2>1. CASE Step(a, "rebuild") /\ UNCHANGED mishaps
    <3>1. ReqOK'
      BY <1>0, <2>1, StepKeeps DEF TypeInv, Places
    <3> QED
      BY <2>0, <2>1, <3>1, ServerKept, ClientKept DEF TypeInv, HistoryOK
  <2>2. CASE /\ req' = [req EXCEPT ![a].pc = "validate", ![a].new = Over(want, cfg),
                                   ![a].hash = cfg, ![a].want = want]
             /\ NoteOverlap(a)
    <3>1. IsPart(want)
      BY <1>0 DEF IsPart, apisOn, RequestOK, Items, Values
    <3>2. Over(want, cfg) \in Configs /\ cfg \in Configs
      BY <3>1, OverTyped DEF TypeInv, ServerOK
    <3> DEFINE r == [req[a] EXCEPT !.pc = "validate", !.new = Over(want, cfg),
                                   !.hash = cfg, !.want = want]
    <3> HIDE DEF want
    <3>3. RequestOK(r)
      BY <1>0, <3>1, <3>2, ZenonT(60) DEF RequestOK, Places
    <3>4. req' = [req EXCEPT ![a] = r]
      BY <2>2
    <3>5. ReqOK'
      <4> HIDE DEF r
      <4> QED
        BY <1>0, <3>3, <3>4, ReqSet DEF TypeInv
    <3> QED
      BY <2>0, <2>2, <3>5, OverlapNoted, ServerKept, ClientKept DEF TypeInv
  <2> QED
    BY <1>1, <2>1, <2>2 DEF Migrated
<1>2. CASE Cancel(a)
  <2>1. ReqOK'
    BY <1>0, <1>2, EndKeeps DEF Cancel, TypeInv
  <2>2. ServerOK' /\ HistoryOK'
    BY <1>2 DEF Cancel, TypeInv, ServerOK, HistoryOK, Mishaps
  <2> QED
    BY <1>2, <2>1, <2>2, ClientKept DEF Cancel, TypeInv
<1> QED
  BY <1>1, <1>2 DEF Handle

LEMMA TypeSchema ==
  ASSUME TypeInv, NEW a \in Admins, NEW op \in {"create", "rename", "drop"},
         NEW from \in Tables \cup {None}, NEW to \in Tables \cup {None},
         apply_as_migration(a, op, from, to)
  PROVE  TypeInv'
<1> DEFINE r == [Idle EXCEPT !.op = op, !.pc = "migrated", !.from = from, !.to = to]
<1>1. RequestOK(r)
  BY IdleOK, ZenonT(60) DEF RequestOK, Idle, Ops, Places
<1>2. req' = [req EXCEPT ![a] = r]
  BY DEF apply_as_migration, Request
<1>3. ReqOK'
  <2> HIDE DEF r
  <2> QED
    BY <1>1, <1>2, ReqSet DEF TypeInv, Handlers
<1>4. ServerOK'
  BY DEF apply_as_migration, TypeInv, ServerOK
<1> QED
  BY <1>3, <1>4, ClientKept DEF apply_as_migration, TypeInv, HistoryOK, history

\* The settings' pages: what they send are configurations.
LEMMA TypeSent ==
  ASSUME TypeInv, NEW a \in Admins, NEW config \in Configs, NEW want, IsPart(want),
         setConfig(a, config, want), UNCHANGED <<form, marked>>
  PROVE  TypeInv'
<1>1. cache[a] \in Configs
  BY DEF TypeInv, ClientOK
<1>2. ReqOK'
  BY <1>1, UpdateKeeps DEF TypeInv
<1>3. UNCHANGED <<serverVars, clientVars, history>>
  BY DEF setConfig, clientVars
<1> QED
  BY <1>2, <1>3, ServerKept, ClientKept DEF TypeInv, HistoryOK, history

LEMMA TypeEdit ==
  ASSUME TypeInv, NEW a \in Admins, NEW part \in Parts, NEW f \in FieldsOf(part),
         NEW v \in {a, Half}, Edit(a, part, f, v)
  PROVE  TypeInv'
<1> DEFINE values == IF form[a] = None THEN Shown(a, part) ELSE form[a].values
           new == [part |-> part, values |-> [values EXCEPT ![f] = v], edited |-> {f}]
<1>1. values \in [FieldsOf(part) -> Entered(part)]
  <2>1. CASE form[a] = None
    BY <2>1, ShownTyped DEF TypeInv, ClientOK
  <2>2. CASE form[a] # None
    <3>1. FormOK(form[a]) /\ form[a].part = part
      BY <2>2, FormsAre DEF TypeInv, ClientOK, Edit
    <3> QED
      BY <2>2, <3>1 DEF FormOK
  <2> QED
    BY <2>1, <2>2
<1>2. v \in Entered(part)
  BY DEF Edit, Entered, Values
<1> HIDE DEF values
<1>3. FormOK(new)
  BY <1>1, <1>2 DEF FormOK
<1>4. form' = [form EXCEPT ![a] = new]
  BY DEF Edit, values
<1> HIDE DEF new
<1>5. form' \in [Admins -> Forms \cup {None}]
  BY <1>3, <1>4, FormsAre DEF TypeInv, ClientOK
<1> QED
  BY <1>5, ServerKept DEF Edit, TypeInv, ClientOK, ReqOK, HistoryOK, history

LEMMA TypeSettings ==
  ASSUME TypeInv, NEW a \in Admins, Settings(a)
  PROVE  TypeInv'
<1>0. cache[a] \in Configs /\ FormsOf[a] \subseteq Parts \cup {"databases", "apis", "schema"}
  BY ConfigurationAssumption DEF TypeInv, ClientOK, Parts
<1>1. ASSUME NEW part \in FormsOf[a] \ {"apis", "databases", "schema"},
             NEW f \in FieldsOf(part), NEW v \in {a, Half}, Edit(a, part, f, v)
      PROVE  TypeInv'
  BY <1>0, <1>1, TypeEdit
<1>2. CASE Discard(a)
  BY <1>2, ServerKept DEF Discard, TypeInv, ClientOK, ReqOK, HistoryOK, history
<1>3. CASE Submit(a)
  <2> DEFINE values == extract(form[a].part, form[a].values)
             want == [f \in form[a].edited |-> values[f]]
  <2>1. form[a] \in Forms
    BY <1>3 DEF Submit, TypeInv, ClientOK
  <2>2. IsPart(values) /\ DOMAIN values = FieldsOf(form[a].part)
    BY <2>1, ExtractTyped
  <2>3. form[a].edited \subseteq DOMAIN values
    BY <2>1, <2>2, FormsAre DEF FormOK
  <2>4. setConfig(a, Over(values, cache[a]), want) /\ UNCHANGED <<form, marked>>
    BY <1>3 DEF Submit
  <2> HIDE DEF values
  <2>5. IsPart(want)
    BY <2>2, <2>3 DEF IsPart
  <2> HIDE DEF want
  <2> QED
    BY <1>0, <2>2, <2>4, <2>5, OverTyped, TypeSent
<1>4. ASSUME NEW d \in Databases, linkDb(a, d) PROVE TypeInv'
  <2> DEFINE linked == [e \in {d} |-> Linked]
  <2>1. IsPart(linked)
    BY DEF IsPart, Items, Values
  <2> QED
    BY <1>0, <1>4, <2>1, OverTyped, TypeSent DEF linkDb
<1>5. ASSUME NEW d \in Databases, SelectDb(a, d) PROVE TypeInv'
  <2>1. ClientOK'
    BY <1>5 DEF SelectDb, TypeInv, ClientOK
  <2> QED
    BY <1>5, <2>1, ServerKept DEF SelectDb, TypeInv, ReqOK, HistoryOK, history
<1>6. CASE unlinkSelectedDbs(a)
  <2> DEFINE none == [d \in marked[a] |-> None]
  <2>1. IsPart(none)
    BY DEF IsPart, Items, Values, TypeInv, ClientOK
  <2> QED
    BY <1>0, <1>6, <2>1, OverTyped, TypeSent DEF unlinkSelectedDbs
<1>7. ASSUME NEW n \in Apis, NEW t \in Tables, updateRecordApiConfig(a, n, t) PROVE TypeInv'
  <2> DEFINE api == [m \in {n} |-> t]
  <2>1. IsPart(api)
    BY DEF IsPart, Items, Values
  <2> QED
    BY <1>0, <1>7, <2>1, OverTyped, TypeSent DEF updateRecordApiConfig
<1>8. ASSUME NEW n \in Apis, removeRecordApiConfig(a, n) PROVE TypeInv'
  <2> DEFINE none == [m \in {n} |-> None]
             config == IF cache[a][n] \in Attached THEN cache[a] ELSE Over(none, cache[a])
  <2>1. IsPart(none)
    BY DEF IsPart, Items, Values
  <2>2. config \in Configs
    BY <1>0, <2>1, OverTyped
  <2>3. setConfig(a, config, none) /\ UNCHANGED <<form, marked>>
    BY <1>8 DEF removeRecordApiConfig
  <2> HIDE DEF none, config
  <2> QED
    BY <2>1, <2>2, <2>3, TypeSent
<1> QED
  BY <1>1, <1>2, <1>3, <1>4, <1>5, <1>6, <1>7, <1>8 DEF Settings

LEMMA TypeServer ==
  ASSUME TypeInv, Hangup \/ Reload \/ Crash
  PROVE  TypeInv'
<1>0. Hup \in Handlers /\ RequestOK(req[Hup])
  BY DEF Handlers, TypeInv, ReqOK
<1>1. CASE Hangup
  <2> DEFINE r == [Idle EXCEPT !.op = "reload", !.pc = "rebuild"]
  <2>1. RequestOK(r)
    BY IdleOK DEF RequestOK, Idle, Ops, Places
  <2>2. req' = [req EXCEPT ![Hup] = r]
    BY <1>1 DEF Hangup
  <2>3. ReqOK'
    <3> HIDE DEF r
    <3> QED
      BY <1>0, <2>1, <2>2, ReqSet DEF TypeInv
  <2> QED
    BY <1>1, <2>3, ServerKept, ClientKept DEF Hangup, TypeInv, HistoryOK, history
<1>2. CASE Reload
  <2>1. ASSUME loads(file, meta),
               req' = [req EXCEPT ![Hup].pc = "validate", ![Hup].new = file]
        PROVE  ReqOK'
    <3> DEFINE r == [req[Hup] EXCEPT !.pc = "validate", !.new = file]
    <3>1. RequestOK(r)
      BY <1>0, <2>1 DEF RequestOK, TypeInv, ServerOK, loads, Places
    <3>2. req' = [req EXCEPT ![Hup] = r]
      BY <2>1
    <3> HIDE DEF r
    <3> QED
      BY <1>0, <3>1, <3>2, ReqSet DEF TypeInv
  <2>2. ASSUME End(Hup) PROVE ReqOK'
    BY <1>0, <2>2, EndKeeps DEF TypeInv
  <2>3. ReqOK'
    BY <1>2, <2>1, <2>2 DEF Reload
  <2> QED
    BY <1>2, <2>3, OverlapNoted, ServerKept, ClientKept DEF Reload, TypeInv
<1>3. CASE Crash
  <2>1. ReqOK'
    BY <1>3, IdleOK DEF Crash, ReqOK
  <2>2. file' \in Configs \cup {Torn} /\ up' \in BOOLEAN /\ recorded' \in BOOLEAN
    BY <1>3 DEF Crash, TypeInv, ServerOK, loads, validate
  <2>3. cfg' \in Configs
    BY <1>3, <2>2 DEF Crash, TypeInv, ServerOK, loads
  <2>4. ServerOK'
    BY <1>3, <2>2, <2>3 DEF Crash, TypeInv, ServerOK
  <2>5. HistoryOK'
    BY <1>3 DEF Crash, TypeInv, HistoryOK, Mishaps
  <2> QED
    BY <1>3, <2>1, <2>4, <2>5, ClientKept DEF Crash, TypeInv
<1> QED
  BY <1>1, <1>2, <1>3

LEMMA TypeStep ==
  ASSUME TypeInv, [Next]_vars
  PROVE  TypeInv'
<1>1. ASSUME NEW p \in Handlers, Update(p) \/ Rebuild(p) PROVE TypeInv'
  BY <1>1, TypeUpdate, TypeRebuild
<1>2. ASSUME NEW a \in Admins, Handle(a) \/ Settings(a) PROVE TypeInv'
  BY <1>2, TypeHandle, TypeSettings
<1>3. ASSUME NEW a \in Admins, getConfig(a) PROVE TypeInv'
  <2>1. ClientOK'
    BY <1>3 DEF getConfig, TypeInv, ClientOK, ServerOK
  <2> QED
    BY <1>3, <2>1, ServerKept DEF getConfig, TypeInv, ReqOK, HistoryOK, history
<1>4. ASSUME NEW a \in Admins, Schema(a) PROVE TypeInv'
  <2>1. ASSUME NEW t \in Tables, createTable(a, t) PROVE TypeInv'
    BY <2>1, TypeSchema DEF createTable
  <2>2. ASSUME NEW t \in Tables, dropTable(a, t) PROVE TypeInv'
    BY <2>2, TypeSchema DEF dropTable
  <2>3. ASSUME NEW t \in Tables, NEW u \in Tables, renameTable(a, t, u) PROVE TypeInv'
    BY <2>3, TypeSchema DEF renameTable
  <2> QED
    BY <1>4, <2>1, <2>2, <2>3 DEF Schema
<1>5. CASE Hangup \/ Reload \/ Crash
  BY <1>5, TypeServer
<1>6. CASE UNCHANGED vars
  BY <1>6, ServerKept, ClientKept DEF vars, TypeInv, ReqOK, HistoryOK, history
<1> QED
  BY <1>1, <1>2, <1>3, <1>4, <1>5, <1>6 DEF Next

\* In every reachable state what the server and the browsers hold are
\* configurations, requests and forms of the right shape: no form's own marks
\* ("half", "default") reach the server's configuration or its file.
THEOREM TypesHold == Spec => []TypeOK
<1>1. TypeInv /\ [Next]_vars => TypeInv'
  BY TypeStep
<1> QED
  BY TypeInit, TypeInvIsTypeOK, <1>1, PTL DEF Spec

-----------------------------------------------------------------------------
(* What the steps do to the requests.                                      *)

Others(p) == \A q \in Handlers \ {p} : req'[q] = req[q]

\* The request goes on, and keeps what it has but for what is named.
Goes(p, pc) == Others(p) /\ req'[p].pc = pc /\ req'[p].op = req[p].op
Keeps(p) == /\ req'[p].new = req[p].new /\ req'[p].snap = req[p].snap
            /\ req'[p].schema = req[p].schema
Ends(p) == Others(p) /\ req'[p] = Idle
Starts(p, op, pc) == Others(p) /\ req[p].pc = "idle" /\ req'[p].op = op /\ req'[p].pc = pc

LEMMA StepGoes ==
  ASSUME ReqOK, NEW p \in Handlers, NEW pc, Step(p, pc)
  PROVE  Goes(p, pc) /\ Keeps(p)
<1>1. RequestOK(req[p])
  BY DEF ReqOK
<1>2. req' = [req EXCEPT ![p] = [req[p] EXCEPT !.pc = pc]]
  BY DEF Step
<1>3. Others(p) /\ req'[p] = [req[p] EXCEPT !.pc = pc]
  BY <1>2 DEF ReqOK, Others
<1> QED
  BY <1>1, <1>3 DEF RequestOK, Goes, Keeps

LEMMA EndEnds ==
  ASSUME ReqOK, NEW p \in Handlers, End(p)
  PROVE  Ends(p)
  BY DEF ReqOK, End, Ends, Others

LEMMA LoadGoes ==
  ASSUME ReqOK, NEW p \in Handlers, Load(p), hashMatches(p)
  PROVE  /\ Goes(p, IF req[p].new = cfg THEN "write" ELSE "store")
         /\ req'[p].new = req[p].new /\ req'[p].snap = cfg
<1> DEFINE pc == IF req[p].new = cfg THEN "write" ELSE "store"
           r == [req[p] EXCEPT !.pc = pc, !.snap = cfg]
<1> HIDE DEF pc
<1>1. RequestOK(req[p])
  BY DEF ReqOK
<1>2. req' = [req EXCEPT ![p] = r]
  BY DEF Load, pc
<1>3. Others(p) /\ req'[p] = r
  BY <1>2 DEF ReqOK, Others
<1>4. Goes(p, pc) /\ req'[p].new = req[p].new /\ req'[p].snap = cfg
  BY <1>1, <1>3 DEF RequestOK, Goes
<1> QED
  BY <1>4 DEF pc

LEMMA NotifyGoes ==
  ASSUME ReqOK, NEW p \in Handlers, Notify(p)
  PROVE  Goes(p, "write") /\ req'[p].new = req[p].new /\ req'[p].snap = cfg
<1> DEFINE r == [req[p] EXCEPT !.pc = "write", !.snap = cfg]
<1>1. RequestOK(req[p])
  BY DEF ReqOK
<1>2. req' = [req EXCEPT ![p] = r]
  BY DEF Notify
<1>3. Others(p) /\ req'[p] = r
  BY <1>2 DEF ReqOK, Others
<1> QED
  BY <1>1, <1>3 DEF RequestOK, Goes

LEMMA ReadGoes ==
  ASSUME ReqOK, NEW p \in Handlers, ReadSchema(p)
  PROVE  Goes(p, "install") /\ req'[p].schema = tables
<1> DEFINE r == [req[p] EXCEPT !.pc = "install", !.schema = tables]
<1>1. RequestOK(req[p])
  BY DEF ReqOK
<1>2. req' = [req EXCEPT ![p] = r]
  BY DEF ReadSchema
<1>3. Others(p) /\ req'[p] = r
  BY <1>2 DEF ReqOK, Others
<1> QED
  BY <1>1, <1>3 DEF RequestOK, Goes

LEMMA MigratedGoes ==
  ASSUME ReqOK, NEW a \in Admins, Migrated(a)
  PROVE  \/ req[a].op = "create" /\ Goes(a, "rebuild") /\ UNCHANGED mishaps
         \/ req[a].op # "create" /\ Goes(a, "validate") /\ NoteOverlap(a)
<1>0. a \in Handlers /\ RequestOK(req[a])
  BY DEF ReqOK, Handlers
<1>1. CASE req[a].op = "create"
  BY <1>0, <1>1, StepGoes DEF Migrated
<1>2. CASE req[a].op # "create"
  <2>1. PICK want : /\ req' = [req EXCEPT ![a].pc = "validate", ![a].new = Over(want, cfg),
                                          ![a].hash = cfg, ![a].want = want]
                    /\ NoteOverlap(a)
    BY <1>2 DEF Migrated
  <2> DEFINE new == Over(want, cfg)
             r == [req[a] EXCEPT !.pc = "validate", !.new = new, !.hash = cfg, !.want = want]
  <2> HIDE DEF new
  <2>2. req' = [req EXCEPT ![a] = r]
    BY <2>1 DEF new
  <2>3. Others(a) /\ req'[a] = r
    BY <1>0, <2>2 DEF ReqOK, Others
  <2>4. r.pc = "validate" /\ r.op = req[a].op
    BY <1>0 DEF RequestOK
  <2> HIDE DEF r
  <2>5. Goes(a, "validate")
    BY <2>3, <2>4 DEF Goes
  <2> QED
    BY <1>2, <2>1, <2>5
<1> QED
  BY <1>1, <1>2

LEMMA MigrationStarts ==
  ASSUME ReqOK, NEW a \in Admins, NEW op, NEW from, NEW to, apply_as_migration(a, op, from, to)
  PROVE  Starts(a, op, "migrated")
<1> DEFINE r == [Idle EXCEPT !.op = op, !.pc = "migrated", !.from = from, !.to = to]
<1>1. req' = [req EXCEPT ![a] = r] /\ req[a].pc = "idle"
  BY DEF apply_as_migration, Request, Ready
<1>2. Others(a) /\ req'[a] = r
  BY <1>1 DEF ReqOK, Handlers, Others
<1>3. r.op = op /\ r.pc = "migrated"
  BY IdleOK DEF RequestOK
<1> HIDE DEF r
<1> QED
  BY <1>1, <1>2, <1>3 DEF Starts

LEMMA UpdateStarts ==
  ASSUME ReqOK, NEW a \in Admins, NEW config, NEW want, setConfig(a, config, want)
  PROVE  Starts(a, "update", "validate") /\ UNCHANGED <<serverVars, mishaps>>
<1> DEFINE r == [Idle EXCEPT !.op = "update", !.pc = "validate", !.new = config,
                             !.hash = cache[a], !.want = want]
<1>1. req' = [req EXCEPT ![a] = r] /\ req[a].pc = "idle"
  BY DEF setConfig, Request, Ready
<1>2. Others(a) /\ req'[a] = r
  BY <1>1 DEF ReqOK, Handlers, Others
<1>3. UNCHANGED <<serverVars, mishaps>>
  BY DEF setConfig, history
<1>4. r.op = "update" /\ r.pc = "validate"
  BY IdleOK DEF RequestOK
<1> HIDE DEF r
<1> QED
  BY <1>1, <1>2, <1>3, <1>4 DEF Starts

LEMMA HangupStarts ==
  ASSUME ReqOK, Hangup
  PROVE  Starts(Hup, "reload", "rebuild")
<1> DEFINE r == [Idle EXCEPT !.op = "reload", !.pc = "rebuild"]
<1>1. Others(Hup) /\ req'[Hup] = r /\ req[Hup].pc = "idle"
  BY DEF ReqOK, Handlers, Hangup, Others
<1>2. r.op = "reload" /\ r.pc = "rebuild"
  BY IdleOK DEF RequestOK
<1> HIDE DEF r
<1> QED
  BY <1>1, <1>2 DEF Starts

LEMMA ReloadGoes ==
  ASSUME ReqOK, Reload
  PROVE  \/ Goes(Hup, "validate") /\ req'[Hup].new = file /\ req'[Hup].snap = req[Hup].snap
         \/ Ends(Hup)
<1>0. Hup \in Handlers /\ RequestOK(req[Hup])
  BY DEF ReqOK, Handlers
<1>1. CASE req' = [req EXCEPT ![Hup].pc = "validate", ![Hup].new = file]
  <2> DEFINE r == [req[Hup] EXCEPT !.pc = "validate", !.new = file]
  <2>1. req' = [req EXCEPT ![Hup] = r]
    BY <1>1
  <2>2. Others(Hup) /\ req'[Hup] = r
    BY <1>0, <2>1 DEF ReqOK, Others
  <2> QED
    BY <1>0, <2>2 DEF RequestOK, Goes
<1>2. CASE End(Hup)
  BY <1>0, <1>2, EndEnds
<1> QED
  BY <1>1, <1>2 DEF Reload

\* Everything the pages do sends an update or leaves the server alone.
LEMMA SettingsEffect ==
  ASSUME TypeInv, NEW a \in Admins, Settings(a)
  PROVE  /\ UNCHANGED <<serverVars, mishaps>>
         /\ UNCHANGED req \/ Starts(a, "update", "validate")
<1>0. ReqOK
  BY DEF TypeInv
<1>1. ASSUME NEW part, NEW f, NEW v, Edit(a, part, f, v)
      PROVE  UNCHANGED <<serverVars, mishaps, req>>
  BY <1>1 DEF Edit, history
<1>2. CASE Discard(a) \/ \E d \in Databases : SelectDb(a, d)
  BY <1>2 DEF Discard, SelectDb, history
<1>3. ASSUME NEW config, NEW want, setConfig(a, config, want)
      PROVE  UNCHANGED <<serverVars, mishaps>> /\ Starts(a, "update", "validate")
  BY <1>0, <1>3, UpdateStarts
<1>4. CASE Submit(a)
  BY <1>3, <1>4 DEF Submit
<1>5. ASSUME NEW d \in Databases, linkDb(a, d)
      PROVE  UNCHANGED <<serverVars, mishaps>> /\ Starts(a, "update", "validate")
  BY <1>3, <1>5 DEF linkDb
<1>6. CASE unlinkSelectedDbs(a)
  BY <1>3, <1>6 DEF unlinkSelectedDbs
<1>7. ASSUME NEW n \in Apis,
             removeRecordApiConfig(a, n) \/ \E t \in Tables : updateRecordApiConfig(a, n, t)
      PROVE  UNCHANGED <<serverVars, mishaps>> /\ Starts(a, "update", "validate")
  BY <1>3, <1>7 DEF removeRecordApiConfig, updateRecordApiConfig
<1> QED
  BY <1>1, <1>2, <1>4, <1>5, <1>6, <1>7 DEF Settings

-----------------------------------------------------------------------------
(* Who is where.                                                           *)

\* Each kind of request passes through its own places; only SIGHUP reloads.
Ordered(p) ==
  /\ req[p].pc = "idle" <=> req[p].op = "none"
  /\ req[p].op = "create" => req[p].pc \in {"migrated", "rebuild", "install"}
  /\ req[p].op = "update" => req[p].pc \in {"validate", "load", "store", "notify", "write"}
  /\ req[p].pc = "read" => req[p].op = "reload"
  /\ req[p].pc = "migrated" => req[p].op \in {"create", "rename", "drop"}
  /\ IF p = Hup THEN req[p].op \in {"none", "reload"} ELSE req[p].op # "reload"

OrderInv == \A p \in Handlers : Ordered(p)

LEMMA OrderOthers ==
  ASSUME OrderInv, NEW p \in Handlers, Others(p), Ordered(p)'
  PROVE  OrderInv'
  BY DEF OrderInv, Others, Ordered

LEMMA OrderEnds ==
  ASSUME OrderInv, NEW p \in Handlers, Ends(p)
  PROVE  OrderInv'
<1>1. Ordered(p)'
  BY DEF Ends, Ordered, Idle
<1> QED
  BY <1>1, OrderOthers DEF Ends

LEMMA OrderGoes ==
  ASSUME OrderInv, NEW p \in Handlers, NEW pc, Goes(p, pc),
         \/ <<req[p].pc, pc>> \in
           {<<"validate", "load">>, <<"load", "store">>, <<"load", "write">>,
               <<"store", "notify">>, <<"notify", "write">>, <<"rebuild", "install">>}
         \/ pc = "rebuild" /\ req[p].op \in {"create", "rename", "drop"}
         \/ pc = "validate" /\ req[p].op \in {"rename", "drop", "reload"}
         \/ pc = "read" /\ req[p].op = "reload"
  PROVE  OrderInv'
<1>1. Ordered(p) /\ req'[p].pc = pc /\ req'[p].op = req[p].op
  BY DEF OrderInv, Goes
<1>2. Ordered(p)'
  BY <1>1 DEF Ordered
<1> QED
  BY <1>2, OrderOthers DEF Goes

LEMMA OrderStarts ==
  ASSUME OrderInv, NEW p \in Handlers, NEW op, NEW pc, Starts(p, op, pc),
         \/ p \in Admins /\ op = "update" /\ pc = "validate"
         \/ p \in Admins /\ op \in {"create", "rename", "drop"} /\ pc = "migrated"
         \/ p = Hup /\ op = "reload" /\ pc = "rebuild"
  PROVE  OrderInv'
<1>1. p \in Admins => p # Hup
  BY ConfigurationAssumption
<1>2. req'[p].op = op /\ req'[p].pc = pc
  BY DEF Starts
<1>3. Ordered(p)'
  BY <1>1, <1>2 DEF Ordered
<1> QED
  BY <1>3, OrderOthers DEF Starts

LEMMA OrderUpdate ==
  ASSUME TypeInv, OrderInv, NEW p \in Handlers, Update(p)
  PROVE  OrderInv'
<1>0. ReqOK /\ Ordered(p)
  BY DEF TypeInv, OrderInv
<1>1. CASE End(p)
  BY <1>0, <1>1, EndEnds, OrderEnds
<1>2. CASE Validate(p) /\ Step(p, "load")
  BY <1>0, <1>2, StepGoes, OrderGoes DEF Validate
<1>3. CASE Load(p) /\ hashMatches(p)
  <2>1. CASE req[p].new = cfg
    BY <1>0, <1>3, <2>1, LoadGoes, OrderGoes DEF Load
  <2>2. CASE req[p].new # cfg
    BY <1>0, <1>3, <2>2, LoadGoes, OrderGoes DEF Load
  <2> QED
    BY <2>1, <2>2
<1>4. CASE Store(p)
  BY <1>0, <1>4, StepGoes, OrderGoes DEF Store
<1>5. CASE Notify(p)
  BY <1>0, <1>5, NotifyGoes, OrderGoes DEF Notify
<1>6. CASE req[p].op \in {"rename", "drop"} /\ Step(p, "rebuild")
  BY <1>0, <1>6, StepGoes, OrderGoes
<1> QED
  BY <1>1, <1>2, <1>3, <1>4, <1>5, <1>6
  DEF Update, Validate, Load, Write, WriteFails, Fail, Succeed

LEMMA OrderStep ==
  ASSUME TypeInv, OrderInv, [Next]_vars
  PROVE  OrderInv'
<1>0. ReqOK
  BY DEF TypeInv
<1>1. ASSUME NEW p \in Handlers, Update(p) PROVE OrderInv'
  BY <1>1, OrderUpdate
<1>2. ASSUME NEW p \in Handlers, Rebuild(p) PROVE OrderInv'
  <2>0. Ordered(p)
    BY DEF OrderInv
  <2>1. CASE ReadSchema(p)
    BY <1>0, <2>0, <2>1, ReadGoes, OrderGoes DEF ReadSchema
  <2>2. CASE End(p)
    BY <1>0, <2>2, EndEnds, OrderEnds
  <2>3. CASE req[p].op = "reload" /\ Step(p, "read")
    BY <1>0, <2>3, StepGoes, OrderGoes
  <2> QED
    BY <1>2, <2>1, <2>2, <2>3 DEF Rebuild, Install, Succeed
<1>3. ASSUME NEW a \in Admins, Handle(a) PROVE OrderInv'
  <2>0. a \in Handlers /\ Ordered(a)
    BY DEF OrderInv, Handlers
  <2>1. CASE Migrated(a)
    <3>1. CASE req[a].op = "create" /\ Goes(a, "rebuild")
      BY <2>0, <3>1, OrderGoes
    <3>2. CASE req[a].op # "create" /\ Goes(a, "validate")
      <4>1. req[a].op \in {"rename", "drop"}
        BY <2>0, <2>1, <3>2 DEF Migrated, Ordered
      <4> QED
        BY <2>0, <3>2, <4>1, OrderGoes
    <3> QED
      BY <1>0, <2>1, <3>1, <3>2, MigratedGoes
  <2>2. CASE Cancel(a)
    BY <1>0, <2>0, <2>2, EndEnds, OrderEnds DEF Cancel
  <2> QED
    BY <1>3, <2>1, <2>2 DEF Handle
<1>4. ASSUME NEW a \in Admins, Settings(a) \/ getConfig(a) PROVE OrderInv'
  <2>1. a \in Handlers
    BY DEF Handlers
  <2>2. CASE UNCHANGED req
    BY <2>2 DEF OrderInv, Ordered
  <2>3. CASE Starts(a, "update", "validate")
    BY <2>1, <2>3, OrderStarts
  <2> QED
    BY <1>4, <2>2, <2>3, SettingsEffect DEF getConfig
<1>5. ASSUME NEW a \in Admins, Schema(a) PROVE OrderInv'
  <2>1. PICK op \in {"create", "rename", "drop"}, from \in Tables \cup {None},
             to \in Tables \cup {None} : apply_as_migration(a, op, from, to)
    BY <1>5 DEF Schema, createTable, dropTable, renameTable
  <2> QED
    BY <1>0, <2>1, MigrationStarts, OrderStarts DEF Handlers
<1>6. CASE Hangup
  BY <1>0, <1>6, HangupStarts, OrderStarts DEF Handlers
<1>7. CASE Reload
  <2>0. Hup \in Handlers /\ Ordered(Hup)
    BY DEF OrderInv, Handlers
  <2>1. CASE Goes(Hup, "validate")
    <3>1. req[Hup].op = "reload"
      BY <1>7, <2>0 DEF Reload, Ordered
    <3> QED
      BY <2>0, <2>1, <3>1, OrderGoes
  <2>2. CASE Ends(Hup)
    BY <2>0, <2>2, OrderEnds
  <2> QED
    BY <1>0, <1>7, <2>1, <2>2, ReloadGoes
<1>8. CASE Crash
  BY <1>8 DEF Crash, OrderInv, Ordered, Idle
<1>9. CASE UNCHANGED vars
  BY <1>9 DEF vars, OrderInv, Ordered
<1> QED
  BY <1>1, <1>2, <1>3, <1>4, <1>5, <1>6, <1>7, <1>8, <1>9 DEF Next

-----------------------------------------------------------------------------
(* The cached schemas.                                                     *)

\* A schema change is under way.
Pending(p) == req[p].op \in {"create", "rename", "drop"}

\* MetadataFresh speaks of a quiet server only.  Before that, whoever made the
\* cached schemas old is still there, on its way to rebuild them, or its
\* failure was noted.
FreshInv ==
  Without({"schema", "outdated"}) => meta = tables \/ \E p \in Handlers : Pending(p)

LEMMA FreshKept ==
  ASSUME FreshInv, mishaps \subseteq mishaps', UNCHANGED <<meta, tables>>,
         \A p \in Handlers : Pending(p) => Pending(p)' \/ "schema" \in mishaps'
  PROVE  FreshInv'
  BY DEF FreshInv, Without

LEMMA FreshGoes ==
  ASSUME FreshInv, NEW p \in Handlers, NEW pc, Goes(p, pc), mishaps \subseteq mishaps',
         UNCHANGED <<meta, tables>>
  PROVE  FreshInv'
<1>1. \A q \in Handlers : Pending(q) => Pending(q)'
  BY DEF Goes, Others, Pending
<1> QED
  BY <1>1, FreshKept

\* A request ends that changed no schema, or whose failure is noted.
LEMMA FreshEnds ==
  ASSUME FreshInv, NEW p \in Handlers, Ends(p), mishaps \subseteq mishaps',
         UNCHANGED <<meta, tables>>, Pending(p) => "schema" \in mishaps'
  PROVE  FreshInv'
<1>1. \A q \in Handlers : Pending(q) => Pending(q)' \/ "schema" \in mishaps'
  BY DEF Ends, Others, Pending
<1> QED
  BY <1>1, FreshKept

LEMMA FreshStarts ==
  ASSUME FreshInv, NEW p \in Handlers, NEW op, NEW pc, Starts(p, op, pc), OrderInv,
         mishaps \subseteq mishaps', UNCHANGED <<meta, tables>>
  PROVE  FreshInv'
<1>1. \A q \in Handlers : Pending(q) => Pending(q)'
  BY DEF Starts, Others, Pending, OrderInv, Ordered
<1> QED
  BY <1>1, FreshKept

LEMMA OverlapGrows == \A p : NoteOverlap(p) => mishaps \subseteq mishaps'
  BY DEF NoteOverlap

LEMMA FreshFails ==
  ASSUME ReqOK, OrderInv, FreshInv, NEW p \in Handlers, Fail(p),
         req[p].pc \in {"validate", "load", "write"}
  PROVE  FreshInv'
<1>1. Pending(p) => "schema" \in mishaps'
  BY DEF Fail, Pending, OrderInv, Ordered
<1> QED
  BY <1>1, EndEnds, FreshEnds DEF Fail, serverVars

LEMMA FreshUpdate ==
  ASSUME ReqOK, OrderInv, FreshInv, NEW p \in Handlers, Update(p)
  PROVE  FreshInv'
<1>1. CASE Validate(p)
  BY <1>1, FreshFails, StepGoes, FreshGoes DEF Validate, serverVars, history
<1>2. CASE Load(p)
  <2>1. CASE hashMatches(p)
    BY <1>2, <2>1, LoadGoes, FreshGoes, OverlapGrows DEF Load, serverVars
  <2> QED
    BY <1>2, <2>1, FreshFails DEF Load
<1>3. CASE Store(p)
  BY <1>3, StepGoes, FreshGoes DEF Store, history
<1>4. CASE Notify(p)
  BY <1>4, NotifyGoes, FreshGoes DEF Notify, history
<1>5. CASE Write(p)
  <2>1. CASE req[p].op \in {"update", "reload"} /\ Succeed(p)
    <3>1. ~Pending(p)
      BY <2>1 DEF Pending
    <3> QED
      BY <1>5, <2>1, <3>1, EndEnds, FreshEnds DEF Write, Succeed
  <2>2. CASE Step(p, "rebuild")
    BY <1>5, <2>2, StepGoes, FreshGoes DEF Write
  <2> QED
    BY <1>5, <2>1, <2>2 DEF Write
<1>6. CASE WriteFails(p)
  BY <1>6, FreshFails DEF WriteFails
<1> QED
  BY <1>1, <1>2, <1>3, <1>4, <1>5, <1>6 DEF Update

\* Rebuilt from what the database had, if that is still what it has.
LEMMA FreshInstall ==
  ASSUME NEW p, Install(p)
  PROVE  FreshInv'
<1>1. CASE Outdated(p)
  BY <1>1 DEF Install, FreshInv, Without
<1>2. CASE ~Outdated(p)
  BY <1>2 DEF Install, Outdated, FreshInv
<1> QED
  BY <1>1, <1>2

LEMMA FreshStep ==
  ASSUME TypeInv, OrderInv, FreshInv, [Next]_vars
  PROVE  FreshInv'
<1>0. ReqOK
  BY DEF TypeInv
<1>1. ASSUME NEW p \in Handlers, Update(p) PROVE FreshInv'
  BY <1>0, <1>1, FreshUpdate
<1>2. ASSUME NEW p \in Handlers, Rebuild(p) PROVE FreshInv'
  <2>1. CASE ReadSchema(p)
    BY <1>0, <2>1, ReadGoes, FreshGoes DEF ReadSchema, serverVars, history
  <2> QED
    BY <1>2, <2>1, FreshInstall DEF Rebuild
<1>3. ASSUME NEW a \in Admins, Handle(a) PROVE FreshInv'
  <2>0. a \in Handlers
    BY DEF Handlers
  <2>1. CASE Migrated(a)
    <3>1. UNCHANGED <<meta, tables>>
      BY <2>1 DEF Migrated, serverVars
    <3> QED
      BY <1>0, <2>0, <2>1, <3>1, MigratedGoes, FreshGoes, OverlapGrows
  <2>2. CASE Cancel(a)
    BY <1>0, <2>0, <2>2, EndEnds, FreshEnds DEF Cancel
  <2> QED
    BY <1>3, <2>1, <2>2 DEF Handle
<1>4. ASSUME NEW a \in Admins, Settings(a) \/ getConfig(a) PROVE FreshInv'
  <2>1. UNCHANGED <<meta, tables, mishaps>> /\ (UNCHANGED req \/ Starts(a, "update", "validate"))
    BY <1>4, SettingsEffect DEF getConfig, serverVars, history
  <2>2. CASE UNCHANGED req
    BY <2>1, <2>2 DEF FreshInv, Pending, Without
  <2>3. CASE Starts(a, "update", "validate")
    BY <2>1, <2>3, FreshStarts DEF Handlers
  <2> QED
    BY <2>1, <2>2, <2>3
<1>5. ASSUME NEW a \in Admins, Schema(a) PROVE FreshInv'
  <2>1. PICK op \in {"create", "rename", "drop"}, from \in Tables \cup {None},
             to \in Tables \cup {None} : apply_as_migration(a, op, from, to)
    BY <1>5 DEF Schema, createTable, dropTable, renameTable
  <2>2. a \in Handlers /\ Pending(a)'
    BY <1>0, <2>1, MigrationStarts DEF Starts, Pending, Handlers
  <2> QED
    BY <2>2 DEF FreshInv
<1>6. CASE Hangup
  BY <1>0, <1>6, HangupStarts, FreshStarts DEF Hangup, Handlers, serverVars, history
<1>7. CASE Reload
  <2>0. Hup \in Handlers /\ ~Pending(Hup)
    BY <1>7 DEF OrderInv, Ordered, Handlers, Reload, Pending
  <2>1. UNCHANGED <<meta, tables>> /\ mishaps \subseteq mishaps'
    BY <1>7, OverlapGrows DEF Reload, serverVars
  <2> QED
    BY <1>0, <1>7, <2>0, <2>1, ReloadGoes, FreshGoes, FreshEnds
<1>8. CASE Crash
  BY <1>8 DEF Crash, FreshInv
<1>9. CASE UNCHANGED vars
  BY <1>9 DEF vars, serverVars, history, FreshInv, Pending, Without
<1> QED
  BY <1>1, <1>2, <1>3, <1>4, <1>5, <1>6, <1>7, <1>8, <1>9 DEF Next

\* Nothing under way, the metadata the server validates and answers with is
\* that of its database, unless a change of the schema was noted as failed or
\* a rebuild as overtaken (rebuild_connection_metadata).
THEOREM MetadataIsFresh == Spec => []MetadataFresh
<1> DEFINE IInv == TypeInv /\ OrderInv /\ FreshInv
<1>1. Init => IInv
  <2> SUFFICES ASSUME Init PROVE IInv
    OBVIOUS
  <2>1. TypeInv
    BY TypeInit
  <2>2. OrderInv
    BY DEF Init, OrderInv, Ordered, Idle
  <2>3. FreshInv
    BY DEF Init, FreshInv
  <2> QED
    BY <2>1, <2>2, <2>3
<1>2. IInv /\ [Next]_vars => IInv'
  BY TypeStep, OrderStep, FreshStep
<1>3. IInv => MetadataFresh
  BY DEF OrderInv, Ordered, FreshInv, Pending, MetadataFresh, Quiet, Without
<1> QED
  BY <1>1, <1>2, <1>3, PTL DEF Spec

-----------------------------------------------------------------------------
(* The configuration, its file and what is derived from it.                *)

\* An update has stored its configuration and not yet written the file.
Midway(p) == req[p].pc \in {"notify", "write"}

\* QuietAgrees speaks of a quiet server only.  Before that, at most one
\* request is in its window; while none is midway, file and derived values
\* are those of the configuration, and the one that is knows the rest.
Agreement ==
  /\ \A p, q \in Handlers : Window(p) /\ Window(q) => p = q
  /\ (\A p \in Handlers : ~Midway(p)) => file = cfg /\ derived = cfg
  /\ \A p \in Handlers : req[p].pc = "notify" => req[p].new = cfg
  /\ \A p \in Handlers : req[p].pc = "write" => req[p].snap = cfg /\ derived = cfg

Clean == Without({"overlap", "unwritten"})

AgreeInv == /\ up /\ Clean => Agreement
            /\ ~up => Quiet

LEMMA MidwayIsWindow == \A p : Midway(p) => Window(p)
  BY DEF Midway, Window

LEMMA OverlapSeen ==
  ASSUME NEW p, NoteOverlap(p), Clean'
  PROVE  ~Overlaps(p) /\ Clean
  BY DEF NoteOverlap, Clean, Without

\* Steps that neither enter nor leave the place of an update midway, and open
\* no window next to another.
LEMMA AgreeKept ==
  ASSUME AgreeInv, NEW p \in Handlers, Others(p), UNCHANGED <<up, cfg, file, derived>>,
         Clean' => Clean, ~Midway(p), ~Midway(p)', up,
         Clean' /\ Window(p)' => Window(p) \/ ~Overlaps(p)
  PROVE  AgreeInv'
<1> SUFFICES ASSUME Clean' PROVE Agreement'
  BY DEF AgreeInv
<1>1. Agreement
  BY DEF AgreeInv
<1>2. \A q \in Handlers \ {p} : (Window(q)' <=> Window(q)) /\ (Midway(q)' <=> Midway(q))
  BY DEF Others, Window, Midway
<1>3. Window(p)' => \A q \in Handlers \ {p} : ~Window(q)
  BY <1>1 DEF Agreement, Overlaps
<1>4. (\A q, r \in Handlers : Window(q) /\ Window(r) => q = r)'
  BY <1>1, <1>2, <1>3 DEF Agreement
<1>5. (\A q \in Handlers : ~Midway(q))' => (file = cfg /\ derived = cfg)'
  BY <1>1, <1>2 DEF Agreement
<1>6. ASSUME NEW q \in Handlers
      PROVE  /\ req'[q].pc = "notify" => req'[q].new = cfg'
             /\ req'[q].pc = "write" => req'[q].snap = cfg' /\ derived' = cfg'
  BY <1>1 DEF Agreement, Others, Midway
<1> QED
  BY <1>4, <1>5, <1>6 DEF Agreement

\* The step of the one request that is in its window.
LEMMA AgreeAlone ==
  ASSUME NEW p \in Handlers, Others(p), up', \A q \in Handlers \ {p} : ~Window(q),
         \/ Midway(p)'
         \/ file' = cfg' /\ derived' = cfg',
         req'[p].pc = "notify" => req'[p].new = cfg',
         req'[p].pc = "write" => req'[p].snap = cfg' /\ derived' = cfg'
  PROVE  AgreeInv'
<1>1. \A q \in Handlers \ {p} : ~Window(q)' /\ ~Midway(q)'
  BY DEF Others, Window, Midway
<1>2. (\A q, r \in Handlers : Window(q) /\ Window(r) => q = r)'
  BY <1>1
<1>3. ASSUME NEW q \in Handlers
      PROVE  /\ req'[q].pc = "notify" => req'[q].new = cfg'
             /\ req'[q].pc = "write" => req'[q].snap = cfg' /\ derived' = cfg'
  BY <1>1 DEF Midway
<1>4. Agreement'
  BY <1>1, <1>2, <1>3 DEF Agreement
<1> QED
  BY <1>4 DEF AgreeInv

LEMMA UpWhileBusy ==
  ASSUME AgreeInv, NEW p \in Handlers, req[p].pc # "idle"
  PROVE  up
  BY DEF AgreeInv, Quiet

LEMMA AgreeFails ==
  ASSUME ReqOK, AgreeInv, NEW p \in Handlers, Fail(p),
         req[p].pc \in {"validate", "load", "write"}
  PROVE  AgreeInv'
<1>1. up /\ up'
  BY UpWhileBusy DEF Fail, serverVars
<1>2. CASE req[p].pc = "write"
  <2>1. ~Clean'
    BY <1>2 DEF Fail, Clean, Without
  <2> QED
    BY <1>1, <2>1 DEF AgreeInv
<1>3. CASE req[p].pc # "write"
  <2>1. Ends(p)
    BY EndEnds DEF Fail
  <2>2. ~Window(p)' /\ ~Midway(p)' /\ ~Midway(p)
    BY <1>3, <2>1 DEF Ends, Window, Midway, Idle
  <2>3. Clean' => Clean
    BY DEF Fail, Clean, Without
  <2>4. UNCHANGED <<up, cfg, file, derived>>
    BY DEF Fail, serverVars
  <2> QED
    BY <1>1, <2>1, <2>2, <2>3, <2>4, AgreeKept DEF Ends
<1> QED
  BY <1>2, <1>3

\* The pages send only to a server that runs.
LEMMA SendsWhileUp ==
  ASSUME ReqOK, NEW a \in Admins, Settings(a), Starts(a, "update", "validate")
  PROVE  up
<1>1. ASSUME NEW config, NEW want, setConfig(a, config, want) PROVE up
  BY <1>1 DEF setConfig, Request, Ready
<1>2. req' # req
  BY DEF Starts
<1> QED
  BY <1>1, <1>2 DEF Settings, Edit, Discard, Submit, linkDb, SelectDb, unlinkSelectedDbs,
     updateRecordApiConfig, removeRecordApiConfig

LEMMA AgreeUpdate ==
  ASSUME ReqOK, AgreeInv, NEW p \in Handlers, Update(p)
  PROVE  AgreeInv'
<1>1. up
  BY UpWhileBusy DEF Update, Validate, Load, Store, Notify, Write, WriteFails
<1>2. CASE Validate(p)
  <2>1. CASE Step(p, "load") /\ UNCHANGED <<serverVars, clientVars, counters, history>>
    <3>1. Goes(p, "load")
      BY <2>1, StepGoes
    <3>2. ~Midway(p) /\ ~Midway(p)' /\ (Window(p)' => Window(p))
      BY <1>2, <3>1 DEF Validate, Goes, Midway, Window
    <3> QED
      BY <1>1, <2>1, <3>1, <3>2, AgreeKept DEF Goes, serverVars, history, Clean, Without
  <2> QED
    BY <1>2, <2>1, AgreeFails DEF Validate
<1>3. CASE Load(p)
  <2>1. CASE hashMatches(p)
    <3>0. UNCHANGED <<up, cfg, derived, file>> /\ NoteOverlap(p) /\ req[p].pc = "load"
      BY <1>3, <2>1 DEF Load, serverVars
    <3>1. Goes(p, IF req[p].new = cfg THEN "write" ELSE "store") /\ req'[p].snap = cfg
      BY <1>3, <2>1, LoadGoes
    <3>2. CASE ~Clean'
      BY <1>1, <3>0, <3>2 DEF AgreeInv
    <3>3. CASE Clean'
      <4>1. Clean /\ \A q \in Handlers \ {p} : ~Window(q)
        BY <3>0, <3>3, OverlapSeen DEF Overlaps
      <4>2. file = cfg /\ derived = cfg
        BY <1>1, <3>0, <4>1, MidwayIsWindow DEF AgreeInv, Agreement, Midway
      <4> QED
        BY <1>1, <3>0, <3>1, <4>1, <4>2, AgreeAlone DEF Goes
    <3> QED
      BY <3>2, <3>3
  <2> QED
    BY <1>3, <2>1, AgreeFails DEF Load
<1>4. ASSUME req[p].pc \in {"store", "notify", "write"}, Clean
      PROVE  Agreement /\ \A q \in Handlers \ {p} : ~Window(q) /\ ~Midway(q)
  <2>1. Agreement
    BY <1>1, <1>4 DEF AgreeInv
  <2>2. Window(p)
    BY <1>4 DEF Window
  <2> QED
    BY <2>1, <2>2, MidwayIsWindow DEF Agreement
<1>5. CASE Store(p)
  <2>0. cfg' = req[p].new /\ UNCHANGED <<up, derived, file, mishaps>> /\ req[p].pc = "store"
    BY <1>5 DEF Store, history
  <2>1. Goes(p, "notify") /\ req'[p].new = req[p].new
    BY <1>5, StepGoes DEF Store, Keeps
  <2>2. CASE ~Clean
    BY <1>1, <2>0, <2>2 DEF AgreeInv, Clean, Without
  <2>3. CASE Clean
    BY <1>1, <1>4, <2>0, <2>1, <2>3, AgreeAlone DEF Goes, Midway
  <2> QED
    BY <2>2, <2>3
<1>6. CASE Notify(p)
  <2>0. derived' = req[p].new /\ UNCHANGED <<up, cfg, file, mishaps>> /\ req[p].pc = "notify"
    BY <1>6 DEF Notify, history
  <2>1. Goes(p, "write") /\ req'[p].snap = cfg
    BY <1>6, NotifyGoes
  <2>2. CASE ~Clean
    BY <1>1, <2>0, <2>2 DEF AgreeInv, Clean, Without
  <2>3. CASE Clean
    <3>1. derived' = cfg
      BY <1>4, <2>0, <2>3 DEF Agreement
    <3> QED
      BY <1>1, <1>4, <2>0, <2>1, <2>3, <3>1, AgreeAlone DEF Goes, Midway
  <2> QED
    BY <2>2, <2>3
<1>7. CASE Write(p)
  <2>0. file' = req[p].snap /\ UNCHANGED <<up, cfg, derived, mishaps>> /\ req[p].pc = "write"
    BY <1>7 DEF Write
  <2>1. Others(p) /\ req'[p].pc \in {"idle", "rebuild"}
    BY <1>7, EndEnds, StepGoes DEF Write, Succeed, Ends, Goes, Idle
  <2>2. CASE ~Clean
    BY <1>1, <2>0, <2>2 DEF AgreeInv, Clean, Without
  <2>3. CASE Clean
    <3>1. file' = cfg /\ derived = cfg
      BY <1>4, <2>0, <2>3 DEF Agreement
    <3> QED
      BY <1>1, <1>4, <2>0, <2>1, <2>3, <3>1, AgreeAlone
  <2> QED
    BY <2>2, <2>3
<1>8. CASE WriteFails(p)
  BY <1>8, AgreeFails DEF WriteFails
<1> QED
  BY <1>2, <1>3, <1>5, <1>6, <1>7, <1>8 DEF Update

LEMMA AgreeRebuild ==
  ASSUME ReqOK, AgreeInv, NEW p \in Handlers, Rebuild(p)
  PROVE  AgreeInv'
<1>1. up /\ ~Midway(p) /\ UNCHANGED <<up, cfg, derived, file>>
  BY UpWhileBusy DEF Rebuild, ReadSchema, Install, Midway, serverVars
<1>2. Clean' => Clean
  BY DEF Rebuild, ReadSchema, Install, Clean, Without, history
<1>3. Others(p) /\ ~Midway(p)' /\ (Window(p)' => Window(p))
  <2>1. CASE ReadSchema(p)
    BY <2>1, ReadGoes DEF ReadSchema, Goes, Midway, Window
  <2>2. CASE Install(p)
    <3>1. CASE End(p)
      BY <3>1, EndEnds DEF Ends, Idle, Midway, Window
    <3>2. CASE req[p].op = "reload" /\ Step(p, "read")
      BY <3>2, StepGoes DEF Goes, Midway, Window
    <3> QED
      BY <2>2, <3>1, <3>2 DEF Install, Succeed
  <2> QED
    BY <2>1, <2>2 DEF Rebuild
<1> QED
  BY <1>1, <1>2, <1>3, AgreeKept

LEMMA AgreeStep ==
  ASSUME TypeInv, OrderInv, AgreeInv, [Next]_vars
  PROVE  AgreeInv'
<1>0. ReqOK
  BY DEF TypeInv
<1>1. ASSUME NEW p \in Handlers, Update(p) \/ Rebuild(p) PROVE AgreeInv'
  BY <1>0, <1>1, AgreeUpdate, AgreeRebuild
<1>2. ASSUME NEW a \in Admins, Handle(a) PROVE AgreeInv'
  <2>0. a \in Handlers
    BY DEF Handlers
  <2>1. up /\ ~Midway(a) /\ UNCHANGED <<up, cfg, derived, file>>
    BY <1>2, <2>0, UpWhileBusy DEF Handle, Migrated, Cancel, Midway, serverVars
  <2>2. CASE Migrated(a)
    <3>1. CASE req[a].op = "create" /\ Goes(a, "rebuild") /\ UNCHANGED mishaps
      <4>1. Others(a) /\ ~Midway(a)' /\ ~Window(a)' /\ (Clean' => Clean)
        BY <3>1 DEF Goes, Midway, Window, Clean, Without
      <4> QED
        BY <2>0, <2>1, <4>1, AgreeKept
    <3>2. CASE Goes(a, "validate") /\ NoteOverlap(a)
      <4>1. Others(a) /\ ~Midway(a)' /\ (Clean' => Clean /\ ~Overlaps(a))
        BY <3>2, OverlapSeen DEF Goes, Midway
      <4> QED
        BY <2>0, <2>1, <4>1, AgreeKept
    <3> QED
      BY <1>0, <2>2, <3>1, <3>2, MigratedGoes
  <2>3. CASE Cancel(a)
    <3>1. Ends(a) /\ (Clean' => Clean)
      BY <1>0, <2>0, <2>3, EndEnds DEF Cancel, Clean, Without
    <3>2. Others(a) /\ ~Midway(a)' /\ ~Window(a)'
      BY <3>1 DEF Ends, Midway, Window, Idle
    <3> QED
      BY <2>0, <2>1, <3>1, <3>2, AgreeKept
  <2> QED
    BY <1>2, <2>2, <2>3 DEF Handle
<1>3. ASSUME UNCHANGED <<up, cfg, derived, file, mishaps, req>> PROVE AgreeInv'
  BY <1>3 DEF AgreeInv, Agreement, Quiet, Clean, Without, Window, Midway
<1>4. ASSUME NEW p \in Handlers, NEW op, NEW pc, Starts(p, op, pc), up,
             UNCHANGED <<up, cfg, derived, file, mishaps>>,
             \/ op = "update" /\ pc = "validate"
             \/ op = "reload" /\ pc = "rebuild"
             \/ op # "reload" /\ pc = "migrated"
      PROVE  AgreeInv'
  <2>1. Others(p) /\ ~Midway(p) /\ ~Midway(p)' /\ ~Window(p)'
    BY <1>4 DEF Starts, Midway, Window
  <2> QED
    BY <1>4, <2>1, AgreeKept DEF Clean, Without
<1>5. ASSUME NEW a \in Admins, Settings(a) PROVE AgreeInv'
  <2>1. UNCHANGED <<up, cfg, derived, file, mishaps>> /\ a \in Handlers
    BY <1>5, SettingsEffect DEF serverVars, Handlers
  <2>2. CASE Starts(a, "update", "validate")
    <3>1. up
      BY <1>0, <1>5, <2>2, SendsWhileUp
    <3> QED
      BY <1>4, <2>1, <2>2, <3>1
  <2> QED
    BY <1>3, <1>5, <2>1, <2>2, SettingsEffect
<1>6. ASSUME NEW a \in Admins, getConfig(a) PROVE AgreeInv'
  BY <1>3, <1>6 DEF getConfig, serverVars, history
<1>7. ASSUME NEW a \in Admins, Schema(a) PROVE AgreeInv'
  <2>1. PICK op \in {"create", "rename", "drop"}, from \in Tables \cup {None},
             to \in Tables \cup {None} : apply_as_migration(a, op, from, to)
    BY <1>7 DEF Schema, createTable, dropTable, renameTable
  <2>2. Starts(a, op, "migrated") /\ a \in Handlers
    BY <1>0, <2>1, MigrationStarts DEF Handlers
  <2>3. up /\ UNCHANGED <<up, cfg, derived, file, mishaps>>
    BY <2>1 DEF apply_as_migration, Request, Ready, history
  <2> QED
    BY <1>4, <2>2, <2>3
<1>8. CASE Hangup
  <2>1. Starts(Hup, "reload", "rebuild") /\ Hup \in Handlers
    BY <1>0, <1>8, HangupStarts DEF Handlers
  <2>2. up /\ UNCHANGED <<up, cfg, derived, file, mishaps>>
    BY <1>8 DEF Hangup, serverVars, history
  <2> QED
    BY <1>4, <2>1, <2>2
<1>9. CASE Reload
  <2>0. Hup \in Handlers /\ UNCHANGED <<up, cfg, derived, file>> /\ NoteOverlap(Hup)
    BY <1>9 DEF Handlers, Reload, serverVars
  <2>1. up /\ ~Midway(Hup)
    BY <1>9, <2>0, UpWhileBusy DEF Reload, Midway
  <2>2. Others(Hup) /\ ~Midway(Hup)'
    BY <1>0, <1>9, ReloadGoes DEF Goes, Ends, Midway, Idle
  <2> QED
    BY <2>0, <2>1, <2>2, OverlapSeen, AgreeKept
<1>10. CASE Crash
  <2>1. \A p \in Handlers : req'[p] = Idle
    BY <1>10 DEF Crash
  <2>2. \A p \in Handlers : req'[p].pc = "idle" /\ req'[p].op = "none"
    BY <2>1 DEF Idle
  <2>3. Quiet'
    BY <2>2 DEF Quiet
  <2>4. ASSUME up' PROVE Agreement'
    BY <1>10, <2>2, <2>4 DEF Crash, Agreement, Window, Midway
  <2> QED
    BY <2>3, <2>4 DEF AgreeInv
<1>11. CASE UNCHANGED vars
  BY <1>3, <1>11 DEF vars, serverVars, history
<1> QED
  BY <1>1, <1>2, <1>5, <1>6, <1>7, <1>8, <1>9, <1>10, <1>11 DEF Next

\* Nothing under way, what is written to config.textproto and what jobs,
\* mailer and record APIs were made of is the configuration the server holds,
\* unless two updates overlapped or one could not write its file.
THEOREM QuietServerAgrees == Spec => []QuietAgrees
<1> DEFINE IInv == TypeInv /\ OrderInv /\ AgreeInv
<1>1. Init => IInv
  <2> SUFFICES ASSUME Init PROVE IInv
    OBVIOUS
  <2>1. \A p \in Handlers : req[p].pc = "idle" /\ req[p].op = "none"
    BY DEF Init, Idle
  <2>2. AgreeInv
    BY <2>1 DEF Init, AgreeInv, Agreement, Window, Midway
  <2>3. OrderInv
    BY DEF Init, OrderInv, Ordered, Idle
  <2> QED
    BY <2>2, <2>3, TypeInit
<1>2. IInv /\ [Next]_vars => IInv'
  BY TypeStep, OrderStep, AgreeStep
<1>3. IInv => QuietAgrees
  BY DEF AgreeInv, Agreement, Midway, QuietAgrees, Quiet, Clean
<1> QED
  BY <1>1, <1>2, <1>3, PTL DEF Spec

-----------------------------------------------------------------------------
(* The next start.                                                         *)

\* Tables disappear in a rename or a drop; when it rebuilds, its
\* configuration is in the file.
Shifts(p) == req[p].op \in {"rename", "drop"}
Rebuilding(p) == Shifts(p) /\ req[p].pc \in {"rebuild", "install"}
OneWindow == \A p, q \in Handlers : Window(p) /\ Window(q) => p = q

\* Nothing happened that StartsAgain makes an exception for.
Sound == Without({"torn", "schema", "overlap", "outdated"})

\* What a start needs is there all the time except while tables shift; then
\* the request that shifts them is there to put it right.
Startable ==
  /\ up /\ recorded /\ file # Torn
  /\ OneWindow
  /\ \A p \in Handlers : Rebuilding(p) => file = cfg
  /\ \A p \in Handlers : req[p].pc = "write" => req[p].snap = cfg
  /\ (\A p \in Handlers : ~Shifts(p)) => validate(file, tables) /\ meta \subseteq tables

StartInv == Sound => Startable

LEMMA ValidateMore ==
  ASSUME NEW c, NEW m, NEW n, m \subseteq n, validate(c, m)
  PROVE  validate(c, n)
  BY DEF validate

LEMMA WindowKept ==
  ASSUME OneWindow, NEW p \in Handlers, Others(p), Window(p)' => Window(p) \/ ~Overlaps(p)
  PROVE  OneWindow'
<1>1. \A q \in Handlers \ {p} : Window(q)' <=> Window(q)
  BY DEF Others, Window
<1>2. Window(p)' => \A q \in Handlers \ {p} : ~Window(q)
  BY DEF OneWindow, Overlaps
<1> QED
  BY <1>1, <1>2 DEF OneWindow

LEMMA OverlapSound ==
  ASSUME NEW p, NoteOverlap(p), Sound'
  PROVE  ~Overlaps(p) /\ Sound
  BY DEF NoteOverlap, Sound, Without

\* Steps that change nothing a start looks at.
LEMMA StartKept ==
  ASSUME StartInv, NEW p \in Handlers, Others(p), Sound' => Sound,
         Sound' => UNCHANGED <<up, cfg, file, tables, recorded, meta>>,
         Sound' /\ Window(p)' => Window(p) \/ ~Overlaps(p),
         Sound' /\ Shifts(p) => Shifts(p)',
         Rebuilding(p)' => Rebuilding(p),
         req'[p].pc = "write" => req'[p].snap = cfg
  PROVE  StartInv'
<1> SUFFICES ASSUME Sound' PROVE Startable'
  BY DEF StartInv
<1>1. Startable /\ UNCHANGED <<up, cfg, file, tables, recorded, meta>>
  BY DEF StartInv
<1>2. OneWindow'
  BY <1>1, WindowKept DEF Startable
<1>3. \A q \in Handlers : Rebuilding(q)' => Rebuilding(q)
  BY DEF Others, Rebuilding, Shifts
<1>4. \A q \in Handlers : req'[q].pc = "write" => req'[q].snap = cfg
  BY <1>1 DEF Others, Startable
<1>5. (\A q \in Handlers : ~Shifts(q))' => \A q \in Handlers : ~Shifts(q)
  BY DEF Others, Shifts
<1>6. validate(file, tables) => validate(file, tables)'
  BY <1>1 DEF validate
<1> QED
  BY <1>1, <1>2, <1>3, <1>4, <1>5, <1>6 DEF Startable

LEMMA StartFails ==
  ASSUME ReqOK, StartInv, NEW p \in Handlers, Fail(p)
  PROVE  StartInv'
<1>1. Ends(p)
  BY EndEnds DEF Fail
<1>2. ~Window(p)' /\ ~Rebuilding(p)' /\ req'[p].pc # "write" /\ Others(p)
  BY <1>1 DEF Ends, Window, Rebuilding, Shifts, Idle
<1>3. (Sound' => Sound) /\ (Sound' => ~Shifts(p))
  BY DEF Fail, Sound, Without, Shifts
<1>4. UNCHANGED <<up, cfg, file, tables, recorded, meta>>
  BY DEF Fail, serverVars
<1> QED
  BY <1>2, <1>3, <1>4, StartKept

LEMMA StartStore ==
  ASSUME ReqOK, StartInv, NEW p \in Handlers, Store(p)
  PROVE  StartInv'
<1> SUFFICES ASSUME Sound' PROVE Startable'
  BY DEF StartInv
<1>0. /\ req[p].pc = "store" /\ UNCHANGED <<up, file, tables, recorded, meta, mishaps>>
      /\ Goes(p, "notify")
  BY StepGoes DEF Store, history
<1>1. Startable
  BY <1>0 DEF StartInv, Sound, Without
<1>2. Window(p) /\ \A q \in Handlers \ {p} : ~Window(q)
  BY <1>0, <1>1 DEF Startable, OneWindow, Window
<1>3. OneWindow'
  BY <1>0, <1>1, <1>2, WindowKept DEF Startable, Goes
<1>4. \A q \in Handlers : ~Rebuilding(q)' /\ req'[q].pc # "write"
  BY <1>0, <1>2 DEF Goes, Others, Rebuilding, Shifts, Window
<1>5. (\A q \in Handlers : ~Shifts(q))' => \A q \in Handlers : ~Shifts(q)
  BY <1>0 DEF Goes, Others, Shifts
<1>6. validate(file, tables) => validate(file, tables)'
  BY <1>0 DEF validate
<1> QED
  BY <1>0, <1>1, <1>3, <1>4, <1>5, <1>6 DEF Startable

\* The file gets a configuration that fits the cached schemas, and these are
\* not ahead of the database unless tables shift.
LEMMA StartWrite ==
  ASSUME TypeInv, StartInv, NEW p \in Handlers, Write(p)
  PROVE  StartInv'
<1> SUFFICES ASSUME Sound' PROVE Startable'
  BY DEF StartInv
<1>0. /\ req[p].pc = "write" /\ UNCHANGED <<up, cfg, tables, recorded, meta, mishaps>>
      /\ file' = req[p].snap /\ validate(req[p].snap, meta)
  BY DEF Write
<1>1. Startable
  BY <1>0 DEF StartInv, Sound, Without
<1>2. Window(p) /\ \A q \in Handlers \ {p} : ~Window(q)
  BY <1>0, <1>1 DEF Startable, OneWindow, Window
<1>3. file' = cfg /\ file' # Torn
  BY <1>0, <1>1, NoneIsNot DEF Startable, TypeInv, ServerOK
<1>4. \/ Ends(p) /\ ~Shifts(p)
      \/ Goes(p, "rebuild") /\ Shifts(p)
  BY EndEnds, StepGoes DEF Write, Succeed, Shifts, TypeInv
<1>5. Others(p) /\ req'[p].pc # "write" /\ (Window(p)' => Window(p))
  BY <1>2, <1>4 DEF Ends, Goes, Idle
<1>6. OneWindow'
  BY <1>1, <1>5, WindowKept DEF Startable
<1>7. \A q \in Handlers : req'[q].pc # "write"
  BY <1>2, <1>5 DEF Others, Window
<1>8. (\A q \in Handlers : ~Shifts(q))' => \A q \in Handlers : ~Shifts(q)
  BY <1>4 DEF Goes, Ends, Others, Shifts
<1>9. (\A q \in Handlers : ~Shifts(q)) => validate(file', tables') /\ meta' \subseteq tables'
  BY <1>0, <1>1, ValidateMore DEF Startable
<1>10. validate(file', tables') => validate(file, tables)'
  BY DEF validate
<1> QED
  BY <1>0, <1>1, <1>3, <1>6, <1>7, <1>8, <1>9, <1>10 DEF Startable

LEMMA StartUpdate ==
  ASSUME TypeInv, StartInv, NEW p \in Handlers, Update(p)
  PROVE  StartInv'
<1>0. ReqOK
  BY DEF TypeInv
<1>1. CASE Validate(p)
  <2>1. CASE Step(p, "load") /\ UNCHANGED <<serverVars, clientVars, counters, history>>
    <3>1. Goes(p, "load")
      BY <1>0, <2>1, StepGoes
    <3>2. /\ Others(p) /\ ~Rebuilding(p)' /\ req'[p].pc # "write"
          /\ Window(p)' => Window(p)
          /\ Shifts(p) => Shifts(p)'
      BY <1>1, <3>1 DEF Validate, Goes, Rebuilding, Shifts, Window
    <3>3. Sound' => Sound
      BY <2>1 DEF Sound, Without, history
    <3> QED
      BY <2>1, <3>2, <3>3, StartKept DEF serverVars
  <2> QED
    BY <1>0, <1>1, <2>1, StartFails DEF Validate
<1>2. CASE Load(p)
  <2>1. CASE hashMatches(p)
    <3>0. UNCHANGED serverVars /\ NoteOverlap(p)
      BY <1>2, <2>1 DEF Load
    <3>1. Goes(p, IF req[p].new = cfg THEN "write" ELSE "store") /\ req'[p].snap = cfg
      BY <1>0, <1>2, <2>1, LoadGoes
    <3>2. Others(p) /\ ~Rebuilding(p)' /\ (Shifts(p) => Shifts(p)')
      BY <3>1 DEF Goes, Rebuilding, Shifts
    <3> QED
      BY <3>0, <3>1, <3>2, OverlapSound, StartKept DEF serverVars
  <2> QED
    BY <1>0, <1>2, <2>1, StartFails DEF Load
<1>3. CASE Notify(p)
  <2>1. Goes(p, "write") /\ req'[p].snap = cfg
    BY <1>0, <1>3, NotifyGoes
  <2>2. /\ Others(p) /\ ~Rebuilding(p)' /\ (Shifts(p) => Shifts(p)')
        /\ Window(p)' => Window(p)
    BY <1>3, <2>1 DEF Notify, Goes, Rebuilding, Shifts, Window
  <2>3. UNCHANGED <<up, cfg, file, tables, recorded, meta>> /\ (Sound' => Sound)
    BY <1>3 DEF Notify, Sound, Without, history
  <2> QED
    BY <2>1, <2>2, <2>3, StartKept
<1> QED
  BY <1>0, <1>1, <1>2, <1>3, StartStore, StartWrite, StartFails DEF Update, WriteFails

\* The schemas that are installed are the database's, and a request that
\* shifted tables ends with a configuration, in the file, that fits them.
LEMMA StartInstall ==
  ASSUME ReqOK, StartInv, NEW p \in Handlers, Install(p)
  PROVE  StartInv'
<1> SUFFICES ASSUME Sound' PROVE Startable'
  BY DEF StartInv
<1>0. UNCHANGED <<up, cfg, file, tables, recorded>> /\ req[p].pc = "install"
  BY DEF Install
<1>1. Sound /\ meta' = tables
  BY DEF Install, Outdated, Sound, Without
<1>2. Startable
  BY <1>1 DEF StartInv
<1>3. \/ req[p].op = "reload" /\ Goes(p, "read")
      \/ Ends(p) /\ validate(cfg, meta')
  <2>1. CASE req[p].op = "reload" /\ Step(p, "read")
    BY <2>1, StepGoes
  <2>2. CASE req[p].op # "reload" /\ validate(cfg, meta') /\ End(p)
    BY <2>2, EndEnds
  <2>3. CASE req[p].op # "reload" /\ ~validate(cfg, meta')
    BY <2>3 DEF Install, Sound, Without
  <2> QED
    BY <2>1, <2>2, <2>3 DEF Install, Succeed
<1>4. Others(p) /\ ~Window(p)' /\ ~Rebuilding(p)' /\ req'[p].pc # "write"
  BY <1>3 DEF Goes, Ends, Idle, Window, Rebuilding, Shifts
<1>5. OneWindow'
  BY <1>2, <1>4, WindowKept DEF Startable
<1>6. \A q \in Handlers : /\ Rebuilding(q)' => Rebuilding(q)
                          /\ req'[q].pc = "write" => req'[q].snap = cfg
  BY <1>2, <1>4 DEF Others, Rebuilding, Shifts, Startable
<1>7. ASSUME \A q \in Handlers : ~Shifts(q)' PROVE validate(file, tables)
  <2>1. \A q \in Handlers \ {p} : ~Shifts(q)
    BY <1>4, <1>7 DEF Others, Shifts
  <2>2. CASE Shifts(p)
    <3>1. file = cfg
      BY <1>0, <1>2, <2>2 DEF Startable, Rebuilding
    <3>2. validate(cfg, meta')
      BY <1>3, <2>2 DEF Shifts
    <3> QED
      BY <1>1, <3>1, <3>2 DEF validate
  <2>3. CASE ~Shifts(p)
    BY <1>2, <2>1, <2>3 DEF Startable
  <2> QED
    BY <2>2, <2>3
<1>8. validate(file, tables) => validate(file, tables)'
  BY <1>0 DEF validate
<1> QED
  BY <1>0, <1>1, <1>2, <1>5, <1>6, <1>7, <1>8 DEF Startable

\* A table that is created takes none away.
LEMMA TablesStay ==
  ASSUME NEW a, NEW to, apply_as_migration(a, "create", None, to), tables \subseteq Tables
  PROVE  tables \subseteq tables'
  BY ConfigurationAssumption DEF apply_as_migration

LEMMA StartMigration ==
  ASSUME TypeInv, OrderInv, StartInv, NEW a \in Admins, NEW op \in {"create", "rename", "drop"},
         NEW from, NEW to, apply_as_migration(a, op, from, to),
         op = "create" => from = None
  PROVE  StartInv'
<1> SUFFICES ASSUME Sound' PROVE Startable'
  BY DEF StartInv
<1>0. UNCHANGED <<up, cfg, file, recorded, meta, mishaps>>
  BY DEF apply_as_migration, history
<1>1. Startable
  BY <1>0 DEF StartInv, Sound, Without
<1>2. Starts(a, op, "migrated") /\ a \in Handlers
  BY MigrationStarts DEF Handlers, TypeInv
<1>3. Others(a) /\ ~Window(a)' /\ ~Rebuilding(a)' /\ req'[a].pc # "write" /\ ~Shifts(a)
  BY <1>2 DEF Starts, Window, Rebuilding, Shifts, OrderInv, Ordered
<1>4. OneWindow'
  BY <1>1, <1>2, <1>3, WindowKept DEF Startable
<1>5. \A q \in Handlers : /\ Rebuilding(q)' => Rebuilding(q)
                          /\ req'[q].pc = "write" => req'[q].snap = cfg
  BY <1>1, <1>3 DEF Others, Rebuilding, Shifts, Startable
<1>6. ASSUME \A q \in Handlers : ~Shifts(q)'
      PROVE  validate(file', tables') /\ meta' \subseteq tables'
  <2>1. op = "create"
    BY <1>2, <1>6 DEF Starts, Shifts
  <2>2. \A q \in Handlers : ~Shifts(q)
    BY <1>3, <1>6 DEF Others, Shifts
  <2>3. validate(file, tables) /\ meta \subseteq tables
    BY <1>1, <2>2 DEF Startable
  <2>4. tables \subseteq tables'
    BY <2>1, TablesStay DEF TypeInv, ServerOK
  <2> QED
    BY <1>0, <2>3, <2>4, ValidateMore
<1>7. validate(file', tables') => validate(file, tables)'
  BY DEF validate
<1> QED
  BY <1>0, <1>1, <1>4, <1>5, <1>6, <1>7 DEF Startable

LEMMA StartCrash ==
  ASSUME TypeInv, OrderInv, StartInv, Crash
  PROVE  StartInv'
<1> SUFFICES ASSUME Sound' PROVE Startable'
  BY DEF StartInv
<1>1. file' = file /\ file # Torn
  BY DEF Crash, Sound, Without
<1>2. \A p \in Admins : ~Shifts(p) /\ req[p].pc # "migrated"
  BY DEF Crash, Sound, Without, Shifts
<1>3. ~Shifts(Hup) /\ req[Hup].pc # "migrated"
  BY DEF OrderInv, Ordered, Handlers, Shifts
<1>4. Sound
  BY DEF Crash, Sound, Without
<1>5. Startable
  BY <1>4 DEF StartInv
<1>6. validate(file, tables) /\ recorded'
  BY <1>2, <1>3, <1>5 DEF Startable, Crash, Handlers
<1>7. up' /\ UNCHANGED tables /\ meta' = tables
  BY <1>1, <1>6 DEF Crash, loads, validate
<1>8. \A p \in Handlers : req'[p].pc = "idle" /\ req'[p].op = "none"
  BY DEF Crash, Idle
<1>9. validate(file, tables)'
  BY <1>1, <1>6, <1>7 DEF validate
<1> QED
  BY <1>1, <1>6, <1>7, <1>8, <1>9 DEF Startable, OneWindow, Window, Rebuilding

LEMMA StartStep ==
  ASSUME TypeInv, OrderInv, StartInv, [Next]_vars
  PROVE  StartInv'
<1>0. ReqOK
  BY DEF TypeInv
<1>1. ASSUME NEW p \in Handlers, Update(p) PROVE StartInv'
  BY <1>1, StartUpdate
<1>2. ASSUME NEW p \in Handlers, Rebuild(p) PROVE StartInv'
  <2>1. CASE ReadSchema(p)
    <3>1. /\ Others(p) /\ req'[p].pc # "write" /\ (Window(p)' => Window(p))
          /\ Shifts(p) => Shifts(p)'
          /\ Rebuilding(p)' => Rebuilding(p)
      BY <1>0, <2>1, ReadGoes DEF ReadSchema, Goes, Window, Shifts, Rebuilding
    <3> QED
      BY <2>1, <3>1, StartKept DEF ReadSchema, serverVars, history, Sound, Without
  <2> QED
    BY <1>0, <1>2, <2>1, StartInstall DEF Rebuild
<1>3. ASSUME NEW a \in Admins, Handle(a) PROVE StartInv'
  <2>0. a \in Handlers
    BY DEF Handlers
  <2>1. CASE Migrated(a)
    <3>0. UNCHANGED <<up, cfg, file, tables, recorded, meta>>
      BY <2>1 DEF Migrated, serverVars
    <3>1. CASE req[a].op = "create" /\ Goes(a, "rebuild") /\ UNCHANGED mishaps
      <4>1. /\ Others(a) /\ ~Window(a)' /\ req'[a].pc # "write" /\ ~Rebuilding(a)'
            /\ ~Shifts(a) /\ (Sound' => Sound)
        BY <3>1 DEF Goes, Window, Rebuilding, Shifts, Sound, Without
      <4> QED
        BY <2>0, <3>0, <4>1, StartKept
    <3>2. CASE Goes(a, "validate") /\ NoteOverlap(a)
      <4>1. /\ Others(a) /\ req'[a].pc # "write" /\ ~Rebuilding(a)'
            /\ Shifts(a) => Shifts(a)'
            /\ Sound' => Sound /\ ~Overlaps(a)
        BY <3>2, OverlapSound DEF Goes, Rebuilding, Shifts
      <4> QED
        BY <2>0, <3>0, <4>1, StartKept
    <3> QED
      BY <1>0, <2>1, <3>1, <3>2, MigratedGoes
  <2>2. CASE Cancel(a)
    BY <2>2 DEF Cancel, StartInv, Sound, Without
  <2> QED
    BY <1>3, <2>1, <2>2 DEF Handle
<1>4. ASSUME UNCHANGED <<serverVars, mishaps, req>> PROVE StartInv'
  BY <1>4 DEF serverVars, StartInv, Startable, Sound, Without, OneWindow, Window, Rebuilding,
     Shifts, validate
<1>5. ASSUME NEW p \in Handlers, NEW op, NEW pc, Starts(p, op, pc),
             UNCHANGED <<serverVars, mishaps>>,
             \/ op = "update" /\ pc = "validate"
             \/ op = "reload" /\ pc = "rebuild"
      PROVE  StartInv'
  <2>1. /\ Others(p) /\ ~Window(p)' /\ ~Rebuilding(p)' /\ req'[p].pc # "write"
        /\ ~Shifts(p)
    BY <1>5 DEF Starts, Window, Rebuilding, Shifts, OrderInv, Ordered
  <2> QED
    BY <1>5, <2>1, StartKept DEF serverVars, Sound, Without
<1>6. ASSUME NEW a \in Admins, Settings(a) \/ getConfig(a) PROVE StartInv'
  <2>1. a \in Handlers /\ UNCHANGED <<serverVars, mishaps>>
    BY <1>6, SettingsEffect DEF Handlers, getConfig, history
  <2>2. UNCHANGED req \/ Starts(a, "update", "validate")
    BY <1>6, SettingsEffect DEF getConfig
  <2> QED
    BY <1>4, <1>5, <2>1, <2>2
<1>7. ASSUME NEW a \in Admins, Schema(a) PROVE StartInv'
  BY <1>0, <1>7, StartMigration DEF Schema, createTable, dropTable, renameTable
<1>8. CASE Hangup
  <2>1. Starts(Hup, "reload", "rebuild") /\ Hup \in Handlers
    BY <1>0, <1>8, HangupStarts DEF Handlers
  <2>2. UNCHANGED <<serverVars, mishaps>>
    BY <1>8 DEF Hangup, history
  <2> QED
    BY <1>5, <2>1, <2>2
<1>9. CASE Reload
  <2>0. Hup \in Handlers /\ UNCHANGED serverVars /\ NoteOverlap(Hup)
    BY <1>9 DEF Handlers, Reload
  <2>1. ~Shifts(Hup)
    BY <2>0, <1>9 DEF OrderInv, Ordered, Reload, Shifts
  <2>2. Others(Hup) /\ ~Rebuilding(Hup)' /\ req'[Hup].pc # "write"
    BY <1>0, <1>9, ReloadGoes DEF Goes, Ends, Rebuilding, Shifts, Idle
  <2> QED
    BY <2>0, <2>1, <2>2, OverlapSound, StartKept DEF serverVars
<1>10. CASE Crash
  BY <1>10, StartCrash
<1>11. CASE UNCHANGED vars
  BY <1>4, <1>11 DEF vars, history
<1> QED
  BY <1>1, <1>2, <1>3, <1>6, <1>7, <1>8, <1>9, <1>10, <1>11 DEF Next

\* A server that was killed starts again with what it finds: the file is
\* whole and fits the tables, and every migration has its file, unless one of
\* the four noted mishaps came before (init_app_state, verify_migrations).
THEOREM ServerStartsAgain == Spec => []StartsAgain
<1> DEFINE IInv == TypeInv /\ OrderInv /\ StartInv
<1>1. Init => IInv
  <2> SUFFICES ASSUME Init PROVE IInv
    OBVIOUS
  <2>1. \A p \in Handlers : req[p].pc = "idle" /\ req[p].op = "none"
    BY DEF Init, Idle
  <2>2. OrderInv
    BY DEF Init, OrderInv, Ordered, Idle
  <2>3. file # Torn /\ validate(file, tables)
    BY ConfigurationAssumption DEF Init, validate
  <2>4. StartInv
    BY <2>1, <2>3 DEF Init, StartInv, Startable, OneWindow, Window, Rebuilding
  <2> QED
    BY <2>2, <2>4, TypeInit
<1>2. IInv /\ [Next]_vars => IInv'
  BY TypeStep, OrderStep, StartStep
<1>3. IInv => StartsAgain
  BY DEF StartInv, Startable, StartsAgain, Sound
<1> QED
  BY <1>1, <1>2, <1>3, PTL DEF Spec


-----------------------------------------------------------------------------
(* What admins were told.                                                  *)

\* Nothing happened that EditsKept makes an exception for.
Calm == Without({"overlap", "unwritten", "schema"})

\* A configuration has every item as its last admin was told, but for those
\* that were changed silently.
Settled(c) == \A i \in Items : c[i] = acked[i] \/ i \in silent

\* The configuration is this request's, which has not been acknowledged.
Stored(p) == Midway(p) \/ Rebuilding(p)

\* What the acknowledgement leaves alone is settled in the request's
\* configuration, or is about to be counted as silent.
WillSettle(p) ==
  \A i \in Items \ DOMAIN req[p].want :
    \/ req[p].new[i] = acked[i] \/ i \in silent
    \/ req[p].hash # None /\ req[p].new[i] # req[p].hash[i]

Kept ==
  /\ (\A p \in Handlers : ~Stored(p)) => Settled(cfg)
  /\ (\A p \in Handlers : ~Rebuilding(p)) => Settled(file)
  /\ \A p \in Handlers :
       /\ Stored(p) => req[p].new = cfg
       /\ Rebuilding(p) => file = cfg
       /\ Stored(p) \/ req[p].pc = "store" => WillSettle(p)
       /\ req[p].op = "reload" /\ req[p].pc \in {"validate", "load"} => Settled(req[p].new)

\* Who compares hashes: updates of the pages, and schema changes when they
\* come to the configuration.  A table that is created changes none.
Asks(p) ==
  /\ req[p].op = "update" => req[p].hash # None
  /\ req[p].op \in {"rename", "drop"} /\ req[p].pc # "migrated" => req[p].hash # None
  /\ req[p].op = "create" => DOMAIN req[p].want = {} /\ req[p].hash = None

KeepInv == /\ \A p \in Handlers : Asks(p)
           /\ up /\ Calm => Kept

\* What a request asks for stays as it is while it goes on.
Same(p) == /\ req'[p].new = req[p].new /\ req'[p].hash = req[p].hash
           /\ req'[p].want = req[p].want

LEMMA GoesOn ==
  ASSUME ReqOK, NEW p \in Handlers,
         \/ \E pc \in Places : Step(p, pc)
         \/ Load(p) /\ hashMatches(p)
         \/ Notify(p) \/ ReadSchema(p)
  PROVE  Same(p)
<1>0. RequestOK(req[p])
  BY DEF ReqOK
<1>1. ASSUME NEW r, req' = [req EXCEPT ![p] = r],
             r.new = req[p].new, r.hash = req[p].hash, r.want = req[p].want
      PROVE  Same(p)
  BY <1>1 DEF ReqOK, Same
<1>2. ASSUME NEW pc \in Places, Step(p, pc) PROVE Same(p)
  <2>1. req' = [req EXCEPT ![p] = [req[p] EXCEPT !.pc = pc]]
    BY <1>2 DEF Step
  <2> QED
    BY <1>0, <1>1, <2>1 DEF RequestOK
<1>3. CASE Load(p) /\ hashMatches(p)
  <2> DEFINE pc == IF req[p].new = cfg THEN "write" ELSE "store"
  <2> HIDE DEF pc
  <2>1. req' = [req EXCEPT ![p] = [req[p] EXCEPT !.pc = pc, !.snap = cfg]]
    BY <1>3 DEF Load, pc
  <2> QED
    BY <1>0, <1>1, <2>1 DEF RequestOK
<1>4. CASE Notify(p)
  <2>1. req' = [req EXCEPT ![p] = [req[p] EXCEPT !.pc = "write", !.snap = cfg]]
    BY <1>4 DEF Notify
  <2> QED
    BY <1>0, <1>1, <2>1 DEF RequestOK
<1>5. CASE ReadSchema(p)
  <2>1. req' = [req EXCEPT ![p] = [req[p] EXCEPT !.pc = "install", !.schema = tables]]
    BY <1>5 DEF ReadSchema
  <2> QED
    BY <1>0, <1>1, <2>1 DEF RequestOK
<1> QED
  BY <1>2, <1>3, <1>4, <1>5

LEMMA MigratedAsks ==
  ASSUME ReqOK, NEW a \in Admins, Migrated(a), req[a].op # "create"
  PROVE  req'[a].hash = cfg
<1>0. a \in Handlers /\ RequestOK(req[a])
  BY DEF ReqOK, Handlers
<1>1. PICK want : req' = [req EXCEPT ![a].pc = "validate", ![a].new = Over(want, cfg),
                                     ![a].hash = cfg, ![a].want = want]
  BY DEF Migrated
<1> DEFINE new == Over(want, cfg)
<1> HIDE DEF new
<1>2. req' = [req EXCEPT ![a] = [req[a] EXCEPT !.pc = "validate", !.new = new, !.hash = cfg,
                                               !.want = want]]
  BY <1>1 DEF new
<1> QED
  BY <1>0, <1>2 DEF ReqOK, RequestOK

LEMMA MigrationAsks ==
  ASSUME ReqOK, NEW a \in Admins, NEW op, NEW from, NEW to, apply_as_migration(a, op, from, to)
  PROVE  DOMAIN req'[a].want = {} /\ req'[a].hash = None
<1> DEFINE r == [Idle EXCEPT !.op = op, !.pc = "migrated", !.from = from, !.to = to]
<1>1. req' = [req EXCEPT ![a] = r]
  BY DEF apply_as_migration, Request
<1>2. req'[a] = r
  BY <1>1 DEF ReqOK, Handlers
<1>3. r.want = <<>> /\ r.hash = None
  BY DEF Idle
<1>4. DOMAIN <<>> = {}
  OBVIOUS
<1> HIDE DEF r
<1> QED
  BY <1>2, <1>3, <1>4

LEMMA SettingsAsk ==
  ASSUME TypeInv, NEW a \in Admins, Settings(a), Starts(a, "update", "validate")
  PROVE  req'[a].hash # None
<1>0. cache[a] \in Configs /\ cache[a] # None
  BY NoneIsNot DEF TypeInv, ClientOK
<1>1. ASSUME NEW config, NEW want, setConfig(a, config, want) PROVE req'[a].hash = cache[a]
  <2> DEFINE r == [Idle EXCEPT !.op = "update", !.pc = "validate", !.new = config,
                               !.hash = cache[a], !.want = want]
  <2>1. req' = [req EXCEPT ![a] = r]
    BY <1>1 DEF setConfig, Request
  <2>2. req'[a] = r
    BY <2>1 DEF TypeInv, ReqOK, Handlers
  <2>3. r.hash = cache[a]
    BY DEF Idle
  <2> HIDE DEF r
  <2> QED
    BY <2>2, <2>3
<1>2. req' # req
  BY DEF Starts
<1> QED
  BY <1>0, <1>1, <1>2 DEF Settings, Edit, Discard, Submit, linkDb, SelectDb, unlinkSelectedDbs,
     updateRecordApiConfig, removeRecordApiConfig

LEMMA ReloadAsks ==
  ASSUME ReqOK, Reload, Goes(Hup, "validate")
  PROVE  req'[Hup].new = file
<1>1. Hup \in Handlers /\ RequestOK(req[Hup])
  BY DEF ReqOK, Handlers
<1>2. req'[Hup] # Idle
  BY DEF Goes, Idle
<1> QED
  BY <1>1, <1>2, ReloadGoes DEF Ends

LEMMA CalmIsClean == (Calm => Clean) /\ (Calm' => Clean')
  BY DEF Calm, Clean, Without

LEMMA OverlapCalm ==
  ASSUME NEW p, NoteOverlap(p), Calm'
  PROVE  ~Overlaps(p) /\ Calm
  BY DEF NoteOverlap, Calm, Without

LEMMA StoredIsWindow == \A p : Stored(p) \/ req[p].pc = "store" => Window(p)
  BY DEF Stored, Midway, Rebuilding, Shifts, Window

LEMMA AsksOthers ==
  ASSUME KeepInv, NEW p \in Handlers, Others(p), Asks(p)'
  PROVE  \A q \in Handlers : Asks(q)'
  BY DEF KeepInv, Others, Asks

\* Steps before the configuration is stored, and those after it that leave it.
LEMMA KeepKept ==
  ASSUME KeepInv, NEW p \in Handlers, Others(p), Asks(p)',
         UNCHANGED <<up, cfg, file, acked, silent>>, Calm' => Calm,
         Calm' /\ up /\ Kept =>
           /\ Stored(p) => Stored(p)'
           /\ Rebuilding(p) <=> Rebuilding(p)'
           /\ Stored(p)' => req'[p].new = cfg
           /\ Stored(p)' \/ req'[p].pc = "store" => WillSettle(p)'
           /\ req'[p].op = "reload" /\ req'[p].pc \in {"validate", "load"} => Settled(req'[p].new)
  PROVE  KeepInv'
<1>1. (\A q \in Handlers : Asks(q))'
  BY AsksOthers
<1> SUFFICES ASSUME up', Calm' PROVE Kept'
  BY <1>1 DEF KeepInv
<1>2. Kept /\ up
  BY DEF KeepInv
<1>3. \A q \in Handlers \ {p} :
        /\ Stored(q)' <=> Stored(q)
        /\ Rebuilding(q)' <=> Rebuilding(q)
        /\ WillSettle(q)' <=> WillSettle(q)
  BY DEF Others, Stored, Midway, Rebuilding, Shifts, WillSettle
<1>4. \A c : Settled(c) <=> \A i \in Items : c[i] = acked'[i] \/ i \in silent'
  BY DEF Settled
<1>5. ((\A q \in Handlers : ~Stored(q)) => Settled(cfg))'
  BY <1>2, <1>3, <1>4 DEF Kept, Settled
<1>6. ((\A q \in Handlers : ~Rebuilding(q)) => Settled(file))'
  BY <1>2, <1>3, <1>4 DEF Kept, Settled
<1>7. ASSUME NEW q \in Handlers
      PROVE  /\ Stored(q)' => req'[q].new = cfg'
             /\ Rebuilding(q)' => file' = cfg'
             /\ Stored(q)' \/ req'[q].pc = "store" => WillSettle(q)'
             /\ req'[q].op = "reload" /\ req'[q].pc \in {"validate", "load"} =>
                  Settled(req[q].new)'
  <2>1. CASE q = p
    BY <1>2, <2>1 DEF Kept, Settled
  <2>2. CASE q # p
    <3>1. req'[q] = req[q]
      BY <2>2 DEF Others
    <3> QED
      BY <1>2, <1>3, <2>2, <3>1 DEF Kept, Settled
  <2> QED
    BY <2>1, <2>2
<1> QED
  BY <1>5, <1>6, <1>7 DEF Kept

\* The step of the one request that is in its window.
LEMMA KeepAlone ==
  ASSUME KeepInv, NEW p \in Handlers, Others(p), Asks(p)',
         \A q \in Handlers \ {p} : ~Window(q),
         Stored(p)' \/ Settled(cfg)', Rebuilding(p)' \/ Settled(file)',
         Stored(p)' => req'[p].new = cfg' /\ WillSettle(p)',
         Rebuilding(p)' => file' = cfg',
         req'[p].pc \notin {"store", "validate", "load"}
  PROVE  KeepInv'
<1>1. (\A q \in Handlers : Asks(q))'
  BY AsksOthers
<1>2. \A q \in Handlers \ {p} : ~Window(q)'
  BY DEF Others, Window
<1>3. \A q \in Handlers \ {p} :
        /\ ~Stored(q)' /\ ~Rebuilding(q)' /\ req'[q].pc # "store"
        /\ ~(req'[q].op = "reload" /\ req'[q].pc \in {"validate", "load"})
  BY <1>2 DEF Stored, Midway, Rebuilding, Shifts, Window
<1>4. Kept'
  BY <1>3 DEF Kept
<1> QED
  BY <1>1, <1>4 DEF KeepInv

\* The acknowledgement settles what was going to be.
LEMMA Acknowledged ==
  ASSUME TypeInv, NEW p \in Handlers, Acknowledge(p), WillSettle(p)
  PROVE  \A c : c = req[p].new => \A i \in Items : c[i] = acked'[i] \/ i \in silent'
<1> SUFFICES ASSUME NEW i \in Items PROVE req[p].new[i] = acked'[i] \/ i \in silent'
  OBVIOUS
<1> DEFINE want == req[p].want
<1>1. DOMAIN acked = Items
  BY DEF TypeInv, HistoryOK, Configs
<1>2. acked'[i] = IF i \in DOMAIN want THEN want[i] ELSE acked[i]
  BY <1>1 DEF Acknowledge, Over
<1>3. silent' = (silent \ DOMAIN want) \cup Unlike(p)
  BY DEF Acknowledge
<1>4. i \in Unlike(p) <=> IF i \in DOMAIN want THEN want[i] # req[p].new[i]
                          ELSE req[p].hash # None /\ req[p].new[i] # req[p].hash[i]
  BY DEF Unlike
<1> HIDE DEF want
<1>5. CASE i \in DOMAIN want
  BY <1>2, <1>3, <1>4, <1>5
<1>6. CASE i \notin DOMAIN want
  <2>1. \/ req[p].new[i] = acked[i] \/ i \in silent
        \/ req[p].hash # None /\ req[p].new[i] # req[p].hash[i]
    BY <1>6 DEF WillSettle, want
  <2> QED
    BY <1>2, <1>3, <1>4, <1>6, <2>1
<1> QED
  BY <1>5, <1>6

\* A request that has nothing to say about the configuration changes nothing.
LEMMA NothingAcknowledged ==
  ASSUME TypeInv, NEW p \in Handlers, Acknowledge(p), DOMAIN req[p].want = {}, req[p].hash = None
  PROVE  UNCHANGED <<acked, silent>>
<1>1. Unlike(p) = {}
  BY DEF Unlike
<1>2. acked = [i \in Items |-> acked[i]]
  BY DEF TypeInv, HistoryOK, Configs
<1>3. acked' = [i \in Items |-> acked[i]]
  BY <1>2 DEF Acknowledge, Over
<1> QED
  BY <1>1, <1>2, <1>3 DEF Acknowledge

LEMMA KeepFails ==
  ASSUME ReqOK, KeepInv, NEW p \in Handlers, Fail(p),
         req[p].pc \in {"validate", "load", "write"}
  PROVE  KeepInv'
<1>1. Ends(p) /\ Others(p)
  BY EndEnds DEF Fail, Ends
<1>2. req'[p].pc = "idle" /\ req'[p].op = "none"
  BY <1>1 DEF Ends, Idle
<1>3. Asks(p)'
  BY <1>2 DEF Asks
<1>4. UNCHANGED <<up, cfg, file, acked, silent>>
  BY DEF Fail, serverVars
<1>5. Calm' => Calm /\ req[p].pc # "write" /\ ~Shifts(p)
  BY DEF Fail, Calm, Without, Shifts
<1>6. Calm' => ~Stored(p) /\ ~Rebuilding(p)
  BY <1>5 DEF Stored, Midway, Rebuilding
<1>7. ~Stored(p)' /\ ~Rebuilding(p)'
  BY <1>2 DEF Stored, Midway, Rebuilding, Shifts
<1> QED
  BY <1>1, <1>2, <1>3, <1>4, <1>5, <1>6, <1>7, KeepKept

\* Where the request is alone, and what is known of it there.
LEMMA WhenStored ==
  ASSUME KeepInv, AgreeInv, NEW p \in Handlers, up, Calm, Stored(p) \/ req[p].pc = "store"
  PROVE  /\ Kept /\ Agreement /\ WillSettle(p)
         /\ \A q \in Handlers \ {p} : ~Window(q)
<1>1. Kept /\ Agreement
  BY CalmIsClean DEF KeepInv, AgreeInv
<1> QED
  BY <1>1, StoredIsWindow DEF Kept, Agreement

LEMMA AsksOn ==
  ASSUME KeepInv, NEW p \in Handlers, NEW pc, Goes(p, pc), Same(p), req[p].pc # "migrated"
  PROVE  Asks(p)'
  BY DEF KeepInv, Asks, Goes, Same

LEMMA KeepLoad ==
  ASSUME TypeInv, OrderInv, AgreeInv, KeepInv, NEW p \in Handlers, Load(p), hashMatches(p)
  PROVE  KeepInv'
<1>0. req[p].pc = "load" /\ NoteOverlap(p) /\ UNCHANGED <<up, cfg, file, acked, silent>>
  BY DEF Load, serverVars
<1>1. /\ Goes(p, IF req[p].new = cfg THEN "write" ELSE "store")
      /\ Same(p) /\ Others(p)
  BY LoadGoes, GoesOn DEF TypeInv, Goes
<1>2. Asks(p)'
  BY <1>0, <1>1, AsksOn
<1>3. ~Stored(p) /\ ~Rebuilding(p) /\ ~Rebuilding(p)'
  BY <1>0, <1>1 DEF Goes, Stored, Midway, Rebuilding
<1>4. Stored(p)' => req'[p].new = cfg
  BY <1>1 DEF Goes, Same, Stored, Midway, Rebuilding
<1>5. ASSUME Calm', up, Kept PROVE WillSettle(p)
  <2>1. \A q \in Handlers \ {p} : ~Window(q)
    BY <1>0, <1>5, OverlapCalm DEF Overlaps
  <2>2. Settled(cfg)
    BY <1>3, <2>1, <1>5, StoredIsWindow DEF Kept
  <2>3. CASE req[p].op = "reload"
    BY <1>0, <1>5, <2>3 DEF Kept, Settled, WillSettle
  <2>4. CASE req[p].op # "reload"
    <3>1. req[p].op \in {"update", "rename", "drop"}
      <4>1. req[p].op \in Ops
        BY DEF TypeInv, ReqOK, RequestOK
      <4> QED
        BY <1>0, <2>4, <4>1 DEF OrderInv, Ordered, Ops
    <3>2. req[p].hash = cfg /\ req[p].hash # None
      BY <1>0, <3>1 DEF KeepInv, Asks, hashMatches
    <3> QED
      BY <2>2, <3>2 DEF Settled, WillSettle
  <2> QED
    BY <2>3, <2>4
<1>6. WillSettle(p) => WillSettle(p)'
  BY <1>0, <1>1 DEF Same, WillSettle
<1>7. req'[p].pc \notin {"validate", "load"}
  BY <1>1 DEF Goes
<1> QED
  BY <1>0, <1>1, <1>2, <1>3, <1>4, <1>5, <1>6, <1>7, OverlapCalm, KeepKept

LEMMA KeepStore ==
  ASSUME TypeInv, AgreeInv, KeepInv, NEW p \in Handlers, Store(p)
  PROVE  KeepInv'
<1>0. /\ req[p].pc = "store" /\ cfg' = req[p].new
      /\ UNCHANGED <<up, file, acked, silent, mishaps>>
  BY DEF Store, history
<1>1. Goes(p, "notify") /\ Same(p) /\ Others(p)
  BY <1>0, StepGoes, GoesOn DEF Store, TypeInv, Goes, Places
<1>2. Asks(p)'
  BY <1>0, <1>1, AsksOn
<1>3. CASE ~(up /\ Calm)
  BY <1>0, <1>1, <1>2, <1>3, AsksOthers DEF KeepInv, Calm, Without
<1>4. CASE up /\ Calm
  <2>1. Kept /\ WillSettle(p) /\ \A q \in Handlers \ {p} : ~Window(q)
    BY <1>0, <1>4, WhenStored
  <2>2. Stored(p)' /\ ~Rebuilding(p)' /\ ~Rebuilding(p)
    BY <1>0, <1>1 DEF Goes, Stored, Midway, Rebuilding
  <2>3. \A q \in Handlers : ~Rebuilding(q)
    BY <2>1, <2>2, StoredIsWindow DEF Stored
  <2>4. Settled(file)'
    BY <1>0, <2>1, <2>3 DEF Kept, Settled
  <2>5. WillSettle(p)' /\ req'[p].new = cfg'
    BY <1>0, <1>1, <2>1 DEF Same, WillSettle
  <2> QED
    BY <1>1, <1>2, <2>1, <2>2, <2>4, <2>5, KeepAlone DEF Goes
<1> QED
  BY <1>3, <1>4

LEMMA KeepWrite ==
  ASSUME TypeInv, OrderInv, AgreeInv, KeepInv, NEW p \in Handlers, Write(p)
  PROVE  KeepInv'
<1>0. /\ req[p].pc = "write" /\ file' = req[p].snap
      /\ UNCHANGED <<up, cfg, mishaps>> /\ up
  BY UpWhileBusy DEF Write
<1>1. \/ Ends(p) /\ Acknowledge(p) /\ ~Shifts(p)
      \/ /\ Goes(p, "rebuild") /\ Same(p) /\ Shifts(p)
         /\ UNCHANGED <<acked, silent>>
  BY EndEnds, StepGoes, GoesOn DEF Write, Succeed, Shifts, TypeInv, Places
<1>2. Others(p) /\ Asks(p)' /\ req'[p].pc \notin {"store", "validate", "load"}
  <2>1. CASE Ends(p)
    BY <2>1 DEF Ends, Idle, Asks
  <2>2. CASE Goes(p, "rebuild") /\ Same(p)
    BY <1>0, <2>2, AsksOn DEF Goes
  <2> QED
    BY <1>1, <2>1, <2>2
<1>3. CASE ~Calm
  BY <1>0, <1>2, <1>3, AsksOthers DEF KeepInv, Calm, Without
<1>4. CASE Calm
  <2>1. /\ Kept /\ Agreement /\ WillSettle(p)
        /\ \A q \in Handlers \ {p} : ~Window(q)
    BY <1>0, <1>4, WhenStored DEF Stored, Midway
  <2>2. req[p].new = cfg /\ file' = cfg
    BY <1>0, <2>1 DEF Kept, Agreement, Stored, Midway
  <2>3. CASE Ends(p) /\ Acknowledge(p)
    <3>1. \A i \in Items : cfg[i] = acked'[i] \/ i \in silent'
      BY <2>1, <2>2, <2>3, Acknowledged
    <3>2. Settled(cfg)' /\ Settled(file)'
      BY <1>0, <2>2, <3>1 DEF Settled
    <3>3. ~Stored(p)' /\ ~Rebuilding(p)'
      BY <2>3 DEF Ends, Idle, Stored, Midway, Rebuilding, Shifts
    <3> QED
      BY <1>2, <2>1, <3>2, <3>3, KeepAlone
  <2>4. CASE /\ Goes(p, "rebuild") /\ Same(p) /\ Shifts(p)
             /\ UNCHANGED <<acked, silent>>
    <3>1. Rebuilding(p)' /\ Stored(p)'
      BY <2>4 DEF Goes, Stored, Rebuilding, Shifts
    <3>2. req'[p].new = cfg' /\ WillSettle(p)' /\ file' = cfg'
      BY <1>0, <2>1, <2>2, <2>4 DEF Same, WillSettle
    <3> QED
      BY <1>2, <2>1, <3>1, <3>2, KeepAlone
  <2> QED
    BY <1>1, <2>3, <2>4
<1> QED
  BY <1>3, <1>4

LEMMA KeepUpdate ==
  ASSUME TypeInv, OrderInv, AgreeInv, KeepInv, NEW p \in Handlers, Update(p)
  PROVE  KeepInv'
<1>0. ReqOK
  BY DEF TypeInv
<1>1. CASE Validate(p)
  <2>1. CASE Step(p, "load") /\ UNCHANGED <<serverVars, clientVars, counters, history>>
    <3>0. req[p].pc = "validate" /\ UNCHANGED <<up, cfg, file, acked, silent, mishaps>>
      BY <1>1, <2>1 DEF Validate, serverVars, history
    <3>1. Goes(p, "load") /\ Same(p) /\ Others(p)
      BY <1>0, <2>1, StepGoes, GoesOn DEF Goes, Places
    <3>2. Asks(p)'
      BY <3>0, <3>1, AsksOn
    <3>3. ~Stored(p) /\ ~Stored(p)' /\ ~Rebuilding(p) /\ ~Rebuilding(p)'
      BY <3>0, <3>1 DEF Goes, Stored, Midway, Rebuilding
    <3>4. Kept => (req'[p].op = "reload" => Settled(req'[p].new))
      BY <3>0, <3>1 DEF Kept, Goes, Same
    <3>5. Calm' => Calm
      BY <3>0 DEF Calm, Without
    <3>6. req'[p].pc = "load"
      BY <3>1 DEF Goes
    <3> QED
      BY <3>0, <3>1, <3>2, <3>3, <3>4, <3>5, <3>6, KeepKept
  <2> QED
    BY <1>0, <1>1, <2>1, KeepFails DEF Validate
<1>2. CASE Load(p)
  <2>1. CASE ~hashMatches(p) /\ Fail(p)
    BY <1>0, <1>2, <2>1, KeepFails DEF Load
  <2> QED
    BY <1>2, <2>1, KeepLoad DEF Load
<1>3. CASE Notify(p)
  <2>0. req[p].pc = "notify" /\ UNCHANGED <<up, cfg, file, acked, silent, mishaps>>
    BY <1>3 DEF Notify, history
  <2>1. Goes(p, "write") /\ Same(p) /\ Others(p)
    BY <1>0, <1>3, NotifyGoes, GoesOn DEF Goes
  <2>2. Asks(p)'
    BY <2>0, <2>1, AsksOn
  <2>3. Stored(p) /\ Stored(p)' /\ ~Rebuilding(p) /\ ~Rebuilding(p)' /\ req'[p].pc = "write"
    BY <2>0, <2>1 DEF Goes, Stored, Midway, Rebuilding
  <2>4. Kept => req'[p].new = cfg /\ WillSettle(p)'
    BY <2>0, <2>1, <2>3 DEF Kept, Same, WillSettle
  <2>5. Calm' => Calm
    BY <2>0 DEF Calm, Without
  <2> QED
    BY <2>0, <2>1, <2>2, <2>3, <2>4, <2>5, KeepKept
<1>4. CASE WriteFails(p)
  BY <1>0, <1>4, KeepFails DEF WriteFails
<1> QED
  BY <1>1, <1>2, <1>3, <1>4, KeepStore, KeepWrite DEF Update

\* Whoever shifted tables is acknowledged when the schemas are installed.
LEMMA KeepInstall ==
  ASSUME TypeInv, OrderInv, AgreeInv, KeepInv, NEW p \in Handlers, Install(p)
  PROVE  KeepInv'
<1>0. /\ req[p].pc = "install" /\ UNCHANGED <<up, cfg, file>> /\ up
      /\ mishaps \subseteq mishaps'
  BY UpWhileBusy DEF Install
<1>1. Calm' => Calm
  BY <1>0 DEF Calm, Without
<1>2. CASE req[p].op = "reload" /\ Step(p, "read") /\ UNCHANGED <<acked, silent, clientVars>>
  <2>1. Goes(p, "read") /\ Same(p) /\ Others(p)
    BY <1>2, StepGoes, GoesOn DEF Goes, TypeInv, Places
  <2>2. Asks(p)'
    BY <1>0, <2>1, AsksOn
  <2>3. ~Stored(p) /\ ~Stored(p)' /\ ~Rebuilding(p) /\ ~Rebuilding(p)' /\ req'[p].pc = "read"
    BY <1>0, <1>2, <2>1 DEF Goes, Stored, Midway, Rebuilding, Shifts
  <2> QED
    BY <1>0, <1>1, <1>2, <2>1, <2>2, <2>3, KeepKept
<1>3. CASE End(p)
  <2>1. Ends(p) /\ Others(p)
    BY <1>3, EndEnds DEF TypeInv, Ends
  <2>2. req'[p].pc = "idle" /\ req'[p].op = "none" /\ ~Stored(p)' /\ ~Rebuilding(p)'
    BY <2>1 DEF Ends, Idle, Stored, Midway, Rebuilding, Shifts
  <2>3. Asks(p)'
    BY <2>2 DEF Asks
  <2>4. CASE ~Calm'
    BY <2>1, <2>3, <2>4, AsksOthers DEF KeepInv
  <2>5. CASE Calm'
    <3>1. req[p].op # "reload"
      BY <1>0, <2>2, <1>3, StepGoes DEF Install, TypeInv, Goes, Succeed, Ends, Idle
    <3>2. Acknowledge(p)
      BY <2>5, <3>1 DEF Install, Succeed, Calm, Without
    <3>3. CASE Shifts(p)
      <4>1. Stored(p) /\ Rebuilding(p)
        BY <1>0, <3>3 DEF Stored, Rebuilding
      <4>2. Kept /\ WillSettle(p) /\ \A q \in Handlers \ {p} : ~Window(q)
        BY <1>0, <1>1, <2>5, <4>1, WhenStored
      <4>3. req[p].new = cfg /\ file = cfg
        BY <4>1, <4>2 DEF Kept
      <4>4. \A i \in Items : cfg[i] = acked'[i] \/ i \in silent'
        BY <3>2, <4>2, <4>3, Acknowledged
      <4>5. Settled(cfg)' /\ Settled(file)'
        BY <1>0, <4>3, <4>4 DEF Settled
      <4> QED
        BY <2>1, <2>2, <2>3, <4>2, <4>5, KeepAlone
    <3>4. CASE ~Shifts(p)
      <4>1. req[p].op = "create"
        <5>1. req[p].op \in Ops
          BY DEF TypeInv, ReqOK, RequestOK
        <5> QED
          BY <1>0, <3>1, <3>4, <5>1 DEF OrderInv, Ordered, Shifts, Ops
      <4>2. DOMAIN req[p].want = {} /\ req[p].hash = None
        BY <4>1 DEF KeepInv, Asks
      <4>3. UNCHANGED <<acked, silent>>
        BY <3>2, <4>2, NothingAcknowledged
      <4>4. ~Stored(p) /\ ~Rebuilding(p)
        BY <1>0, <3>4 DEF Stored, Midway, Rebuilding
      <4> QED
        BY <1>0, <1>1, <2>1, <2>2, <2>3, <4>3, <4>4, KeepKept
    <3> QED
      BY <3>3, <3>4
  <2> QED
    BY <2>4, <2>5
<1> QED
  BY <1>2, <1>3 DEF Install, Succeed

LEMMA KeepRead ==
  ASSUME TypeInv, KeepInv, NEW p \in Handlers, ReadSchema(p)
  PROVE  KeepInv'
<1>0. req[p].pc = "rebuild" /\ UNCHANGED <<up, cfg, file, acked, silent, mishaps>>
  BY DEF ReadSchema, serverVars, history
<1>1. Goes(p, "install") /\ Same(p) /\ Others(p)
  BY ReadGoes, GoesOn DEF Goes, TypeInv
<1>2. Asks(p)'
  BY <1>0, <1>1, AsksOn
<1>3. (Stored(p) <=> Stored(p)') /\ (Rebuilding(p) <=> Rebuilding(p)') /\ req'[p].pc = "install"
  BY <1>0, <1>1 DEF Goes, Stored, Midway, Rebuilding, Shifts
<1>4. Kept /\ Stored(p) => req'[p].new = cfg /\ WillSettle(p)'
  BY <1>0, <1>1 DEF Kept, Same, WillSettle
<1>5. Calm' => Calm
  BY <1>0 DEF Calm, Without
<1> QED
  BY <1>0, <1>1, <1>2, <1>3, <1>4, <1>5, KeepKept

\* Requests begin where nothing is stored yet.
LEMMA KeepStarts ==
  ASSUME KeepInv, OrderInv, NEW p \in Handlers, NEW op, NEW pc, Starts(p, op, pc), Asks(p)',
         UNCHANGED <<up, cfg, file, acked, silent, mishaps>>,
         \/ op = "update" /\ pc = "validate"
         \/ op = "reload" /\ pc = "rebuild"
         \/ op # "reload" /\ pc = "migrated"
  PROVE  KeepInv'
<1>1. /\ Others(p) /\ ~Stored(p) /\ ~Rebuilding(p) /\ ~Stored(p)' /\ ~Rebuilding(p)'
      /\ req'[p].pc # "store"
      /\ ~(req'[p].op = "reload" /\ req'[p].pc \in {"validate", "load"})
  BY DEF Starts, Stored, Midway, Rebuilding, Shifts
<1>2. Calm' => Calm
  BY DEF Calm, Without
<1> QED
  BY <1>1, <1>2, KeepKept

LEMMA KeepCrash ==
  ASSUME OrderInv, KeepInv, Crash
  PROVE  KeepInv'
<1>1. \A p \in Handlers : req'[p].pc = "idle" /\ req'[p].op = "none"
  BY DEF Crash, Idle
<1>2. (\A p \in Handlers : Asks(p))'
  BY <1>1 DEF Asks
<1> SUFFICES ASSUME up', Calm' PROVE Kept'
  BY <1>2 DEF KeepInv
<1>3. Calm /\ up
  BY DEF Crash, Calm, Without
<1>4. \A p \in Admins : ~Shifts(p)
  BY DEF Crash, Calm, Without, Shifts
<1>5. ~Shifts(Hup)
  BY DEF OrderInv, Ordered, Handlers, Shifts
<1>6. \A p \in Handlers : ~Rebuilding(p)
  BY <1>4, <1>5 DEF Handlers, Rebuilding
<1>7. Settled(file)
  BY <1>3, <1>6 DEF KeepInv, Kept
<1>8. file' = file /\ cfg' = file /\ UNCHANGED <<acked, silent>>
  BY DEF Crash, loads
<1>9. Settled(cfg)' /\ Settled(file)'
  BY <1>7, <1>8 DEF Settled
<1>10. \A p \in Handlers : ~Stored(p)' /\ ~Rebuilding(p)'
  BY <1>1 DEF Stored, Midway, Rebuilding, Shifts
<1> QED
  BY <1>1, <1>9, <1>10 DEF Kept

LEMMA KeepReload ==
  ASSUME TypeInv, OrderInv, KeepInv, Reload
  PROVE  KeepInv'
<1>0. /\ req[Hup].pc = "read" /\ Hup \in Handlers /\ NoteOverlap(Hup)
      /\ UNCHANGED <<up, cfg, file, acked, silent>>
  BY DEF Reload, Handlers, serverVars
<1>1. req[Hup].op = "reload" /\ ~Shifts(Hup)
  BY <1>0 DEF OrderInv, Ordered, Shifts
<1>2. \/ Goes(Hup, "validate") /\ req'[Hup].new = file
      \/ Ends(Hup)
  BY ReloadGoes DEF TypeInv
<1>3. /\ Others(Hup) /\ Asks(Hup)' /\ ~Stored(Hup) /\ ~Stored(Hup)' /\ ~Rebuilding(Hup)
      /\ ~Rebuilding(Hup)' /\ req'[Hup].pc # "store"
  BY <1>0, <1>1, <1>2 DEF Goes, Ends, Idle, Asks, Stored, Midway, Rebuilding, Shifts
<1>4. ASSUME Calm', Kept PROVE Settled(file)
  <2>1. \A q \in Handlers \ {Hup} : ~Window(q)
    BY <1>0, <1>4, OverlapCalm DEF Overlaps
  <2>2. \A q \in Handlers : ~Rebuilding(q)
    BY <1>3, <2>1, StoredIsWindow DEF Stored
  <2> QED
    BY <1>4, <2>2 DEF Kept
<1>5. ASSUME Calm', Kept, req'[Hup].op = "reload", req'[Hup].pc \in {"validate", "load"}
      PROVE  Settled(req'[Hup].new)
  <2>1. req'[Hup].new = file
    BY <1>2, <1>5 DEF Ends, Idle
  <2> QED
    BY <1>4, <1>5, <2>1
<1> QED
  BY <1>0, <1>3, <1>5, OverlapCalm, KeepKept

LEMMA KeepStep ==
  ASSUME TypeInv, OrderInv, AgreeInv, KeepInv, [Next]_vars
  PROVE  KeepInv'
<1>0. ReqOK
  BY DEF TypeInv
<1>1. ASSUME NEW p \in Handlers, Update(p) \/ Rebuild(p) PROVE KeepInv'
  BY <1>1, KeepUpdate, KeepInstall, KeepRead DEF Rebuild
<1>2. ASSUME NEW a \in Admins, Migrated(a) PROVE KeepInv'
  <2>0. /\ a \in Handlers /\ req[a].pc = "migrated"
        /\ UNCHANGED <<up, cfg, file, acked, silent>>
    BY <1>2 DEF Handlers, Migrated, serverVars
  <2>1. CASE req[a].op = "create" /\ Goes(a, "rebuild") /\ UNCHANGED mishaps
    <3>1. Same(a)
      BY <1>0, <1>2, <2>0, <2>1, GoesOn DEF Migrated, Places
    <3>2. /\ Others(a) /\ Asks(a)' /\ ~Stored(a) /\ ~Stored(a)' /\ ~Rebuilding(a)
          /\ ~Rebuilding(a)' /\ req'[a].pc = "rebuild" /\ (Calm' => Calm)
      BY <2>0, <2>1, <3>1
      DEF Goes, Same, KeepInv, Asks, Stored, Midway, Rebuilding, Shifts, Calm, Without
    <3> QED
      BY <2>0, <3>2, KeepKept
  <2>2. CASE req[a].op # "create" /\ Goes(a, "validate") /\ NoteOverlap(a)
    <3>1. req'[a].hash # None
      BY <1>0, <1>2, <2>2, MigratedAsks, NoneIsNot DEF TypeInv, ServerOK
    <3>2. /\ Others(a) /\ Asks(a)' /\ ~Stored(a) /\ ~Stored(a)' /\ ~Rebuilding(a)
          /\ ~Rebuilding(a)' /\ req'[a].pc = "validate" /\ (Calm' => Calm)
          /\ req'[a].op # "reload"
      BY <2>0, <2>2, <3>1, OverlapCalm
      DEF Goes, OrderInv, Ordered, Asks, Stored, Midway, Rebuilding
    <3> QED
      BY <2>0, <3>2, KeepKept
  <2> QED
    BY <1>0, <1>2, <2>1, <2>2, MigratedGoes
<1>3. ASSUME NEW a \in Admins, Cancel(a) PROVE KeepInv'
  <2>1. a \in Handlers /\ Ends(a) /\ ~Calm'
    BY <1>0, <1>3, EndEnds DEF Handlers, Cancel, Calm, Without
  <2>2. Others(a) /\ Asks(a)'
    BY <2>1 DEF Ends, Idle, Asks
  <2> QED
    BY <2>1, <2>2, AsksOthers DEF KeepInv
<1>4. ASSUME UNCHANGED <<up, cfg, file, acked, silent, mishaps, req>> PROVE KeepInv'
  BY <1>4 DEF KeepInv, Kept, Asks, Settled, Stored, Midway, Rebuilding, Shifts, WillSettle, Calm,
              Without
<1>5. ASSUME NEW a \in Admins, Settings(a) PROVE KeepInv'
  <2>1. a \in Handlers /\ UNCHANGED <<up, cfg, file, mishaps>>
    BY <1>5, SettingsEffect, SMTT(40) DEF Handlers, serverVars
  <2>2. UNCHANGED <<acked, silent>>
    BY <1>5 DEF Settings, Edit, Discard, Submit, linkDb, SelectDb, unlinkSelectedDbs, setConfig,
       updateRecordApiConfig, removeRecordApiConfig, history
  <2>3. CASE Starts(a, "update", "validate")
    <3>1. Asks(a)'
      BY <1>5, <2>3, SettingsAsk DEF Starts, Asks
    <3> QED
      BY <2>1, <2>2, <2>3, <3>1, KeepStarts
  <2> QED
    BY <1>4, <1>5, <2>1, <2>2, <2>3, SettingsEffect
<1>6. ASSUME NEW a \in Admins, getConfig(a) PROVE KeepInv'
  BY <1>4, <1>6 DEF getConfig, serverVars, history
<1>7. ASSUME NEW a \in Admins, Schema(a) PROVE KeepInv'
  <2>1. PICK op \in {"create", "rename", "drop"}, from \in Tables \cup {None},
             to \in Tables \cup {None} : apply_as_migration(a, op, from, to)
    BY <1>7 DEF Schema, createTable, dropTable, renameTable
  <2>2. Starts(a, op, "migrated") /\ a \in Handlers
    BY <1>0, <2>1, MigrationStarts DEF Handlers
  <2>3. Asks(a)'
    BY <1>0, <2>1, <2>2, MigrationAsks DEF Starts, Asks
  <2>4. UNCHANGED <<up, cfg, file, acked, silent, mishaps>>
    BY <2>1 DEF apply_as_migration, history
  <2> QED
    BY <2>2, <2>3, <2>4, KeepStarts
<1>8. CASE Hangup
  <2>1. Starts(Hup, "reload", "rebuild") /\ Hup \in Handlers
    BY <1>0, <1>8, HangupStarts DEF Handlers
  <2>2. Asks(Hup)'
    BY <2>1 DEF Starts, Asks
  <2>3. UNCHANGED <<up, cfg, file, acked, silent, mishaps>>
    BY <1>8 DEF Hangup, serverVars, history
  <2> QED
    BY <2>1, <2>2, <2>3, KeepStarts
<1>9. CASE Reload \/ Crash
  BY <1>9, KeepReload, KeepCrash
<1>10. CASE UNCHANGED vars
  BY <1>4, <1>10 DEF vars, serverVars, history
<1> QED
  BY <1>1, <1>2, <1>3, <1>5, <1>6, <1>7, <1>8, <1>9, <1>10 DEF Next, Handle

\* An edit an admin was told was saved is there when nothing is under way,
\* after a restart too, unless updates overlapped, one could not write its
\* file or a schema change failed halfway, or the item was changed silently
\* (validate_and_update_config, rename_table_handler, lib/api/config.ts).
THEOREM EditsAreKept == Spec => []EditsKept
<1> DEFINE IInv == TypeInv /\ OrderInv /\ AgreeInv /\ KeepInv
<1>1. Init => IInv
  <2> SUFFICES ASSUME Init PROVE IInv
    OBVIOUS
  <2>1. \A p \in Handlers : req[p].pc = "idle" /\ req[p].op = "none"
    BY DEF Init, Idle
  <2>2. AgreeInv
    BY <2>1 DEF Init, AgreeInv, Agreement, Window, Midway
  <2>3. OrderInv
    BY DEF Init, OrderInv, Ordered, Idle
  <2>4. Settled(cfg) /\ Settled(file)
    BY DEF Init, Settled
  <2>5. KeepInv
    BY <2>1, <2>4 DEF KeepInv, Kept, Asks, Stored, Midway, Rebuilding, Shifts
  <2> QED
    BY <2>2, <2>3, <2>5, TypeInit
<1>2. IInv /\ [Next]_vars => IInv'
  BY TypeStep, OrderStep, AgreeStep, KeepStep
<1>3. IInv => EditsKept
  BY DEF KeepInv, Kept, Settled, Stored, Midway, Rebuilding, EditsKept, Quiet, Calm
<1> QED
  BY <1>1, <1>2, <1>3, PTL DEF Spec
=============================================================================
