-------------------------- MODULE ParamReportProofs --------------------------
(***************************************************************************)
(* Parameters and their reports, for any parameters, values and tasks, and *)
(* any number of calls, failures and restarts.                             *)
(***************************************************************************)
EXTENDS ParamReport, TLAPS

-----------------------------------------------------------------------------
(* What holds however the tasks interleave: a call is about a parameter     *)
(* while it stores or checks and has a report to make from there on, and a  *)
(* value of a persistent parameter is in NVS or about to be stored.         *)
Asked ==
    \A t \in Task :
        /\ call[t].at \in {"store", "check"} => call[t].param \in Param
        /\ call[t].at = "store" /\ call[t].checked => call[t].report \in Report
        /\ call[t].at \in {"check", "collect", "clear", "address", "publish"}
             => call[t].report \in Report

Kept ==
    \A p \in Persist :
        \/ stored[p] = val[p]
        \/ \E t \in Task : call[t].at = "store" /\ call[t].param = p

(* NVS has a value of every persistent parameter.                           *)
InNvs == \A p \in Persist : stored[p] # NoValue

IInv == TypeOK /\ Asked /\ Kept /\ InNvs

LEMMA CallType ==
  ASSUME TypeOK, NEW t \in Task
  PROVE  /\ call[t] \in Call /\ call[t].at \in Place
         /\ call[t].report \in Report \cup {"none"}
         /\ call[t].param \in Param \cup {NoParam}
BY DEF TypeOK, Call

LEMMA IdleType == Idle \in Call /\ Idle.at = "idle" /\ Idle.report = "none"
BY DEF Idle, Call, Place

(* A task that goes on in its call.                                         *)
LEMMA Moves ==
  ASSUME TypeOK, NEW t \in Task, NEW place \in Place \ {"idle"}
  PROVE  LET c == [call[t] EXCEPT !.at = place]
         IN  /\ c \in Call /\ c.at = place /\ c.report = call[t].report
             /\ c.param = call[t].param
BY CallType DEF Call

LEMMA Reports ==
  ASSUME NEW report \in Report \cup {"none"}
  PROVE  LET c == [Idle EXCEPT !.at = "collect", !.report = report]
         IN  c \in Call /\ c.at = "collect" /\ c.report = report
BY DEF Idle, Call, Place

(* The call of one task changes, and what it is then.                       *)
Became(t, c) == call' = [call EXCEPT ![t] = c]

LEMMA BecameIs ==
  ASSUME TypeOK, NEW t \in Task, NEW c \in Call, Became(t, c)
  PROVE  /\ call' \in [Task -> Call] /\ call'[t] = c
         /\ \A u \in Task : u # t => call'[u] = call[u]
BY DEF TypeOK, Became

LEMMA AskedBecomes ==
  ASSUME TypeOK, Asked, NEW t \in Task, NEW c \in Call, Became(t, c),
         c.at \in {"store", "check"} => c.param \in Param,
         c.at = "store" /\ c.checked => c.report \in Report,
         c.at \in {"check", "collect", "clear", "address", "publish"}
             => c.report \in Report
  PROVE  Asked'
BY BecameIs DEF Asked

(* A persistent parameter whose value no step stores or changes.            *)
LEMMA KeptBecomes ==
  ASSUME TypeOK, Kept, NEW t \in Task, NEW c \in Call, Became(t, c),
         UNCHANGED <<val, stored>>, call[t].at # "store"
  PROVE  Kept'
<1>1. ASSUME NEW p \in Persist
      PROVE  \/ stored'[p] = val'[p]
             \/ \E u \in Task : call'[u].at = "store" /\ call'[u].param = p
  BY BecameIs DEF Kept
<1> QED
  BY <1>1 DEF Kept

(* What follows a report in the same call.                                  *)
AfterReport(c) == CASE c.report = "notify" -> [c EXCEPT !.at = "collect", !.report = "change"]
              [] c.report = "all"    -> [c EXCEPT !.at = "finish"]
              [] OTHER               -> Idle

LEMMA NextReportIs ==
  ASSUME TypeOK, NEW t \in Task, NextReport(t)
  PROVE  /\ Became(t, AfterReport(call[t])) /\ AfterReport(call[t]) \in Call
         /\ call[t].report = "notify" =>
              AfterReport(call[t]).at = "collect" /\ AfterReport(call[t]).report = "change"
         /\ call[t].report = "all" =>
              AfterReport(call[t]).at = "finish" /\ AfterReport(call[t]).report = "all"
         /\ call[t].report \notin {"notify", "all"} => AfterReport(call[t]) = Idle
         /\ AfterReport(call[t]).at \in {"collect", "finish", "idle"}
<1>1. call[t] \in Call
  BY CallType
<1>2. Became(t, AfterReport(call[t]))
  BY <1>1 DEF NextReport, Became, AfterReport, TypeOK
<1>3. CASE call[t].report = "notify"
  BY <1>1, <1>2, <1>3 DEF AfterReport, Call, Place, Report
<1>4. CASE call[t].report = "all"
  BY <1>1, <1>2, <1>4 DEF AfterReport, Call, Place, Report
<1>5. CASE call[t].report \notin {"notify", "all"}
  BY <1>1, <1>2, <1>5, IdleType DEF AfterReport
<1> QED
  BY <1>3, <1>4, <1>5

-----------------------------------------------------------------------------
(* The steps.                                                               *)
LEMMA UpdateKeeps ==
  ASSUME IInv, NEW t \in Task, NEW p \in Param, NEW v \in Value,
         NEW report \in Report \cup {"none"}, NEW checked \in BOOLEAN,
         checked => report \in Report, Update(t, p, v, report, checked)
  PROVE  IInv'
<1> DEFINE c == [at |-> "store", report |-> report, checked |-> checked, param |-> p]
<1>1. /\ c \in Call /\ c.at = "store" /\ c.param = p /\ c.report = report
      /\ c.checked = checked
  BY DEF Call, Place
<1>2. Became(t, c) /\ TypeOK /\ Asked /\ Kept /\ call[t].at = "idle"
      /\ val' = [val EXCEPT ![p] = v] /\ change' = change \cup {p}
      /\ UNCHANGED <<notify, stored, ready, state, buf, topic, cloud, alerts, raised, lost,
                     failures, restarts>>
  BY DEF Update, Became, IInv, May, shared, remote
<1>3. calls' \in 0 .. MaxCalls
  BY <1>2, ParamAssumption DEF Update, TypeOK
<1> HIDE DEF c
<1>4. /\ call' \in [Task -> Call] /\ call'[t] = c
      /\ \A u \in Task : u # t => call'[u] = call[u]
  BY <1>1, <1>2, BecameIs
<1>5. TypeOK'
  BY <1>2, <1>3, <1>4 DEF TypeOK
<1>6. Asked'
  BY <1>1, <1>2, AskedBecomes
<1>7. ASSUME NEW q \in Persist
      PROVE  \/ stored'[q] = val'[q]
             \/ \E u \in Task : call'[u].at = "store" /\ call'[u].param = q
  <2>1. CASE q = p
    BY <1>1, <1>4, <2>1
  <2>2. CASE q # p
    <3>1. val'[q] = val[q] /\ stored'[q] = stored[q]
      BY <1>2, <2>2, ParamAssumption DEF TypeOK
    <3>2. CASE stored[q] = val[q]
      BY <3>1, <3>2
    <3>3. CASE stored[q] # val[q]
      <4>1. PICK u \in Task : call[u].at = "store" /\ call[u].param = q
        BY <1>2, <3>3 DEF Kept
      <4>2. u # t
        BY <1>2, <4>1
      <4> QED
        BY <1>4, <4>1, <4>2
    <3> QED
      BY <3>2, <3>3
  <2> QED
    BY <2>1, <2>2
<1>8. Kept'
  BY <1>7 DEF Kept
<1> QED
  BY <1>2, <1>5, <1>6, <1>8 DEF IInv, InNvs

LEMMA AfterStoreIs ==
  ASSUME TypeOK, Asked, NEW t \in Task, call[t].at = "store", AfterStore(t)
  PROVE  \E c \in Call :
            /\ Became(t, c) /\ c.at \in {"idle", "check", "collect"}
            /\ c.at = "idle" => c = Idle
            /\ c.at # "idle" => c.report = call[t].report /\ c.report \in Report
            /\ c.at = "check" => c.param = call[t].param
<1>1. CASE call[t].report = "none"
  <2>0. ~call[t].checked
    BY <1>1 DEF Asked, Report
  <2>1. Goto(t, "idle")
    BY <1>1, <2>0 DEF AfterStore
  <2>2. Became(t, Idle)
    BY <2>1 DEF Goto, Became
  <2> DEFINE c == Idle
  <2>3. c \in Call /\ c.at = "idle" /\ c = Idle /\ Became(t, c)
    BY <2>2, IdleType
  <2> HIDE DEF c
  <2> QED
    BY <2>3
<1>2. CASE call[t].report # "none" /\ call[t].checked
  <2> DEFINE c == [call[t] EXCEPT !.at = "check"]
  <2>1. /\ c \in Call /\ c.at = "check" /\ c.report = call[t].report
        /\ c.param = call[t].param
    BY Moves DEF Place
  <2>2. Became(t, c)
    BY <1>2 DEF AfterStore, Goto, Became
  <2>3. call[t].report \in Report
    BY <1>2, CallType
  <2> HIDE DEF c
  <2> QED
    BY <2>1, <2>2, <2>3
<1>3. CASE call[t].report # "none" /\ ~call[t].checked
  <2> DEFINE c == [Idle EXCEPT !.at = "collect", !.report = call[t].report]
  <2>1. c \in Call /\ c.at = "collect" /\ c.report = call[t].report
    BY CallType, Reports
  <2>2. Became(t, c)
    BY <1>3 DEF AfterStore, StartReport, Became
  <2>3. call[t].report \in Report
    BY <1>3, CallType
  <2> HIDE DEF c
  <2> QED
    BY <2>1, <2>2, <2>3
<1> QED
  BY <1>1, <1>2, <1>3

LEMMA StoreKeeps ==
  ASSUME IInv, NEW t \in Task, Store(t)
  PROVE  IInv'
<1>1. /\ TypeOK /\ Asked /\ Kept /\ call[t].at = "store" /\ AfterStore(t)
      /\ call[t].param \in Param
      /\ UNCHANGED <<val, change, notify, ready, state, buf, topic, cloud, alerts, raised,
                     lost, calls, failures, restarts>>
  BY DEF IInv, Store, Asked, shared, remote, bounds
<1>2. PICK c \in Call :
            /\ Became(t, c) /\ c.at \in {"idle", "check", "collect"}
            /\ c.at # "idle" => c.report = call[t].report /\ c.report \in Report
            /\ c.at = "check" => c.param = call[t].param
  BY <1>1, AfterStoreIs
<1>3. /\ call' \in [Task -> Call] /\ call'[t] = c
      /\ \A u \in Task : u # t => call'[u] = call[u]
  BY <1>1, <1>2, BecameIs
<1>4. /\ stored' \in [Param -> Value \cup {NoValue}]
      /\ \A q \in Persist : stored'[q] = IF q = call[t].param THEN val[q] ELSE stored[q]
  BY <1>1, ParamAssumption DEF Store, TypeOK
<1>5. TypeOK'
  BY <1>1, <1>3, <1>4 DEF TypeOK
<1>6. Asked'
  BY <1>1, <1>2, AskedBecomes
<1>7. ASSUME NEW q \in Persist
      PROVE  \/ stored'[q] = val'[q]
             \/ \E u \in Task : call'[u].at = "store" /\ call'[u].param = q
  <2>1. CASE q = call[t].param
    BY <1>1, <1>4, <2>1
  <2>2. CASE q # call[t].param
    <3>1. CASE stored[q] = val[q]
      BY <1>1, <1>4, <2>2, <3>1
    <3>2. CASE stored[q] # val[q]
      <4>1. PICK u \in Task : call[u].at = "store" /\ call[u].param = q
        BY <1>1, <3>2 DEF Kept
      <4>2. u # t
        BY <2>2, <4>1
      <4> QED
        BY <1>3, <4>1, <4>2
    <3> QED
      BY <3>1, <3>2
  <2> QED
    BY <2>1, <2>2
<1>8. Kept'
  BY <1>7 DEF Kept
<1>9. InNvs'
  <2>1. val[call[t].param] # NoValue
    BY <1>1, ParamAssumption DEF TypeOK
  <2> QED
    BY <1>4, <2>1 DEF InNvs, IInv
<1> QED
  BY <1>5, <1>6, <1>8, <1>9 DEF IInv

(* A step of one task's call that neither changes a value nor stores one.   *)
LEMMA CallKeeps ==
  ASSUME IInv, NEW t \in Task, NEW c \in Call, Became(t, c), call[t].at # "store",
         c.at # "store", c.at = "check" => c.param \in Param,
         c.at \in {"check", "collect", "clear", "address", "publish"} => c.report \in Report,
         UNCHANGED <<val, stored, restarts>>,
         change' \subseteq Param, notify' \subseteq Param, lost' \subseteq Param,
         ready' \in BOOLEAN, state' \in {"starting", "started", "aborted"},
         buf' \subseteq (Param \X Value), topic' \in Report,
         cloud' \in [Param -> Value \cup {NoValue}],
         alerts' \subseteq (Param \X Value), raised' \subseteq (Param \X Value),
         calls' \in 0 .. MaxCalls, failures' \in 0 .. MaxFailures
  PROVE  IInv'
<1>1. TypeOK /\ Asked /\ Kept
  BY DEF IInv
<1>2. call' \in [Task -> Call]
  BY <1>1, BecameIs
<1>3. TypeOK'
  BY <1>1, <1>2 DEF TypeOK
<1>4. Asked'
  BY <1>1, AskedBecomes
<1>5. Kept'
  BY <1>1, KeptBecomes
<1> QED
  BY <1>3, <1>4, <1>5 DEF IInv, InNvs

LEMMA CheckKeeps ==
  ASSUME IInv, NEW t \in Task, Check(t)
  PROVE  IInv'
<1>1. /\ TypeOK /\ Asked /\ call[t].at = "check"
      /\ call[t].param \in Param /\ call[t].report \in Report
      /\ UNCHANGED <<val, stored, ready, state, buf, topic, cloud, alerts, lost,
                     calls, failures, restarts>>
  BY DEF IInv, Check, Asked, shared, bounds
<1>2. PICK c \in Call : /\ Became(t, c) /\ c.at \in {"idle", "collect"}
                        /\ c.at = "collect" => c.report \in Report
  <2>1. CASE state = "started"
    <3> DEFINE c == [Idle EXCEPT !.at = "collect", !.report = call[t].report]
    <3>1. c \in Call /\ c.at = "collect" /\ c.report = call[t].report /\ Became(t, c)
      BY <1>1, <2>1, Reports DEF Check, StartReport, Became
    <3> HIDE DEF c
    <3> QED
      BY <1>1, <3>1
  <2>2. CASE state # "started"
    BY <2>2, IdleType DEF Check, Goto, Became
  <2> QED
    BY <2>1, <2>2
<1>3. /\ notify' \subseteq Param /\ change' \subseteq Param
      /\ raised' \subseteq (Param \X Value)
  BY <1>1 DEF Check, Raise, TypeOK
<1> QED
  BY <1>1, <1>2, <1>3, CallKeeps DEF TypeOK

LEMMA NotifyKeeps ==
  ASSUME IInv, NEW t \in Task, NEW p \in Param, Notify(t, p) \/ ReportUpdated(t)
  PROVE  IInv'
<1>1. /\ TypeOK /\ Asked /\ call[t].at = "idle"
      /\ UNCHANGED <<val, stored, ready, state, buf, topic, cloud, alerts, lost,
                     failures, restarts>>
  BY DEF IInv, Notify, ReportUpdated, May, params, shared, remote
<1>2. PICK c \in Call : Became(t, c) /\ c.at = "collect" /\ c.report \in Report
  <2>1. ASSUME NEW r \in Report, StartReport(t, r)
        PROVE  \E c \in Call : Became(t, c) /\ c.at = "collect" /\ c.report \in Report
    <3> DEFINE c == [Idle EXCEPT !.at = "collect", !.report = r]
    <3>1. c \in Call /\ c.at = "collect" /\ c.report = r /\ Became(t, c)
      BY <2>1, Reports DEF StartReport, Became
    <3> HIDE DEF c
    <3> QED
      BY <3>1
  <2> QED
    BY <2>1 DEF Notify, ReportUpdated, Report
<1>3. /\ notify' \subseteq Param /\ change' \subseteq Param
      /\ raised' \subseteq (Param \X Value)
  BY <1>1 DEF Notify, ReportUpdated, Raise, TypeOK, params, remote
<1>4. calls' \in 0 .. MaxCalls
  BY <1>1, ParamAssumption DEF Notify, ReportUpdated, TypeOK
<1> QED
  BY <1>1, <1>2, <1>3, <1>4, CallKeeps DEF TypeOK
LEMMA CollectKeeps ==
  ASSUME IInv, NEW t \in Task, Collect(t)
  PROVE  IInv'
<1> DEFINE place == IF call[t].report = "all" THEN "address" ELSE "clear"
           c == [call[t] EXCEPT !.at = place]
<1>1. /\ TypeOK /\ call[t].at = "collect" /\ call[t].report \in Report
      /\ UNCHANGED <<val, change, notify, stored, ready, state, topic, cloud, alerts, raised,
                     lost, calls, failures, restarts>>
  BY DEF IInv, Collect, Asked, params, remote, bounds
<1>2. place \in Place \ {"idle"} /\ place \in {"clear", "address"}
  BY DEF Place
<1>3. Became(t, c)
  BY <1>2 DEF Collect, Goto, Became
<1> HIDE DEF place
<1>4. c \in Call /\ c.at = place /\ c.report = call[t].report
  BY <1>1, <1>2, Moves
<1>5. buf' \subseteq (Param \X Value)
  <2>1. Flagged(call[t].report) \subseteq Param /\ val \in [Param -> Value]
    BY <1>1 DEF Flagged, TypeOK
  <2> QED
    BY <2>1 DEF Collect
<1> HIDE DEF c
<1>6. c.at # "store" /\ c.at # "check" /\ c.report \in Report
  BY <1>1, <1>2, <1>4
<1> QED
  BY <1>1, <1>3, <1>4, <1>5, <1>6, CallKeeps DEF TypeOK

LEMMA ClearKeeps ==
  ASSUME IInv, NEW t \in Task, Clear(t)
  PROVE  IInv'
<1> DEFINE c == [call[t] EXCEPT !.at = "address"]
<1>1. /\ TypeOK /\ call[t].at = "clear" /\ call[t].report \in Report
      /\ UNCHANGED <<val, stored, ready, state, buf, topic, cloud, alerts, raised,
                     lost, calls, failures, restarts>>
  BY DEF IInv, Clear, Asked, shared, remote, bounds
<1>2. Became(t, c)
  BY DEF Clear, Goto, Became
<1>3. c \in Call /\ c.at = "address" /\ c.report = call[t].report
  BY <1>1, Moves DEF Place
<1>4. change' \subseteq Param /\ notify' \subseteq Param
  BY <1>1 DEF Clear, TypeOK
<1> HIDE DEF c
<1>5. c.at # "store" /\ c.at # "check" /\ c.report \in Report
  BY <1>1, <1>3
<1> QED
  BY <1>1, <1>2, <1>3, <1>4, <1>5, CallKeeps DEF TypeOK

(* A report that ends: what the call is then has what CallKeeps asks for.   *)
LEMMA AfterReportAsked ==
  ASSUME TypeOK, NEW t \in Task, NextReport(t), call[t].report \in Report
  PROVE  LET c == AfterReport(call[t])
         IN  /\ c \in Call /\ Became(t, c) /\ c.at # "store" /\ c.at # "check"
             /\ c.at \in {"check", "collect", "clear", "address", "publish"}
                  => c.report \in Report
BY NextReportIs, IdleType DEF Report

LEMMA AddressKeeps ==
  ASSUME IInv, NEW t \in Task, Address(t)
  PROVE  IInv'
<1>1. /\ TypeOK /\ call[t].at = "address" /\ call[t].report \in Report
      /\ UNCHANGED <<val, change, notify, stored, ready, state, buf, cloud, alerts, raised,
                     lost, calls, failures, restarts>>
  BY DEF IInv, Address, Asked, params, remote, bounds
<1>2. CASE buf = {}
  <2> DEFINE c == AfterReport(call[t])
  <2>1. NextReport(t) /\ topic' = topic
    BY <1>2 DEF Address
  <2>2. /\ c \in Call /\ Became(t, c) /\ c.at # "store" /\ c.at # "check"
        /\ c.at \in {"check", "collect", "clear", "address", "publish"}
             => c.report \in Report
    BY <1>1, <2>1, AfterReportAsked
  <2> HIDE DEF c
  <2> QED
    BY <1>1, <2>1, <2>2, CallKeeps DEF TypeOK
<1>3. CASE buf # {}
  <2> DEFINE c == [call[t] EXCEPT !.at = "publish"]
  <2>1. Became(t, c) /\ topic' = call[t].report
    BY <1>3 DEF Address, Goto, Became
  <2>2. c \in Call /\ c.at = "publish" /\ c.report = call[t].report
    BY <1>1, Moves DEF Place
  <2> HIDE DEF c
  <2>3. c.at # "store" /\ c.at # "check" /\ c.report \in Report
    BY <1>1, <2>2
  <2> QED
    BY <1>1, <2>1, <2>2, <2>3, CallKeeps DEF TypeOK
<1> QED
  BY <1>2, <1>3

LEMMA NamesType == TypeOK => Names \subseteq Param
BY DEF TypeOK, Names

(* A name in the buffer stands for a pair of it.                            *)
LEMMA Chosen ==
  ASSUME TypeOK, NEW p \in Names
  PROVE  LET pv == CHOOSE pv \in buf : pv[1] = p
         IN  pv \in buf /\ pv[1] = p /\ pv[2] \in Value
<1>1. \E pv \in buf : pv[1] = p
  BY DEF Names
<1> QED
  BY <1>1 DEF TypeOK

LEMMA PublishKeeps ==
  ASSUME IInv, NEW t \in Task, Publish(t) \/ PublishFails(t)
  PROVE  IInv'
<1>1. /\ TypeOK /\ call[t].at = "publish" /\ call[t].report \in Report /\ NextReport(t)
      /\ UNCHANGED <<val, change, notify, stored, ready, state, buf, topic, raised, calls,
                     restarts>>
  BY DEF IInv, Publish, PublishFails, Asked, params, shared, bounds
<1>2. failures' \in 0 .. MaxFailures
  BY <1>1, ParamAssumption DEF Publish, PublishFails, TypeOK, bounds
<1>3. lost' \subseteq Param /\ alerts' \subseteq (Param \X Value)
  BY <1>1, NamesType DEF Publish, PublishFails, TypeOK
<1>4. cloud' \in [Param -> Value \cup {NoValue}]
  <2>1. CASE cloud' = cloud
    BY <1>1, <2>1 DEF TypeOK
  <2>2. CASE cloud' = [p \in Param |-> IF p \in Names THEN (CHOOSE pv \in buf : pv[1] = p)[2]
                                                      ELSE cloud[p]]
    BY <1>1, <2>2, Chosen DEF TypeOK
  <2> QED
    BY <2>1, <2>2 DEF Publish, PublishFails
<1> DEFINE c == AfterReport(call[t])
<1>5. /\ c \in Call /\ Became(t, c) /\ c.at # "store" /\ c.at # "check"
      /\ c.at \in {"check", "collect", "clear", "address", "publish"}
           => c.report \in Report
  BY <1>1, AfterReportAsked
<1> HIDE DEF c
<1> QED
  BY <1>1, <1>2, <1>3, <1>4, <1>5, CallKeeps DEF TypeOK

LEMMA AgentKeeps ==
  ASSUME IInv, ParamsInit \/ ParamsInitFails \/ Started
  PROVE  IInv'
<1>1. TypeOK /\ Agent \in Task
  BY ParamAssumption DEF IInv
<1>2. CASE ParamsInit
  <2> DEFINE c == [Idle EXCEPT !.at = "collect", !.report = "all"]
  <2>1. c \in Call /\ c.at = "collect" /\ c.report = "all" /\ Became(Agent, c)
    BY <1>2, Reports DEF ParamsInit, StartReport, Became, Report
  <2>2. /\ call[Agent].at = "idle" /\ ready' = TRUE
        /\ UNCHANGED <<val, change, notify, stored, state, buf, topic, cloud, alerts, raised,
                       lost, calls, failures, restarts>>
    BY <1>1, <1>2 DEF ParamsInit, May, params, shared, remote, bounds
  <2> HIDE DEF c
  <2>3. c.report \in Report
    BY <2>1 DEF Report
  <2> QED
    BY <1>1, <2>1, <2>2, <2>3, CallKeeps DEF TypeOK
<1>3. CASE ParamsInitFails
  <2>1. failures' \in 0 .. MaxFailures
    BY <1>1, <1>3, ParamAssumption DEF ParamsInitFails, TypeOK
  <2>2. TypeOK'
    BY <1>1, <1>3, <2>1 DEF ParamsInitFails, TypeOK, params, shared, remote
  <2>3. Asked'
    BY <1>3 DEF ParamsInitFails, IInv, Asked
  <2>4. Kept'
    BY <1>3 DEF ParamsInitFails, IInv, Kept, params
  <2> QED
    BY <1>3, <2>2, <2>3, <2>4 DEF IInv, InNvs, ParamsInitFails, params
<1>4. CASE Started
  <2>1. Became(Agent, Idle)
    BY <1>4 DEF Started, Became
  <2>2. /\ call[Agent].at = "finish" /\ state' = "started"
        /\ UNCHANGED <<val, change, notify, stored, ready, buf, topic, cloud, alerts, raised,
                       lost, calls, failures, restarts>>
    BY <1>4 DEF Started, params, shared, remote, bounds
  <2> QED
    BY <1>1, <2>1, <2>2, IdleType, CallKeeps DEF TypeOK
<1> QED
  BY <1>2, <1>3, <1>4

(* What a parameter is created with is what NVS has, or goes there.         *)
LEMMA RestoredType ==
  ASSUME TypeOK, NEW p \in Param
  PROVE  Restored(p) \in Value
BY ParamAssumption DEF TypeOK, Restored

LEMMA RestartKeepsIInv ==
  ASSUME IInv, Restart
  PROVE  IInv'
<1>1. /\ TypeOK /\ val' = [p \in Param |-> Restored(p)] /\ stored' = stored
      /\ change' = {} /\ notify' = {} /\ ready' = FALSE /\ state' = "starting"
      /\ call' = [t \in Task |-> Idle] /\ buf' = {} /\ topic' = "all" /\ lost' = {}
      /\ restarts' = restarts + 1 /\ restarts < MaxRestarts
      /\ UNCHANGED <<cloud, alerts, raised, calls, failures>>
  BY DEF IInv, Restart
<1>2. restarts' \in 0 .. MaxRestarts
  BY <1>1, ParamAssumption DEF TypeOK
<1>3. call' \in [Task -> Call] /\ val' \in [Param -> Value] /\ topic' \in Report
  BY <1>1, IdleType, RestoredType DEF Report
<1>4. TypeOK'
  BY <1>1, <1>2, <1>3 DEF TypeOK
<1>5. Asked'
  BY <1>1, IdleType DEF Asked
<1>6. ASSUME NEW p \in Persist PROVE stored'[p] = val'[p]
  BY <1>1, <1>6, ParamAssumption DEF Restored, IInv, InNvs
<1>7. Kept'
  BY <1>6 DEF Kept
<1> QED
  BY <1>1, <1>4, <1>5, <1>7 DEF IInv, InNvs
-----------------------------------------------------------------------------
LEMMA InitIInv == Init => IInv
<1> SUFFICES ASSUME Init PROVE IInv
  OBVIOUS
<1>1. TypeOK
  <2>1. call \in [Task -> Call] /\ topic \in Report
    BY IdleType DEF Init, Report
  <2>2. 0 \in 0 .. MaxCalls /\ 0 \in 0 .. MaxFailures /\ 0 \in 0 .. MaxRestarts
    BY ParamAssumption
  <2>3. /\ val \in [Param -> Value] /\ stored \in [Param -> Value \cup {NoValue}]
        /\ cloud \in [Param -> Value \cup {NoValue}]
    BY ParamAssumption DEF Init
  <2> QED
    BY <2>1, <2>2, <2>3 DEF Init, TypeOK
<1>2. Asked /\ Kept /\ InNvs
  BY ParamAssumption, IdleType DEF Init, Asked, Kept, InNvs
<1> QED
  BY <1>1, <1>2 DEF IInv

LEMMA StepIInv ==
  ASSUME IInv, [Next]_vars
  PROVE  IInv'
<1>1. CASE UNCHANGED vars
  BY <1>1 DEF vars, params, shared, remote, bounds, IInv, TypeOK, Asked, Kept, InNvs
<1>2. ASSUME NEW t \in Task, Calls(t) PROVE IInv'
  <2>1. ASSUME NEW p \in Param, NEW v \in Value,
               UpdateOnly(t, p, v) \/ UpdateAndReport(t, p, v)
               \/ UpdateAndNotify(t, p, v) \/ SetParams(t, p, v)
        PROVE  IInv'
    BY <2>1, UpdateKeeps
       DEF UpdateOnly, UpdateAndReport, UpdateAndNotify, SetParams, Report
  <2>2. ASSUME NEW p \in Param, Notify(t, p) \/ ReportUpdated(t)
        PROVE  IInv'
    BY <2>2, NotifyKeeps
  <2> QED
    BY <1>2, <2>1, <2>2 DEF Calls
<1>3. ASSUME NEW t \in Task, Reporting(t) PROVE IInv'
  BY <1>3, StoreKeeps, CheckKeeps, CollectKeeps, ClearKeeps, AddressKeeps, PublishKeeps
     DEF Reporting
<1>4. CASE ParamsInit \/ ParamsInitFails \/ Started
  BY <1>4, AgentKeeps
<1>5. CASE Restart
  BY <1>5, RestartKeepsIInv
<1> QED
  BY <1>1, <1>2, <1>3, <1>4, <1>5 DEF Next

(* However the tasks interleave, a restart gives a persistent parameter the *)
(* value it had, unless a task was about to store a newer one: every update *)
(* stores before it reports, and a new parameter stores its default         *)
(* (esp_rmaker_param_update, esp_rmaker_device_add_param).                  *)
THEOREM RestartsKeepValues == Spec => RestartKeeps
<1>1. ASSUME IInv, [Next]_vars
      PROVE  [restarts' # restarts =>
                 \A p \in Persist : val'[p] = val[p]
                      \/ \E t \in Task : call[t].at = "store" /\ call[t].param = p]_vars
  <2>1. SUFFICES ASSUME restarts' # restarts
                 PROVE  \A p \in Persist : val'[p] = val[p]
                           \/ \E t \in Task : call[t].at = "store" /\ call[t].param = p
    OBVIOUS
  <2>2. Restart
    BY <1>1, <2>1 DEF Next, vars, bounds, Calls, Reporting, UpdateOnly, UpdateAndReport,
       UpdateAndNotify, SetParams, Update, Notify, ReportUpdated, Store, Check, Collect,
       Clear, Address, Publish, PublishFails, ParamsInit, ParamsInitFails, Started
  <2> QED
    BY <1>1, <2>2, ParamAssumption DEF Restart, Restored, IInv, Kept, InNvs
<1> QED
  BY <1>1, InitIInv, StepIInv, PTL DEF Spec, RestartKeeps
-----------------------------------------------------------------------------
(* What holds when the tasks take turns.  The buffer and the topic belong   *)
(* to the one task that is in a call: what it collected is still what the   *)
(* parameters are worth, and what it cleared the flags of.                  *)
Alone ==
    /\ \A t, u \in Task : call[t].at # "idle" /\ call[u].at # "idle" => t = u
    /\ \A t \in Task : call[t].at = "idle" => call[t] = Idle

(* All is reported once, by the agent's task, before it has started.        *)
Shape ==
    \A t \in Task :
        /\ call[t].at = "finish" => call[t].report = "all"
        /\ call[t].report = "all" => t = Agent /\ ready /\ state = "starting"
        /\ call[t].at \in {"store", "check", "clear"} => call[t].report # "all"
        /\ call[t].at = "publish" => topic = call[t].report

Fresh ==
    \A t \in Task : call[t].at \in {"clear", "address", "publish"} =>
        /\ \A pv \in buf : pv[2] = val[pv[1]]
        /\ call[t].report = "notify" => buf \subseteq raised
        /\ call[t].report = "all" => Names = Param
        /\ call[t].at = "clear" /\ call[t].report = "change" => Names = change

(* The flag is up from when the application notifies to when it is reported. *)
Raised ==
    \A p \in notify :
        /\ <<p, val[p]>> \in raised
        /\ \E t \in Task : call[t].report = "notify" /\ call[t].at \in {"collect", "clear"}

(* The agent has started, or is about to: all was reported.                 *)
Informed ==
    (state = "started" /\ ready) \/ \E t \in Task : call[t].at = "finish"

Accounted ==
    Informed =>
        \A p \in Param : cloud[p] = val[p] \/ p \in change \/ p \in lost \/ OnItsWay(p)

TurnsInv == Alone /\ Shape /\ Fresh /\ Raised /\ Accounted /\ AlertsWereRaised

(* The task whose turn it is.                                               *)
HasTurn(t) == call[t].at # "idle" \/ May(t)

LEMMA OthersIdle ==
  ASSUME IInv, OneCaller, Alone, NEW t \in Task, HasTurn(t)
  PROVE  \A u \in Task : u # t => call[u] = Idle /\ call[u].at = "idle"
BY IdleType DEF Alone, HasTurn, May

LEMMA Turn ==
  ASSUME IInv, OneCaller, Alone, NEW t \in Task, HasTurn(t), NEW c \in Call, Became(t, c)
  PROVE  /\ call'[t] = c
         /\ \A u \in Task : u # t => call'[u] = Idle /\ call'[u].at = "idle"
                                     /\ call'[u].report = "none"
BY OthersIdle, BecameIs, IdleType DEF IInv

(* The invariant after a step of the task whose turn it is.                 *)
LEMMA AloneTurn ==
  ASSUME IInv, OneCaller, Alone, NEW t \in Task, HasTurn(t), NEW c \in Call, Became(t, c),
         c.at = "idle" => c = Idle
  PROVE  Alone'
BY Turn DEF Alone

LEMMA ShapeTurn ==
  ASSUME IInv, OneCaller, Alone, NEW t \in Task, HasTurn(t), NEW c \in Call, Became(t, c),
         c.at = "finish" => c.report = "all",
         c.report = "all" => t = Agent /\ ready' /\ state' = "starting",
         c.at \in {"store", "check", "clear"} => c.report # "all",
         c.at = "publish" => topic' = c.report
  PROVE  Shape'
BY Turn DEF Shape

LEMMA FreshTurn ==
  ASSUME IInv, OneCaller, Alone, NEW t \in Task, HasTurn(t), NEW c \in Call, Became(t, c),
         c.at \in {"clear", "address", "publish"} =>
            /\ \A pv \in buf' : pv[2] = val'[pv[1]]
            /\ c.report = "notify" => buf' \subseteq raised'
            /\ c.report = "all" => Names' = Param
            /\ c.at = "clear" /\ c.report = "change" => Names' = change'
  PROVE  Fresh'
BY Turn DEF Fresh

(* Nothing is to notify, unless the task at its turn is about to report it. *)
LEMMA Quiet ==
  ASSUME IInv, OneCaller, Alone, Raised, NEW t \in Task, HasTurn(t),
         ~(call[t].report = "notify" /\ call[t].at \in {"collect", "clear"})
  PROVE  notify = {}
BY OthersIdle DEF Raised

LEMMA QuietTurn ==
  ASSUME IInv, OneCaller, Alone, Raised, NEW t \in Task, HasTurn(t),
         ~(call[t].report = "notify" /\ call[t].at \in {"collect", "clear"}),
         notify' = notify
  PROVE  Raised'
BY Quiet DEF Raised

(* A step that tells the cloud nothing, of a task that has no changes of a  *)
(* report under way.                                                        *)
LEMMA AccountedTurn ==
  ASSUME IInv, OneCaller, Alone, Accounted, NEW t \in Task, HasTurn(t),
         NEW c \in Call, Became(t, c), c.at # "finish",
         call[t].at \notin {"clear", "address", "publish"} \/ call[t].report # "change",
         state' = state, ready' = ready, cloud' = cloud, lost' = lost,
         \A p \in Param : p \in change \/ val'[p] # val[p] => p \in change'
  PROVE  Accounted'
<1>1. /\ Informed' => Informed
  BY Turn DEF Informed
<1>2. \A p \in Param : ~OnItsWay(p)
  BY OthersIdle DEF OnItsWay
<1> QED
  BY <1>1, <1>2 DEF Accounted

-----------------------------------------------------------------------------
LEMMA GotoIs ==
  ASSUME TypeOK, NEW t \in Task, NEW place \in Place \ {"idle"}, Goto(t, place)
  PROVE  \E c \in Call : Became(t, c) /\ c.at = place /\ c.report = call[t].report
<1> DEFINE c == [call[t] EXCEPT !.at = place]
<1>1. Became(t, c)
  BY DEF Goto, Became
<1>2. c \in Call /\ c.at = place /\ c.report = call[t].report
  BY Moves
<1> HIDE DEF c
<1> QED
  BY <1>1, <1>2

LEMMA StartReportIs ==
  ASSUME TypeOK, NEW t \in Task, NEW r \in Report, StartReport(t, r)
  PROVE  \E c \in Call : Became(t, c) /\ c.at = "collect" /\ c.report = r
<1> DEFINE c == [Idle EXCEPT !.at = "collect", !.report = r]
<1>1. Became(t, c)
  BY DEF StartReport, Became
<1>2. c \in Call /\ c.at = "collect" /\ c.report = r
  BY Reports
<1> HIDE DEF c
<1> QED
  BY <1>1, <1>2

LEMMA AfterReportIs ==
  ASSUME TypeOK, NEW t \in Task, NextReport(t)
  PROVE  \E c \in Call :
            /\ Became(t, c) /\ c.at \in {"collect", "finish", "idle"}
            /\ call[t].report = "notify" => c.at = "collect" /\ c.report = "change"
            /\ call[t].report = "all" => c.at = "finish" /\ c.report = "all"
            /\ call[t].report \notin {"notify", "all"} => c = Idle
<1> DEFINE c == AfterReport(call[t])
<1>1. /\ c \in Call /\ Became(t, c) /\ c.at \in {"collect", "finish", "idle"}
      /\ call[t].report = "notify" => c.at = "collect" /\ c.report = "change"
      /\ call[t].report = "all" => c.at = "finish" /\ c.report = "all"
      /\ call[t].report \notin {"notify", "all"} => c = Idle
  BY NextReportIs
<1> HIDE DEF c
<1> QED
  BY <1>1
-----------------------------------------------------------------------------
(* The steps, in turns.                                                     *)
LEMMA UpdateInTurn ==
  ASSUME IInv, TurnsInv, OneCaller, NEW t \in Task, NEW p \in Param, NEW v \in Value,
         NEW report \in {"none", "change", "notify"}, NEW checked \in BOOLEAN,
         Update(t, p, v, report, checked)
  PROVE  TurnsInv'
<1>1. /\ Alone /\ Shape /\ Raised /\ Accounted /\ AlertsWereRaised /\ TypeOK
      /\ HasTurn(t) /\ call[t].at = "idle" /\ val' = [val EXCEPT ![p] = v]
      /\ change' = change \cup {p}
      /\ UNCHANGED <<notify, ready, state, buf, topic, cloud, alerts, raised, lost>>
  BY DEF TurnsInv, HasTurn, Update, May, IInv, shared, remote
<1>2. PICK c \in Call : Became(t, c) /\ c.at = "store" /\ c.report = report
  <2> DEFINE c == [at |-> "store", report |-> report, checked |-> checked, param |-> p]
  <2>1. c \in Call /\ Became(t, c) /\ c.at = "store" /\ c.report = report
    BY DEF Update, Became, Call, Place, Report
  <2> HIDE DEF c
  <2> QED
    BY <2>1
<1>3. Alone'
  BY <1>1, <1>2, AloneTurn
<1>4. Shape'
  BY <1>1, <1>2, ShapeTurn
<1>5. Fresh'
  BY <1>1, <1>2, FreshTurn
<1>6. Raised'
  BY <1>1, QuietTurn
<1>7. Accounted'
  <2>1. \A q \in Param : q \in change \/ val'[q] # val[q] => q \in change'
    BY <1>1 DEF TypeOK
  <2> QED
    BY <1>1, <1>2, <2>1, AccountedTurn
<1>8. AlertsWereRaised'
  BY <1>1 DEF AlertsWereRaised
<1> QED
  BY <1>3, <1>4, <1>5, <1>6, <1>7, <1>8 DEF TurnsInv

LEMMA StoreInTurn ==
  ASSUME IInv, TurnsInv, OneCaller, NEW t \in Task, Store(t)
  PROVE  TurnsInv'
<1>1. /\ Alone /\ Shape /\ Raised /\ Accounted /\ AlertsWereRaised /\ TypeOK /\ Asked
      /\ HasTurn(t) /\ call[t].at = "store" /\ AfterStore(t)
      /\ UNCHANGED <<val, change, notify, ready, state, buf, topic, cloud, alerts, raised,
                     lost>>
  BY DEF TurnsInv, HasTurn, Store, IInv, shared, remote
<1>2. PICK c \in Call :
            /\ Became(t, c) /\ c.at \in {"idle", "check", "collect"}
            /\ c.at = "idle" => c = Idle
            /\ c.at # "idle" => c.report = call[t].report
  BY <1>1, AfterStoreIs
<1>3. Alone'
  BY <1>1, <1>2, AloneTurn
<1>4. Shape'
  <2>1. c.report # "all"
    BY <1>1, <1>2, IdleType DEF Shape
  <2> QED
    BY <1>1, <1>2, <2>1, ShapeTurn
<1>5. Fresh'
  BY <1>1, <1>2, FreshTurn
<1>6. Raised'
  BY <1>1, QuietTurn
<1>7. Accounted'
  BY <1>1, <1>2, AccountedTurn
<1>8. AlertsWereRaised'
  BY <1>1 DEF AlertsWereRaised
<1> QED
  BY <1>3, <1>4, <1>5, <1>6, <1>7, <1>8 DEF TurnsInv

(* The flag goes up, and the report that takes it down is next.             *)
LEMMA RaisedTurn ==
  ASSUME IInv, OneCaller, Alone, Raised, NEW t \in Task, HasTurn(t), NEW c \in Call,
         Became(t, c), c.report = "notify", c.at = "collect",
         ~(call[t].report = "notify" /\ call[t].at \in {"collect", "clear"}),
         NEW p \in Param, Raise(p), val' = val
  PROVE  Raised'
<1>1. notify' = {p} /\ <<p, val'[p]>> \in raised'
  BY Quiet DEF Raise
<1>2. call'[t] = c
  BY Turn
<1> QED
  BY <1>1, <1>2 DEF Raised

LEMMA CheckInTurn ==
  ASSUME IInv, TurnsInv, OneCaller, NEW t \in Task, Check(t)
  PROVE  TurnsInv'
<1>1. /\ Alone /\ Shape /\ Raised /\ Accounted /\ AlertsWereRaised /\ TypeOK
      /\ HasTurn(t) /\ call[t].at = "check" /\ call[t].report \in Report
      /\ call[t].report # "all" /\ call[t].param \in Param
      /\ UNCHANGED <<val, ready, state, buf, topic, cloud, alerts, lost>>
  BY DEF TurnsInv, HasTurn, Check, IInv, Asked, Shape, shared
<1>2. PICK c \in Call : /\ Became(t, c) /\ c.at \in {"idle", "collect"}
                        /\ state = "started" => c.at = "collect" /\ c.report = call[t].report
                        /\ state # "started" => c = Idle
  <2>1. CASE state = "started"
    BY <1>1, <2>1, StartReportIs DEF Check
  <2>2. CASE state # "started"
    BY <2>2, IdleType DEF Check, Goto, Became
  <2> QED
    BY <2>1, <2>2
<1>3. Alone'
  BY <1>1, <1>2, IdleType, AloneTurn
<1>4. Shape'
  <2>1. c.report # "all"
    BY <1>1, <1>2, IdleType
  <2> QED
    BY <1>1, <1>2, <2>1, ShapeTurn
<1>5. Fresh'
  BY <1>1, <1>2, FreshTurn
<1>6. Raised'
  <2>1. CASE state = "started" /\ call[t].report = "notify"
    BY <1>1, <1>2, <2>1, RaisedTurn DEF Check
  <2>2. CASE ~(state = "started" /\ call[t].report = "notify")
    <3>1. notify' = notify
      BY <2>2 DEF Check
    <3> QED
      BY <1>1, <3>1, QuietTurn
  <2> QED
    BY <2>1, <2>2
<1>7. Accounted'
  <2>1. \A q \in Param : q \in change \/ val'[q] # val[q] => q \in change'
    BY <1>1 DEF Check, Raise
  <2> QED
    BY <1>1, <1>2, <2>1, AccountedTurn
<1>8. AlertsWereRaised'
  BY <1>1 DEF AlertsWereRaised, Check, Raise
<1> QED
  BY <1>3, <1>4, <1>5, <1>6, <1>7, <1>8 DEF TurnsInv

LEMMA NotifyInTurn ==
  ASSUME IInv, TurnsInv, OneCaller, NEW t \in Task, NEW p \in Param,
         Notify(t, p) \/ ReportUpdated(t)
  PROVE  TurnsInv'
<1>1. /\ Alone /\ Shape /\ Raised /\ Accounted /\ AlertsWereRaised /\ TypeOK
      /\ HasTurn(t) /\ call[t].at = "idle"
      /\ UNCHANGED <<val, ready, state, buf, topic, cloud, alerts, lost>>
  BY DEF TurnsInv, HasTurn, Notify, ReportUpdated, May, IInv, params, shared, remote
<1>2. PICK c \in Call : /\ Became(t, c) /\ c.at = "collect" /\ c.report # "all"
                        /\ Notify(t, p) => c.report = "notify"
  <2>1. CASE Notify(t, p)
    BY <1>1, <2>1, StartReportIs DEF Notify, Report
  <2>2. CASE ReportUpdated(t) /\ ~Notify(t, p)
    BY <1>1, <2>2, StartReportIs DEF ReportUpdated, Report
  <2> QED
    BY <2>1, <2>2
<1>3. Alone'
  BY <1>1, <1>2, AloneTurn
<1>4. Shape'
  BY <1>1, <1>2, ShapeTurn
<1>5. Fresh'
  BY <1>1, <1>2, FreshTurn
<1>6. Raised'
  <2>1. CASE Notify(t, p)
    BY <1>1, <1>2, <2>1, RaisedTurn DEF Notify
  <2>2. CASE ReportUpdated(t)
    BY <1>1, <2>2, QuietTurn DEF ReportUpdated, params
  <2> QED
    BY <2>1, <2>2
<1>7. Accounted'
  <2>1. \A q \in Param : q \in change \/ val'[q] # val[q] => q \in change'
    BY <1>1 DEF Notify, ReportUpdated, Raise, params
  <2> QED
    BY <1>1, <1>2, <2>1, AccountedTurn
<1>8. AlertsWereRaised'
  BY <1>1 DEF AlertsWereRaised, Notify, ReportUpdated, Raise, remote
<1> QED
  BY <1>3, <1>4, <1>5, <1>6, <1>7, <1>8 DEF TurnsInv
LEMMA CollectInTurn ==
  ASSUME IInv, TurnsInv, OneCaller, NEW t \in Task, Collect(t)
  PROVE  TurnsInv'
<1>1. /\ Alone /\ Shape /\ Raised /\ Accounted /\ AlertsWereRaised /\ TypeOK
      /\ HasTurn(t) /\ call[t].at = "collect" /\ call[t].report \in Report
      /\ buf' = {<<p, val[p]>> : p \in Flagged(call[t].report)}
      /\ Goto(t, IF call[t].report = "all" THEN "address" ELSE "clear")
      /\ UNCHANGED <<val, change, notify, ready, state, topic, cloud, alerts, raised, lost>>
  BY DEF TurnsInv, HasTurn, Collect, IInv, Asked, params, remote
<1>2. PICK c \in Call : /\ Became(t, c) /\ c.report = call[t].report
                        /\ c.at = IF call[t].report = "all" THEN "address" ELSE "clear"
  <2>1. CASE call[t].report = "all"
    <3>1. Goto(t, "address") /\ "address" \in Place \ {"idle"}
      BY <1>1, <2>1 DEF Place
    <3> QED
      BY <1>1, <2>1, <3>1, GotoIs
  <2>2. CASE call[t].report # "all"
    <3>1. Goto(t, "clear") /\ "clear" \in Place \ {"idle"}
      BY <1>1, <2>2 DEF Place
    <3> QED
      BY <1>1, <2>2, <3>1, GotoIs
  <2> QED
    BY <2>1, <2>2
<1>3. Alone'
  BY <1>1, <1>2, AloneTurn
<1>4. Shape'
  <2>1. c.report = "all" => t = Agent /\ ready' /\ state' = "starting"
    BY <1>1, <1>2 DEF Shape
  <2> QED
    BY <1>1, <1>2, <2>1, ShapeTurn
<1>5. Fresh'
  <2>1. \A pv \in buf' : pv[2] = val'[pv[1]]
    BY <1>1
  <2>2. Names' = Flagged(call[t].report)
    <3> DEFINE F == Flagged(call[t].report)
    <3>1. buf' = {<<p, val[p]>> : p \in F} /\ Names' = {pv[1] : pv \in buf'}
      BY <1>1 DEF Names
    <3> HIDE DEF F
    <3>2. ASSUME NEW p \in F PROVE p \in Names'
      <4>1. <<p, val[p]>> \in buf' /\ <<p, val[p]>>[1] = p
        BY <3>1
      <4> QED
        BY <3>1, <4>1
    <3>3. ASSUME NEW p \in Names' PROVE p \in F
      <4>1. PICK pv \in buf' : p = pv[1]
        BY <3>1
      <4>2. PICK q \in F : pv = <<q, val[q]>>
        BY <3>1, <4>1
      <4> QED
        BY <4>1, <4>2
    <3>4. Names' = F
      BY <3>2, <3>3
    <3> QED
      BY <3>4 DEF F
  <2>3. c.report = "notify" => buf' \subseteq raised'
    BY <1>1, <1>2 DEF Flagged, Raised
  <2>4. c.report = "all" => Names' = Param
    BY <1>2, <2>2 DEF Flagged
  <2>5. c.report = "change" => Names' = change'
    BY <1>1, <1>2, <2>2 DEF Flagged
  <2> QED
    BY <1>1, <1>2, <2>1, <2>3, <2>4, <2>5, FreshTurn
<1>6. Raised'
  <2>1. CASE call[t].report = "notify"
    <3>1. call'[t].report = "notify" /\ call'[t].at = "clear"
      BY <1>1, <1>2, <2>1, Turn
    <3> QED
      BY <1>1, <3>1 DEF Raised
  <2>2. CASE call[t].report # "notify"
    BY <1>1, <2>2, QuietTurn
  <2> QED
    BY <2>1, <2>2
<1>7. Accounted'
  BY <1>1, <1>2, AccountedTurn
<1>8. AlertsWereRaised'
  BY <1>1 DEF AlertsWereRaised
<1> QED
  BY <1>3, <1>4, <1>5, <1>6, <1>7, <1>8 DEF TurnsInv

(* The changes of a report are in the buffer when their flags go down.      *)
LEMMA ClearInTurn ==
  ASSUME IInv, TurnsInv, OneCaller, NEW t \in Task, Clear(t)
  PROVE  TurnsInv'
<1>1. /\ Alone /\ Shape /\ Raised /\ Accounted /\ AlertsWereRaised /\ TypeOK /\ Fresh
      /\ HasTurn(t) /\ call[t].at = "clear" /\ call[t].report \in {"change", "notify"}
      /\ Goto(t, "address")
      /\ UNCHANGED <<val, ready, state, buf, topic, cloud, alerts, raised, lost>>
  BY DEF TurnsInv, HasTurn, Clear, IInv, Asked, Report, Shape, shared, remote
<1>2. PICK c \in Call : Became(t, c) /\ c.report = call[t].report /\ c.at = "address"
  <2>1. "address" \in Place \ {"idle"}
    BY DEF Place
  <2> QED
    BY <1>1, <2>1, GotoIs
<1>3. Alone'
  BY <1>1, <1>2, AloneTurn
<1>4. Shape'
  BY <1>1, <1>2, ShapeTurn
<1>5. Fresh'
  <2>1. /\ \A pv \in buf' : pv[2] = val'[pv[1]]
        /\ c.report = "notify" => buf' \subseteq raised'
    BY <1>1, <1>2 DEF Fresh
  <2> QED
    BY <1>1, <1>2, <2>1, FreshTurn
<1>6. Raised'
  <2>1. CASE call[t].report = "notify"
    BY <2>1 DEF Raised, Clear
  <2>2. CASE call[t].report = "change"
    BY <1>1, <2>2, QuietTurn DEF Clear
  <2> QED
    BY <1>1, <2>1, <2>2
<1>7. Accounted'
  <2>1. CASE call[t].report = "notify"
    <3>1. change' = change
      BY <2>1 DEF Clear
    <3> QED
      BY <1>1, <1>2, <2>1, <3>1, AccountedTurn
  <2>2. CASE call[t].report = "change"
    <3>1. Informed' => Informed
      BY <1>1, <1>2, Turn DEF Informed
    <3>2. ASSUME NEW p \in Param, p \in change \/ OnItsWay(p)
          PROVE  OnItsWay(p)'
      <4>1. <<p, val[p]>> \in buf
        <5>1. CASE p \in change
          <6>1. PICK pv \in buf : pv[1] = p
            BY <1>1, <2>2, <5>1 DEF Fresh, Names
          <6>2. pv[2] = val[p] /\ pv \in Param \X Value
            BY <1>1, <6>1 DEF Fresh, TypeOK
          <6>3. pv = <<p, val[p]>>
            BY <6>1, <6>2
          <6> QED
            BY <6>1, <6>3
        <5>2. CASE OnItsWay(p)
          BY <5>2 DEF OnItsWay
        <5> QED
          BY <3>2, <5>1, <5>2
      <4>2. call'[t] = c
        BY <1>1, <1>2, Turn
      <4> QED
        BY <1>1, <1>2, <2>2, <4>1, <4>2 DEF OnItsWay
    <3> QED
      BY <1>1, <3>1, <3>2 DEF Accounted
  <2> QED
    BY <1>1, <2>1, <2>2
<1>8. AlertsWereRaised'
  BY <1>1 DEF AlertsWereRaised
<1> QED
  BY <1>3, <1>4, <1>5, <1>6, <1>7, <1>8 DEF TurnsInv

LEMMA AddressInTurn ==
  ASSUME IInv, TurnsInv, OneCaller, NEW t \in Task, Address(t)
  PROVE  TurnsInv'
<1>1. /\ Alone /\ Shape /\ Raised /\ Accounted /\ AlertsWereRaised /\ TypeOK /\ Fresh
      /\ HasTurn(t) /\ call[t].at = "address" /\ call[t].report \in Report
      /\ UNCHANGED <<val, change, notify, ready, state, buf, cloud, alerts, raised, lost>>
  BY DEF TurnsInv, HasTurn, Address, IInv, Asked, params, remote
<1>2. Raised'
  BY <1>1, QuietTurn
<1>3. AlertsWereRaised'
  BY <1>1 DEF AlertsWereRaised
<1>4. CASE buf = {}
  <2>1. PICK c \in Call :
            /\ Became(t, c) /\ c.at \in {"collect", "finish", "idle"}
            /\ call[t].report = "notify" => c.at = "collect" /\ c.report = "change"
            /\ call[t].report = "all" => c.at = "finish" /\ c.report = "all"
            /\ call[t].report \notin {"notify", "all"} => c = Idle
    BY <1>1, <1>4, AfterReportIs DEF Address
  <2>2. /\ c.at = "idle" => c = Idle
        /\ c.report = "all" => call[t].report = "all"
        /\ c.at = "finish" => call[t].report = "all" /\ c.report = "all"
    BY <2>1, IdleType
  <2>3. Alone'
    BY <1>1, <2>1, <2>2, AloneTurn
  <2>4. Shape'
    BY <1>1, <2>1, <2>2, ShapeTurn DEF Shape
  <2>5. Fresh'
    BY <1>1, <2>1, FreshTurn
  <2>6. Accounted'
    <3>1. CASE call[t].report = "all"
      <4>1. Param = {}
        BY <1>1, <1>4, <3>1 DEF Fresh, Names
      <4> QED
        BY <4>1 DEF Accounted
    <3>2. CASE call[t].report # "all"
      <4>1. Informed' => Informed
        BY <1>1, <2>1, <2>2, <3>2, Turn DEF Informed
      <4>2. \A p \in Param : ~OnItsWay(p)
        BY <1>4 DEF OnItsWay
      <4> QED
        BY <1>1, <4>1, <4>2 DEF Accounted
    <3> QED
      BY <3>1, <3>2
  <2> QED
    BY <1>2, <1>3, <2>3, <2>4, <2>5, <2>6 DEF TurnsInv
<1>5. CASE buf # {}
  <2>1. topic' = call[t].report /\ Goto(t, "publish") /\ "publish" \in Place \ {"idle"}
    BY <1>5 DEF Address, Place
  <2>2. PICK c \in Call : Became(t, c) /\ c.report = call[t].report /\ c.at = "publish"
    BY <1>1, <2>1, GotoIs
  <2>3. Alone'
    BY <1>1, <2>2, AloneTurn
  <2>4. Shape'
    BY <1>1, <2>1, <2>2, ShapeTurn DEF Shape
  <2>5. Fresh'
    <3>1. /\ \A pv \in buf' : pv[2] = val'[pv[1]]
          /\ c.report = "notify" => buf' \subseteq raised'
          /\ c.report = "all" => Names' = Param
      BY <1>1, <2>2 DEF Fresh, Names
    <3> QED
      BY <1>1, <2>2, <3>1, FreshTurn
  <2>6. Accounted'
    <3>1. Informed' => Informed
      BY <1>1, <2>2, Turn DEF Informed
    <3>2. ASSUME NEW p \in Param, OnItsWay(p)
          PROVE  OnItsWay(p)'
      <4>1. call'[t] = c /\ call[t].report = "change"
        BY <1>1, <2>2, <3>2, OthersIdle, Turn DEF OnItsWay
      <4> QED
        BY <1>1, <2>2, <3>2, <4>1 DEF OnItsWay
    <3> QED
      BY <1>1, <3>1, <3>2 DEF Accounted
  <2> QED
    BY <1>2, <1>3, <2>3, <2>4, <2>5, <2>6 DEF TurnsInv
<1> QED
  BY <1>4, <1>5
(* A report that is sent, or lost: what was in the buffer is known to the   *)
(* cloud, or known to be lost, and every parameter is when all were in it.  *)
LEMMA PublishInTurn ==
  ASSUME IInv, TurnsInv, OneCaller, NEW t \in Task, Publish(t) \/ PublishFails(t)
  PROVE  TurnsInv'
<1>1. /\ Alone /\ Shape /\ Raised /\ Accounted /\ AlertsWereRaised /\ TypeOK /\ Fresh
      /\ HasTurn(t) /\ call[t].at = "publish" /\ call[t].report \in Report
      /\ topic = call[t].report /\ NextReport(t)
      /\ UNCHANGED <<val, change, notify, ready, state, buf, topic, raised>>
  BY DEF TurnsInv, HasTurn, Publish, PublishFails, IInv, Asked, Shape, params, shared
<1>2. PICK c \in Call :
          /\ Became(t, c) /\ c.at \in {"collect", "finish", "idle"}
          /\ call[t].report = "notify" => c.at = "collect" /\ c.report = "change"
          /\ call[t].report = "all" => c.at = "finish" /\ c.report = "all"
          /\ call[t].report \notin {"notify", "all"} => c = Idle
  BY <1>1, AfterReportIs
<1>3. /\ c.at = "idle" => c = Idle
      /\ c.report = "all" => call[t].report = "all"
      /\ c.at = "finish" => call[t].report = "all" /\ c.report = "all"
  BY <1>1, <1>2, IdleType DEF Report
<1>4. Alone'
  BY <1>1, <1>2, <1>3, AloneTurn
<1>5. Shape'
  BY <1>1, <1>2, <1>3, ShapeTurn DEF Shape
<1>6. Fresh'
  BY <1>1, <1>2, FreshTurn
<1>7. Raised'
  BY <1>1, QuietTurn
<1>8. AlertsWereRaised'
  <2>1. topic = "notify" => buf \subseteq raised
    BY <1>1 DEF Fresh
  <2> QED
    BY <1>1, <2>1 DEF AlertsWereRaised, Publish, PublishFails
<1>9. Accounted'
  <2>1. call[t].report # "all" => (Informed' => Informed)
    BY <1>1, <1>2, <1>3, Turn DEF Informed
  <2>2. CASE topic = "notify"
    <3>1. UNCHANGED <<cloud, lost>>
      BY <1>1, <2>2, NamesType DEF Publish, PublishFails, TypeOK
    <3>2. \A p \in Param : ~OnItsWay(p)
      BY <1>1, <2>2, OthersIdle DEF OnItsWay
    <3> QED
      BY <1>1, <2>1, <2>2, <3>1, <3>2 DEF Accounted
  <2>3. CASE topic # "notify"
    <3>1. ASSUME NEW p \in Names PROVE cloud'[p] = val[p] \/ p \in lost'
      <4>1. CASE Publish(t)
        <5> DEFINE pv == CHOOSE q \in buf : q[1] = p
        <5>1. p \in Param /\ cloud'[p] = pv[2]
          BY <1>1, <2>3, <4>1, NamesType DEF Publish
        <5>2. pv \in buf /\ pv[1] = p
          BY <1>1, Chosen
        <5>3. pv[2] = val[p]
          BY <1>1, <5>2 DEF Fresh
        <5> QED
          BY <5>1, <5>3
      <4>2. CASE PublishFails(t)
        BY <2>3, <4>2 DEF PublishFails
      <4> QED
        BY <4>1, <4>2
    <3>2. ASSUME NEW p \in Param, p \notin Names
          PROVE  cloud'[p] = cloud[p] /\ (p \in lost => p \in lost') /\ ~OnItsWay(p)
      <4>1. ~OnItsWay(p)
        <5>1. OnItsWay(p) => <<p, val[p]>> \in buf /\ <<p, val[p]>>[1] = p
          BY DEF OnItsWay
        <5> QED
          BY <3>2, <5>1 DEF Names
      <4>2. cloud'[p] = cloud[p] /\ (p \in lost => p \in lost')
        BY <2>3, <3>2 DEF Publish, PublishFails
      <4> QED
        BY <4>1, <4>2
    <3>3. CASE call[t].report = "all"
      <4>1. Names = Param
        BY <1>1, <3>3 DEF Fresh
      <4> QED
        BY <1>1, <3>1, <4>1 DEF Accounted
    <3>4. CASE call[t].report # "all"
      <4>1. SUFFICES ASSUME Informed', NEW p \in Param
                     PROVE  cloud'[p] = val'[p] \/ p \in change' \/ p \in lost'
        BY DEF Accounted
      <4>2. cloud[p] = val[p] \/ p \in change \/ p \in lost \/ OnItsWay(p)
        BY <1>1, <2>1, <3>4, <4>1 DEF Accounted
      <4>3. CASE p \in Names
        BY <1>1, <3>1, <4>3
      <4>4. CASE p \notin Names
        BY <1>1, <3>2, <4>2, <4>4
      <4> QED
        BY <4>3, <4>4
    <3> QED
      BY <3>3, <3>4
  <2> QED
    BY <2>2, <2>3
<1> QED
  BY <1>4, <1>5, <1>6, <1>7, <1>8, <1>9 DEF TurnsInv

LEMMA AgentInTurn ==
  ASSUME IInv, TurnsInv, OneCaller, ParamsInit \/ ParamsInitFails \/ Started
  PROVE  TurnsInv'
<1>1. /\ Alone /\ Shape /\ Fresh /\ Raised /\ Accounted /\ AlertsWereRaised /\ TypeOK
      /\ Agent \in Task
  BY ParamAssumption DEF TurnsInv, IInv
<1>2. CASE ParamsInit
  <2>1. /\ HasTurn(Agent) /\ call[Agent].at = "idle" /\ ready' = TRUE /\ state = "starting"
        /\ StartReport(Agent, "all") /\ "all" \in Report
        /\ UNCHANGED <<val, change, notify, state, buf, topic, cloud, alerts, raised, lost>>
    BY <1>2 DEF ParamsInit, HasTurn, May, Report, params, shared, remote
  <2>2. PICK c \in Call : Became(Agent, c) /\ c.at = "collect" /\ c.report = "all"
    BY <1>1, <2>1, StartReportIs
  <2>3. Alone'
    BY <1>1, <2>1, <2>2, AloneTurn
  <2>4. Shape'
    BY <1>1, <2>1, <2>2, ShapeTurn
  <2>5. Fresh'
    BY <1>1, <2>1, <2>2, FreshTurn
  <2>6. Raised'
    BY <1>1, <2>1, QuietTurn
  <2>7. Accounted'
    <3>1. ~Informed'
      BY <1>1, <2>1, <2>2, Turn DEF Informed
    <3> QED
      BY <3>1 DEF Accounted
  <2>8. AlertsWereRaised'
    BY <1>1, <2>1 DEF AlertsWereRaised
  <2> QED
    BY <2>3, <2>4, <2>5, <2>6, <2>7, <2>8 DEF TurnsInv
<1>3. CASE ParamsInitFails
  <2>1. /\ ~ready
        /\ UNCHANGED <<val, change, notify, ready, call, buf, topic, cloud, alerts, raised, lost>>
    BY <1>3 DEF ParamsInitFails, params, shared, remote
  <2>2. Alone'
    BY <1>1, <2>1 DEF Alone
  <2>3. Shape'
    BY <1>1, <2>1 DEF Shape
  <2>4. Fresh'
    BY <1>1, <2>1 DEF Fresh, Names
  <2>5. Raised'
    BY <1>1, <2>1 DEF Raised
  <2>6. Accounted'
    <3>1. ~Informed'
      BY <1>1, <2>1 DEF Informed, Shape
    <3> QED
      BY <3>1 DEF Accounted
  <2>7. AlertsWereRaised'
    BY <1>1, <2>1 DEF AlertsWereRaised
  <2> QED
    BY <2>2, <2>3, <2>4, <2>5, <2>6, <2>7 DEF TurnsInv
<1>4. CASE Started
  <2>1. /\ HasTurn(Agent) /\ call[Agent].at = "finish" /\ Became(Agent, Idle)
        /\ UNCHANGED <<val, change, notify, ready, buf, topic, cloud, alerts, raised, lost>>
    BY <1>4 DEF Started, HasTurn, Became, params, shared, remote
  <2>2. PICK c \in Call : Became(Agent, c) /\ c = Idle /\ c.at = "idle" /\ c.report = "none"
    BY <2>1, IdleType
  <2>3. Alone'
    BY <1>1, <2>1, <2>2, AloneTurn
  <2>4. Shape'
    BY <1>1, <2>1, <2>2, ShapeTurn
  <2>5. Fresh'
    BY <1>1, <2>1, <2>2, FreshTurn
  <2>6. Raised'
    BY <1>1, <2>1, QuietTurn
  <2>7. Accounted'
    <3>1. Informed
      BY <1>1, <2>1 DEF Informed
    <3>2. \A p \in Param : ~OnItsWay(p)
      BY <1>1, <2>1, OthersIdle DEF OnItsWay
    <3> QED
      BY <1>1, <2>1, <3>1, <3>2 DEF Accounted
  <2>8. AlertsWereRaised'
    BY <1>1, <2>1 DEF AlertsWereRaised
  <2> QED
    BY <2>3, <2>4, <2>5, <2>6, <2>7, <2>8 DEF TurnsInv
<1> QED
  BY <1>2, <1>3, <1>4

LEMMA InitInTurn == Init => TurnsInv
<1> SUFFICES ASSUME Init PROVE TurnsInv
  OBVIOUS
<1>1. \A t \in Task : call[t] = Idle /\ call[t].at = "idle" /\ call[t].report = "none"
  BY IdleType DEF Init
<1>2. Alone /\ Shape /\ Fresh
  BY <1>1 DEF Alone, Shape, Fresh
<1>3. Raised /\ AlertsWereRaised
  BY DEF Init, Raised, AlertsWereRaised
<1>4. Accounted
  BY <1>1 DEF Init, Accounted, Informed
<1> QED
  BY <1>2, <1>3, <1>4 DEF TurnsInv

LEMMA RestartInTurn ==
  ASSUME IInv, TurnsInv, Restart
  PROVE  TurnsInv'
<1>1. /\ AlertsWereRaised /\ call' = [t \in Task |-> Idle] /\ state' = "starting"
      /\ notify' = {} /\ UNCHANGED <<alerts, raised>>
  BY DEF TurnsInv, Restart
<1>2. \A t \in Task : call'[t] = Idle /\ call'[t].at = "idle" /\ call'[t].report = "none"
  BY <1>1, IdleType
<1>3. Alone' /\ Shape' /\ Fresh'
  BY <1>2 DEF Alone, Shape, Fresh
<1>4. Raised' /\ AlertsWereRaised'
  BY <1>1 DEF Raised, AlertsWereRaised
<1>5. Accounted'
  BY <1>1, <1>2 DEF Accounted, Informed
<1> QED
  BY <1>3, <1>4, <1>5 DEF TurnsInv

LEMMA StepInTurn ==
  ASSUME IInv, TurnsInv, OneCaller, [Next]_vars
  PROVE  TurnsInv'
<1>1. CASE UNCHANGED vars
  BY <1>1 DEF vars, params, shared, remote, TurnsInv, Alone, Shape, Fresh, Names, Raised,
     Informed, Accounted, OnItsWay, AlertsWereRaised
<1>2. ASSUME NEW t \in Task, Calls(t) PROVE TurnsInv'
  <2>1. ASSUME NEW p \in Param, NEW v \in Value,
               UpdateOnly(t, p, v) \/ UpdateAndReport(t, p, v)
               \/ UpdateAndNotify(t, p, v) \/ SetParams(t, p, v)
        PROVE  TurnsInv'
    BY <2>1, UpdateInTurn DEF UpdateOnly, UpdateAndReport, UpdateAndNotify, SetParams
  <2>2. ASSUME NEW p \in Param, Notify(t, p) \/ ReportUpdated(t)
        PROVE  TurnsInv'
    BY <2>2, NotifyInTurn
  <2> QED
    BY <1>2, <2>1, <2>2 DEF Calls
<1>3. ASSUME NEW t \in Task, Reporting(t) PROVE TurnsInv'
  BY <1>3, StoreInTurn, CheckInTurn, CollectInTurn, ClearInTurn, AddressInTurn,
     PublishInTurn DEF Reporting
<1>4. CASE ParamsInit \/ ParamsInitFails \/ Started
  BY <1>4, AgentInTurn
<1>5. CASE Restart
  BY <1>5, RestartInTurn
<1> QED
  BY <1>1, <1>2, <1>3, <1>4, <1>5 DEF Next

(* When the tasks take turns, no change is forgotten: once the agent has    *)
(* started, the cloud has the value of a parameter, or the parameter is     *)
(* flagged, in a report under way, or in one that failed; and the phone is  *)
(* notified of nothing but what the application asked for                   *)
(* (esp_rmaker_report_param_internal).  Tasks that do not take turns share  *)
(* the buffer and the topic, and both can go wrong.                         *)
THEOREM TurnsReportTruly == OneCaller => (Spec => []ReportsAreTrue)
<1> SUFFICES ASSUME OneCaller PROVE Spec => []ReportsAreTrue
  OBVIOUS
<1>1. Init => IInv /\ TurnsInv
  BY InitIInv, InitInTurn
<1>2. IInv /\ TurnsInv /\ [Next]_vars => (IInv /\ TurnsInv)'
  BY StepIInv, StepInTurn
<1>3. IInv /\ TurnsInv => ReportsAreTrue
  BY DEF IInv, TurnsInv, ReportsAreTrue, NothingForgotten, Accounted, Informed
<1> QED
  BY <1>1, <1>2, <1>3, PTL DEF Spec
=============================================================================
