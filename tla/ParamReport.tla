----------------------------- MODULE ParamReport -----------------------------
(***************************************************************************)
(* Parameters and their reports to the cloud (core/esp_rmaker_param.c).    *)
(*                                                                         *)
(* Any task may update a parameter, report all that changed, or notify.    *)
(* A report collects the flagged parameters in a buffer, clears the flags  *)
(* in a second pass, writes the topic and publishes; buffer and topic are  *)
(* static and shared, and nothing is locked.  The agent's task reports all *)
(* parameters once, when it has subscribed to the requests of the cloud,   *)
(* and then declares the agent started.                                    *)
(*                                                                         *)
(* One pass over the parameters is one step; time series, which use the    *)
(* buffer too, and its reallocation are left out.                          *)
(***************************************************************************)
EXTENDS Naturals, FiniteSets

CONSTANTS Param, Value,
          Default,      (* the value a parameter is created with             *)
          NoValue,      (* what the cloud and NVS know of a new node         *)
          NoParam,
          Persist,      (* parameters with PROP_FLAG_PERSIST                 *)
          Task, Agent,  (* the tasks that call, and the agent's              *)
          OneCaller,    (* do the tasks take turns, a call at a time?        *)
          MaxCalls, MaxFailures, MaxRestarts

ASSUME ParamAssumption ==
    /\ Default \in Value /\ NoValue \notin Value /\ NoParam \notin Param
    /\ Persist \subseteq Param /\ Agent \in Task /\ OneCaller \in BOOLEAN
    /\ MaxCalls \in Nat /\ MaxFailures \in Nat /\ MaxRestarts \in Nat

VARIABLES val,      (* param->val                                            *)
          change,   (* parameters with RMAKER_PARAM_FLAG_VALUE_CHANGE        *)
          notify,   (* parameters with RMAKER_PARAM_FLAG_VALUE_NOTIFY        *)
          stored,   (* NVS                                                   *)
          ready,    (* esp_rmaker_params_mqtt_init_done                      *)
          state,    (* the agent's: "starting", "started", or "aborted"      *)
          call,     (* what each task does                                   *)
          buf,      (* s_node_params_buf                                     *)
          topic,    (* publish_topic                                         *)
          cloud,    (* the values the cloud was told last                    *)
          alerts,   (* the notifications the cloud got                       *)
          raised,   (* the values esp_rmaker_param_notify was called for     *)
          lost,     (* parameters whose last report was not published        *)
          calls, failures, restarts

params  == <<val, change, notify, stored>>
shared  == <<buf, topic>>
remote  == <<cloud, alerts, raised, lost>>
bounds  == <<calls, failures, restarts>>
vars    == <<params, ready, state, call, shared, remote, bounds>>

(* A report is of the changed parameters, those to notify, or all.          *)
Report == {"change", "notify", "all"}
Place  == {"idle", "store", "check", "collect", "clear", "address", "publish", "finish"}
Call   == [at : Place, report : Report \cup {"none"}, checked : BOOLEAN,
           param : Param \cup {NoParam}]
Idle   == [at |-> "idle", report |-> "none", checked |-> FALSE, param |-> NoParam]

TypeOK ==
    /\ val \in [Param -> Value]
    /\ change \subseteq Param /\ notify \subseteq Param /\ lost \subseteq Param
    /\ stored \in [Param -> Value \cup {NoValue}]
    /\ ready \in BOOLEAN
    /\ state \in {"starting", "started", "aborted"}
    /\ call \in [Task -> Call]
    /\ buf \subseteq (Param \X Value)
    /\ topic \in Report
    /\ cloud \in [Param -> Value \cup {NoValue}]
    /\ alerts \subseteq (Param \X Value) /\ raised \subseteq (Param \X Value)
    /\ calls \in 0..MaxCalls /\ failures \in 0..MaxFailures
    /\ restarts \in 0..MaxRestarts

(* A persistent parameter takes its value from NVS, or leaves its own there. *)
Restored(p) == IF p \in Persist /\ stored[p] # NoValue THEN stored[p] ELSE Default

Init ==
    /\ val = [p \in Param |-> Default]
    /\ change = {} /\ notify = {}
    /\ stored = [p \in Param |-> IF p \in Persist THEN Default ELSE NoValue]
    /\ ready = FALSE /\ state = "starting"
    /\ call = [t \in Task |-> Idle]
    /\ buf = {} /\ topic = "all"
    /\ cloud = [p \in Param |-> NoValue]
    /\ alerts = {} /\ raised = {} /\ lost = {}
    /\ calls = 0 /\ failures = 0 /\ restarts = 0

May(t) ==
    /\ call[t].at = "idle"
    /\ OneCaller => \A u \in Task : call[u].at = "idle"

Goto(t, place) == call' = [call EXCEPT ![t] = IF place = "idle" THEN Idle
                                                ELSE [@ EXCEPT !.at = place]]

StartReport(t, report) ==
    call' = [call EXCEPT ![t] = [Idle EXCEPT !.at = "collect", !.report = report]]

-----------------------------------------------------------------------------
(* esp_rmaker_param_update, on its own or for one of the calls that go on   *)
(* to report once the agent has started (checked).                          *)
Update(t, p, v, report, checked) ==
    /\ May(t)
    /\ calls < MaxCalls /\ calls' = calls + 1
    /\ val' = [val EXCEPT ![p] = v]
    /\ change' = change \cup {p}
    /\ call' = [call EXCEPT ![t] = [at |-> "store", report |-> report,
                                    checked |-> checked, param |-> p]]
    /\ UNCHANGED <<notify, stored, ready, state, shared, remote, failures, restarts>>

UpdateOnly(t, p, v)      == Update(t, p, v, "none", FALSE)
UpdateAndReport(t, p, v) == Update(t, p, v, "change", TRUE)
UpdateAndNotify(t, p, v) == Update(t, p, v, "notify", TRUE)

(* A request of the cloud, a local client or a schedule: the device's       *)
(* callback updates, and all changes are reported whatever the state; those *)
(* of a command are left to its response, as UpdateOnly.                    *)
SetParams(t, p, v) == Update(t, p, v, "change", FALSE)

AfterStore(t) ==
    CASE call[t].report = "none" -> Goto(t, "idle")
      [] call[t].checked -> Goto(t, "check")
      [] OTHER -> StartReport(t, call[t].report)

(* MUTANT of Store: values are persisted once the agent has started.        *)
StoreWhenStarted(t) ==
    /\ call[t].at = "store"
    /\ stored' = IF call[t].param \in Persist /\ state = "started"
                 THEN [stored EXCEPT ![call[t].param] = val[call[t].param]]
                 ELSE stored
    /\ AfterStore(t)
    /\ UNCHANGED <<val, change, notify, ready, state, shared, remote, bounds>>

Store(t) ==
    /\ call[t].at = "store"
    /\ stored' = IF call[t].param \in Persist
                 THEN [stored EXCEPT ![call[t].param] = val[call[t].param]]
                 ELSE stored
    /\ AfterStore(t)
    /\ UNCHANGED <<val, change, notify, ready, state, shared, remote, bounds>>

Raise(p) ==
    /\ notify' = notify \cup {p}
    /\ change' = change \cup {p}
    /\ raised' = raised \cup {<<p, val[p]>>}

(* esp_rmaker_get_state, and the flags of esp_rmaker_param_notify.          *)
Check(t) ==
    /\ call[t].at = "check"
    /\ IF state = "started" THEN StartReport(t, call[t].report) ELSE Goto(t, "idle")
    /\ IF state = "started" /\ call[t].report = "notify"
       THEN Raise(call[t].param)
       ELSE UNCHANGED <<notify, change, raised>>
    /\ UNCHANGED <<val, stored, ready, state, shared, cloud, alerts, lost, bounds>>

(* The same two reports, asked for on their own and whatever the state.     *)
Notify(t, p) ==
    /\ May(t)
    /\ Raise(p)
    /\ calls < MaxCalls /\ calls' = calls + 1
    /\ StartReport(t, "notify")
    /\ UNCHANGED <<val, stored, ready, state, shared, cloud, alerts, lost, failures, restarts>>

ReportUpdated(t) ==
    /\ May(t)
    /\ calls < MaxCalls /\ calls' = calls + 1
    /\ StartReport(t, "change")
    /\ UNCHANGED <<params, ready, state, shared, remote, failures, restarts>>

-----------------------------------------------------------------------------
(* esp_rmaker_report_param_internal and esp_rmaker_report_node_state.       *)
Flagged(report) == CASE report = "change" -> change
                     [] report = "notify" -> notify
                     [] OTHER -> Param

Collect(t) ==
    /\ call[t].at = "collect"
    /\ buf' = {<<p, val[p]>> : p \in Flagged(call[t].report)}
    /\ Goto(t, IF call[t].report = "all" THEN "address" ELSE "clear")
    /\ UNCHANGED <<params, ready, state, topic, remote, bounds>>

(* MUTANT of Clear: a report clears both flags.                             *)
ClearBoth(t) ==
    /\ call[t].at = "clear"
    /\ change' = {} /\ notify' = {}
    /\ Goto(t, "address")
    /\ UNCHANGED <<val, stored, ready, state, shared, remote, bounds>>

Clear(t) ==
    /\ call[t].at = "clear"
    /\ IF call[t].report = "change"
       THEN change' = {} /\ UNCHANGED notify
       ELSE notify' = {} /\ UNCHANGED change
    /\ Goto(t, "address")
    /\ UNCHANGED <<val, stored, ready, state, shared, remote, bounds>>

(* MUTANT of NextReport: a notification is the last report of its call.     *)
NextReportNone(t) ==
    call' = [call EXCEPT ![t] = IF @.report = "all" THEN [@ EXCEPT !.at = "finish"] ELSE Idle]

(* A notification is followed by a report of the changes.                   *)
NextReport(t) ==
    call' = [call EXCEPT ![t] =
               CASE @.report = "notify" -> [@ EXCEPT !.at = "collect", !.report = "change"]
                 [] @.report = "all"    -> [@ EXCEPT !.at = "finish"]
                 [] OTHER               -> Idle]

Address(t) ==
    /\ call[t].at = "address"
    /\ IF buf = {}
       THEN NextReport(t) /\ UNCHANGED topic
       ELSE topic' = call[t].report /\ Goto(t, "publish")
    /\ UNCHANGED <<params, ready, state, buf, remote, bounds>>

Names == {pv[1] : pv \in buf}

Publish(t) ==
    /\ call[t].at = "publish"
    /\ ready
    /\ IF topic = "notify"
       THEN alerts' = alerts \cup buf /\ UNCHANGED <<cloud, lost>>
       ELSE /\ cloud' = [p \in Param |-> IF p \in Names
                                         THEN (CHOOSE pv \in buf : pv[1] = p)[2]
                                         ELSE cloud[p]]
            /\ lost' = lost \ Names
            /\ UNCHANGED alerts
    /\ NextReport(t)
    /\ UNCHANGED <<params, ready, state, shared, raised, bounds>>

(* The budget is used up or the client refuses, or requests could not be    *)
(* subscribed to.                                                           *)
PublishFails(t) ==
    /\ call[t].at = "publish"
    /\ IF ready THEN failures < MaxFailures /\ failures' = failures + 1
                ELSE UNCHANGED failures
    /\ lost' = lost \cup (IF topic = "notify" THEN {} ELSE Names)
    /\ NextReport(t)
    /\ UNCHANGED <<params, ready, state, shared, cloud, alerts, raised, calls, restarts>>

-----------------------------------------------------------------------------
(* esp_rmaker_params_mqtt_init in the agent's task.                         *)
ParamsInit ==
    /\ state = "starting" /\ ~ready /\ May(Agent)
    /\ ready' = TRUE
    /\ StartReport(Agent, "all")
    /\ UNCHANGED <<params, state, shared, remote, bounds>>

(* The subscription fails: one caller gives up, the other starts anyway.    *)
ParamsInitFails ==
    /\ state = "starting" /\ ~ready /\ May(Agent)
    /\ failures < MaxFailures /\ failures' = failures + 1
    /\ state' \in {"aborted", "started"}
    /\ UNCHANGED <<params, ready, call, shared, remote, calls, restarts>>

Started ==
    /\ call[Agent].at = "finish"
    /\ state' = "started"
    /\ call' = [call EXCEPT ![Agent] = Idle]
    /\ UNCHANGED <<params, ready, shared, remote, bounds>>

(* esp_rmaker_device_add_param restores what was stored.                    *)
Restart ==
    /\ restarts < MaxRestarts /\ restarts' = restarts + 1
    /\ val' = [p \in Param |-> Restored(p)]
    /\ change' = {} /\ notify' = {}
    /\ ready' = FALSE /\ state' = "starting"
    /\ call' = [t \in Task |-> Idle]
    /\ buf' = {} /\ topic' = "all"
    /\ lost' = {}
    /\ UNCHANGED <<stored, cloud, alerts, raised, calls, failures>>

-----------------------------------------------------------------------------
Reporting(t) == Store(t) \/ Check(t) \/ Collect(t) \/ Clear(t) \/ Address(t)
                \/ Publish(t) \/ PublishFails(t)

Calls(t) ==
    \E p \in Param, v \in Value :
        \/ UpdateOnly(t, p, v) \/ UpdateAndReport(t, p, v) \/ UpdateAndNotify(t, p, v)
        \/ SetParams(t, p, v) \/ Notify(t, p) \/ ReportUpdated(t)

Next ==
    \/ \E t \in Task : Calls(t) \/ Reporting(t)
    \/ ParamsInit \/ ParamsInitFails \/ Started
    \/ Restart

Spec == Init /\ [][Next]_vars

(* A task that is in a call runs on.                                        *)
Fairness == (\A t \in Task : WF_vars(Reporting(t))) /\ WF_vars(Started)

FairSpec == Spec /\ Fairness

-----------------------------------------------------------------------------
(* A value the cloud does not have is flagged, on its way, or was lost with *)
(* a report the caller did not look after: no change is ever forgotten.     *)
OnItsWay(p) ==
    /\ <<p, val[p]>> \in buf
    /\ \E t \in Task : /\ call[t].report = "change"
                       /\ call[t].at \in {"clear", "address", "publish"}

NothingForgotten ==
    state = "started" /\ ready =>
        \A p \in Param : cloud[p] = val[p] \/ p \in change \/ p \in lost \/ OnItsWay(p)

(* The phone is notified of nothing but what the application asked for.     *)
AlertsWereRaised == alerts \subseteq raised

(* A restart brings back the values of persistent parameters, unless it     *)
(* comes before they are stored.                                            *)
RestartKeeps ==
    [][restarts' # restarts =>
        \A p \in Persist : val'[p] = val[p]
                           \/ \E t \in Task : call[t].at = "store" /\ call[t].param = p]_vars

(* esp_rmaker_param_update_and_report of a started agent gets the value to  *)
(* the cloud, unless the publish fails or the node restarts.                *)
ReportsArrive ==
    \A p \in Param, t \in Task :
        (call[t].at = "check" /\ call[t].param = p /\ state = "started" /\ ready)
            ~> (cloud[p] = val[p] \/ p \in lost \/ state = "starting")

(* The types hold, no change is forgotten and no notification made up.       *)
ReportsAreTrue == TypeOK /\ NothingForgotten /\ AlertsWereRaised
=============================================================================
