--------------------------- MODULE Connectivity ---------------------------
(***************************************************************************)
(* The connectivity service (core/esp_rmaker_connectivity.c), which tells  *)
(* the cloud whether the node is connected, and the group the node is in   *)
(* (core/esp_rmaker_groups.c, core/esp_rmaker_param.c), whose id is part   *)
(* of the topic of the last will.                                          *)
(*                                                                         *)
(* That the node is connected it reports itself, some seconds after each   *)
(* connection; that it is not, the broker says with the will that the MQTT *)
(* client gave it on connecting.  A new group needs a new connection for   *)
(* its will.  The client, the event loop, the timer task and the work      *)
(* queue interleave; so do the wills of earlier connections, which the     *)
(* broker publishes when it takes note that a connection is gone.          *)
(*                                                                         *)
(* A topic is given by the group in it.  The delay of the report is taken  *)
(* to be longer than a will is on its way, which is what it is there for.  *)
(***************************************************************************)
EXTENDS Naturals, Sequences

CONSTANTS Group,        (* ids of groups                                     *)
          TooLong,      (* those longer than MAX_GROUP_ID_LENGTH             *)
          NoGroup, Closed,
          QueueSize,    (* of the work queue                                 *)
          MaxWrites, MaxDrops, MaxReboots, MaxFaults

ASSUME ConnectivityAssumption ==
    /\ TooLong \subseteq Group /\ NoGroup \notin Group
    /\ Closed \notin Group \cup {NoGroup}
    /\ QueueSize \in Nat \ {0} /\ MaxWrites \in Nat /\ MaxDrops \in Nat
    /\ MaxReboots \in Nat /\ MaxFaults \in Nat

Topic == Group \cup {NoGroup}

VARIABLES
    stored,     (* the group id in NVS                                       *)
    active,     (* active_group_id                                           *)
    current,    (* connectivity_priv->current_group_id                       *)
    lwt,        (* s_lwt_data.topic                                          *)
    subs,       (* groups whose parameter topic is subscribed to             *)
    flag,       (* esp_rmaker_is_mqtt_connected()                            *)
    connectedTimer, (* is connected_timer running?                           *)
    init,       (* params_mqtt_init: "no", "queued", "done"                  *)
    queue,      (* the work queue: "init", "reconnect"                       *)
    will,       (* the will in the configuration of the MQTT client          *)
    up,         (* is the MQTT client connected?                             *)
    events,     (* its events that were not handled yet                      *)
    session,    (* the will of the session the broker holds, or Closed       *)
    late,       (* is a will of an earlier session on its way?               *)
    cloud,      (* what the cloud shows: "none", "on", "off"                 *)
    dropped,    (* did the latest report fail to be published?               *)
    stuck,      (* groups that could not be unsubscribed from                *)
    lapse,      (* what kept the latest change of group from the session:    *)
                (* "none", "offline", "error"                                *)
    writes, drops, reboots, faults

group   == <<stored, active, current, lwt, subs, stuck, lapse>>
node    == <<flag, connectedTimer, init>>
client  == <<will, up, events>>
broker  == <<session, late, cloud, dropped>>
bounds  == <<writes, drops, reboots, faults>>
nodeVars == <<group, node, queue, client, broker, bounds>>

\* esp_rmaker_connectivity_enable: the will of the group that was stored.
Enabled(id) == IF id \in TooLong THEN NoGroup ELSE id

NodeInit ==
    /\ stored \in Topic /\ current = Enabled(stored) /\ lwt = current
    /\ active = NoGroup /\ subs = {} /\ stuck = {}
    /\ lapse = "none"
    /\ flag = FALSE /\ connectedTimer = FALSE /\ init = "no" /\ queue = <<>>
    /\ will = lwt /\ up = FALSE /\ events = <<>>
    /\ session = Closed /\ late = FALSE /\ cloud = "none" /\ dropped = FALSE
    /\ writes = 0 /\ drops = 0 /\ reboots = 0 /\ faults = 0

\* A call may fail, a bounded number of times.
Fault == faults < MaxFaults /\ faults' = faults + 1

-----------------------------------------------------------------------------
(* The group.                                                              *)

\* esp_rmaker_connectivity_update_lwt, with q the work queue before it.
Unchanged(id, q) ==
    /\ id = current
    /\ queue' = q
    /\ UNCHANGED <<current, lwt, lapse>>

Rejected(id, q) ==
    /\ id # current /\ id \in TooLong
    /\ current' = NoGroup
    /\ lapse' = "error" /\ queue' = q
    /\ UNCHANGED lwt

Configured(id, q) ==
    /\ id # current /\ id \notin TooLong
    /\ current' = id /\ lwt' = id
    /\ \/ /\ ~flag /\ queue' = q
          /\ lapse' = "offline"
       \/ /\ flag /\ Len(q) < QueueSize /\ queue' = Append(q, "reconnect")
          /\ lapse' = "none"
       \/ /\ flag /\ Len(q) = QueueSize /\ queue' = q
          /\ lapse' = "error"

UpdateLwt(id, q) == Unchanged(id, q) \/ Rejected(id, q) \/ Configured(id, q)

(* MUTANT of Register: the topic of the old group stays subscribed to. *)
RegisterStaying(id, q) ==
    \E joined \in IF up \/ id = NoGroup THEN {TRUE} ELSE BOOLEAN :
        /\ stored' = id /\ active' = id /\ UNCHANGED stuck
        /\ subs' = IF joined THEN subs \cup ({id} \ {NoGroup}) ELSE subs
        /\ IF joined
           THEN UpdateLwt(id, q)
           ELSE /\ lapse' = "error" /\ queue' = q
                /\ UNCHANGED <<current, lwt>>

\* esp_rmaker_register_for_group_params.  Off line, either MQTT call may fail.
Register(id, q) ==
    \E left \in IF up THEN {TRUE} ELSE BOOLEAN,
       joined \in IF up \/ id = NoGroup THEN {TRUE} ELSE BOOLEAN :
        LET kept == IF left THEN subs \ {active} ELSE subs
        IN  /\ stored' = id /\ active' = id
            /\ stuck' = IF left THEN stuck \ {active} ELSE stuck \cup {active}
            /\ subs' = IF joined THEN kept \cup ({id} \ {NoGroup}) ELSE kept
            /\ IF joined
               THEN UpdateLwt(id, q)
               ELSE /\ lapse' = "error" /\ queue' = q
                    /\ UNCHANGED <<current, lwt>>

\* groups_write_cb: the group is written by the cloud or on the local network.
GroupWrite(id) ==
    /\ writes < MaxWrites /\ writes' = writes + 1
    /\ Register(id, queue)
    /\ UNCHANGED <<node, client, broker, drops, reboots, faults>>

-----------------------------------------------------------------------------
(* The MQTT client and the broker.                                         *)

\* The broker takes an earlier session over, and publishes its will.
Connect ==
    /\ ~up /\ up' = TRUE
    /\ events' = Append(events, "connected")
    /\ late' = (late \/ session # Closed)
    /\ session' = will
    /\ UNCHANGED <<group, node, queue, will, cloud, dropped, bounds>>

Drop ==
    /\ up /\ up' = FALSE
    /\ drops < MaxDrops /\ drops' = drops + 1
    /\ events' = Append(events, "disconnected")
    /\ UNCHANGED <<group, node, queue, will, broker, writes, reboots, faults>>

\* The broker takes note that the node is gone.
Expire ==
    /\ ~up /\ session # Closed
    /\ session' = Closed /\ late' = TRUE
    /\ UNCHANGED <<group, node, queue, client, cloud, dropped, bounds>>

PublishWill ==
    /\ late /\ late' = FALSE /\ cloud' = "off"
    /\ UNCHANGED <<group, node, queue, client, session, dropped, bounds>>

-----------------------------------------------------------------------------
(* The event loop, the timer and the work queue.                           *)

\* A report that is published, or that the MQTT budget or the client drops.
Report ==
    \/ up /\ cloud' = "on" /\ dropped' = FALSE /\ UNCHANGED faults
    \/ dropped' = TRUE /\ UNCHANGED cloud
       /\ IF up THEN Fault ELSE UNCHANGED faults

(* MUTANT of Connected: only the first connection is reported. *)
ConnectedFirst ==
    /\ Head(events) = "connected"
    /\ flag' = TRUE /\ connectedTimer' = (init = "no")
    /\ IF init = "no" /\ Len(queue) < QueueSize
       THEN init' = "queued" /\ queue' = Append(queue, "init")
       ELSE UNCHANGED <<init, queue>>
    /\ UNCHANGED <<cloud, dropped, faults>>

Connected ==
    /\ Head(events) = "connected"
    /\ flag' = TRUE /\ connectedTimer' = TRUE
    /\ IF init = "no" /\ Len(queue) < QueueSize
       THEN init' = "queued" /\ queue' = Append(queue, "init")
       ELSE UNCHANGED <<init, queue>>
    /\ UNCHANGED <<cloud, dropped, faults>>

Disconnected ==
    /\ Head(events) = "disconnected"
    /\ flag' = FALSE /\ connectedTimer' = FALSE
    /\ UNCHANGED <<init, queue, cloud, dropped, faults>>

HandleEvent ==
    /\ events # <<>> /\ events' = Tail(events)
    /\ Connected \/ Disconnected
    /\ UNCHANGED <<group, will, up, session, late, writes, drops, reboots>>

\* esp_rmaker_connectivity_report_connected
TimerFires ==
    /\ connectedTimer /\ ~late    \* the delay is longer than a will is on its way
    /\ connectedTimer' = FALSE
    /\ IF flag /\ init = "done" THEN Report
                                ELSE UNCHANGED <<cloud, dropped, faults>>
    /\ UNCHANGED <<group, flag, init, queue, client, session, late, writes,
                   drops, reboots>>

\* esp_rmaker_params_mqtt_init, which takes up the stored group again and
\* reports the state of the node.
ParamsInit ==
    /\ queue # <<>> /\ Head(queue) = "init"
    /\ up    \* see RmakerAgent for what follows when it fails
    /\ IF stored # NoGroup THEN Register(stored, Tail(queue))
                           ELSE queue' = Tail(queue) /\ UNCHANGED group
    /\ init' = "done"
    /\ Report
    /\ UNCHANGED <<flag, connectedTimer, client, session, late, writes, drops, reboots>>

(* MUTANT of ReconnectWork: the client comes back with its old will. *)
ReconnectWorkStale ==
    /\ queue # <<>> /\ Head(queue) = "reconnect"
    /\ queue' = Tail(queue)
    /\ UNCHANGED <<will, lapse, faults>> /\ up' = FALSE
    /\ events' = IF up THEN Append(events, "disconnected") ELSE events
    /\ session' = IF up THEN Closed ELSE session
    /\ late' \in IF up THEN {late, TRUE} ELSE {late}
    /\ UNCHANGED <<stored, active, current, lwt, subs, stuck, node,
                   cloud, dropped, writes, drops, reboots>>

\* esp_rmaker_connectivity_reconnect_work_cb.  The client leaves, so that its
\* will may be discarded, and comes back with the new one; or the call fails.
ReconnectWork ==
    /\ queue # <<>> /\ Head(queue) = "reconnect"
    /\ queue' = Tail(queue)
    /\ \/ /\ will' = lwt /\ up' = FALSE
          /\ events' = IF up THEN Append(events, "disconnected") ELSE events
          /\ session' = IF up THEN Closed ELSE session
          /\ late' \in IF up THEN {late, TRUE} ELSE {late}
          /\ UNCHANGED <<lapse, faults>>
       \/ /\ Fault /\ lapse' = "error"
          /\ UNCHANGED <<client, session, late>>
    /\ UNCHANGED <<stored, active, current, lwt, subs, stuck, node,
                   cloud, dropped, writes, drops, reboots>>

\* The node restarts, and the broker has not heard of it.
Reboot ==
    /\ reboots < MaxReboots /\ reboots' = reboots + 1
    /\ current' = Enabled(stored) /\ lwt' = current' /\ will' = lwt'
    /\ active' = NoGroup /\ subs' = {} /\ stuck' = {}
    /\ lapse' = "none"
    /\ flag' = FALSE /\ connectedTimer' = FALSE /\ init' = "no" /\ queue' = <<>>
    /\ up' = FALSE /\ events' = <<>> /\ dropped' = FALSE
    /\ UNCHANGED <<stored, session, late, cloud, writes, drops, faults>>

NodeNext ==
    \/ \E id \in Topic : GroupWrite(id)
    \/ Connect \/ Drop \/ Expire \/ PublishWill
    \/ HandleEvent \/ TimerFires \/ ParamsInit \/ ReconnectWork
    \/ Reboot

\* The tasks of the node run and its timer expires; the broker notes a
\* connection that is gone, and its messages arrive.  That the node gets a
\* connection again is not assumed.
NodeSpec ==
    /\ NodeInit /\ [][NodeNext]_nodeVars
    /\ WF_nodeVars(HandleEvent) /\ WF_nodeVars(TimerFires)
    /\ WF_nodeVars(ParamsInit) /\ WF_nodeVars(ReconnectWork)
    /\ WF_nodeVars(Expire) /\ WF_nodeVars(PublishWill)

-----------------------------------------------------------------------------
(* Properties.                                                             *)

\* Connected, and all that follows from it done.
AtRest == up /\ flag /\ events = <<>> /\ ~connectedTimer /\ queue = <<>> /\ init = "done"

(* Every variable keeps its type, and the work queue its size.               *)
NodeTypeOK ==
    /\ {stored, active, current, lwt, will} \subseteq Topic /\ subs \subseteq Group
    /\ stuck \subseteq Topic
    /\ {flag, connectedTimer, up, late, dropped} \subseteq BOOLEAN
    /\ init \in {"no", "queued", "done"}
    /\ queue \in Seq({"init", "reconnect"}) /\ Len(queue) <= QueueSize
    /\ events \in Seq({"connected", "disconnected"})
    /\ session \in Topic \cup {Closed} /\ cloud \in {"none", "on", "off"}
    /\ lapse \in {"none", "offline", "error"}

(* Once the report is out, the cloud shows the node as connected and no will *)
(* of an earlier session can make it show the contrary, in whatever order    *)
(* reboots, reconnections and wills came.  A report that was not published   *)
(* is not repeated.                                                          *)
ShownAsConnected == AtRest /\ ~dropped => cloud = "on" /\ ~late

(* At rest, the will that the broker holds is for the topic of the group the *)
(* node is in, unless the group was changed off line, or a call failed.      *)
WillIsOfGroup == AtRest /\ lapse = "none" => session = active

(* The group that the node uses is the one a restart would use, and it is    *)
(* subscribed to this group, unless a call failed, and to no other but those *)
(* it could not leave off line.                                              *)
OneGroup ==
    init = "done" =>
        /\ active = stored
        /\ active \in subs \cup {NoGroup} \/ lapse = "error"
        /\ subs \subseteq {active} \cup stuck

(* A node that is connected is shown so in the end, unless it is lost again  *)
(* or its report was dropped.                                                *)
ConnectionIsShown == up ~> (cloud = "on" \/ ~up \/ dropped)

(* The types hold, and the group is one in NVS, in RAM and in what the node  *)
(* is subscribed to.                                                         *)
GroupIsOne == NodeTypeOK /\ OneGroup

(* What the broker has of a node at rest, its state and its will, is right.  *)
BrokerIsRight == ShownAsConnected /\ WillIsOfGroup
=============================================================================
