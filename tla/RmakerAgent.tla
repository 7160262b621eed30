----------------------------- MODULE RmakerAgent -----------------------------
(***************************************************************************)
(* The agent (core/esp_rmaker_core.c) from esp_rmaker_node_init to         *)
(* RMAKER_EVENT_STARTED, with user-node mapping running beside it.         *)
(*                                                                         *)
(* esp_rmaker_task waits for a network and asks for an MQTT connection.    *)
(* The event loop answers the connection by queueing the continuation,     *)
(* esp_rmaker_post_mqtt_connect_task, which reports the configuration and  *)
(* then, according to the mapping state, finishes, or waits for an event   *)
(* whose handler queues esp_rmaker_params_mqtt_init_cb.                    *)
(*                                                                         *)
(* Left out: claiming, time synchronisation, the network types and the     *)
(* services enabled on the way, all of which can only make esp_rmaker_task *)
(* fail or take longer.                                                    *)
(***************************************************************************)
EXTENDS UserMapping

CONSTANTS ProvisionFirst,  (* do requests come before the network is up?     *)
          StepsMayFail,    (* may a call the agent checks return an error?   *)
          UsersMayReset,   (* are Wi-Fi or factory resets asked for?         *)
          AppMayStop,      (* does the application stop and deinitialise?    *)
          MaxRequests,     (* requests and resets made in one boot           *)
          MaxDrops,        (* connections lost in one boot                   *)
          MaxReboots

ASSUME AgentAssumption ==
    /\ ProvisionFirst \in BOOLEAN /\ StepsMayFail \in BOOLEAN
    /\ UsersMayReset \in BOOLEAN /\ AppMayStop \in BOOLEAN
    /\ MaxRequests \in Nat /\ MaxDrops \in Nat /\ MaxReboots \in Nat

VARIABLES running,    (* has esp_rmaker_start started the work queue?        *)
          net,        (* the network: "down" or "up"                         *)
          link,       (* the MQTT client: "off", "connecting" or "up"        *)
          connected,  (* mqtt_connected, what the agent believes of link     *)
          drops, reboots

outside == <<running, net, link, connected, drops, reboots>>
vars    == <<platform, mvars, outside>>

Place   == {"idle", "wait_network", "choose", "recheck", "reset", "resetting",
            "await", "mapping"}
Kind    == {"connected", "disconnected", "config_reported", "mapping_done",
            "mapping_reset", "puback", "factory_reset", "wifi_reset"}
Handler == {"agent_connected", "agent_done", "agent_reset", "mapping_config",
            "mapping_puback"}
EventRecord == [kind : Kind, id : Nat]

TypeOK ==
    /\ agent \in AgentState
    /\ queue \in Seq(Task)
    /\ work \in Place
    /\ evq \in Seq(EventRecord)
    /\ reg \subseteq Handler
    /\ refusals \in 0..MaxRefusals
    /\ MappingTypeOK
    /\ running \in BOOLEAN /\ connected \in BOOLEAN
    /\ net \in {"down", "up"}
    /\ link \in {"off", "connecting", "up"}
    /\ drops \in 0..MaxDrops
    /\ reboots \in 0..MaxReboots

(* esp_rmaker_init, the initialised state after power-up: esp_rmaker_task   *)
(* is the first task of the work queue.                                     *)
Init ==
    /\ agent = "init_done"
    /\ queue = <<"rmaker">> /\ work = "idle"
    /\ evq = <<>> /\ reg = {}
    /\ running = FALSE /\ connected = FALSE
    /\ net = "down" /\ link = "off"
    /\ drops = 0 /\ reboots = 0 /\ refusals = 0
    /\ MappingInit

-----------------------------------------------------------------------------
(* The application.                                                         *)

(* esp_rmaker_start                                                         *)
Start ==
    /\ agent # "deinit" /\ ~running
    /\ running' = TRUE
    /\ UNCHANGED <<platform, mvars, net, link, connected, drops, reboots>>

(* esp_rmaker_stop *)
Stop ==
    /\ AppMayStop
    /\ agent # "deinit"
    /\ agent' = "stop_requested"
    /\ UNCHANGED <<queue, work, evq, reg, refusals, mvars, outside>>

(* esp_rmaker_node_deinit.  Deinitialising the work queue waits for the     *)
(* task being run and forgets the others.                                   *)
NodeDeinit ==
    /\ AppMayStop
    /\ agent = "init_done"
    /\ work = "idle"
    /\ agent' = "deinit"
    /\ queue' = <<>>
    /\ running' = FALSE
    /\ UNCHANGED <<work, evq, reg, refusals, mvars,
                   net, link, connected, drops, reboots>>

-----------------------------------------------------------------------------
(* The work queue task, running the agent's own tasks.                      *)

(* esp_rmaker_task up to its wait for a network.                            *)
RmakerTask ==
    /\ running /\ Running("rmaker")
    /\ queue' = Tail(queue)
    /\ agent' = "starting"
    /\ connected' = FALSE
    /\ reg' = reg \cup {"agent_connected"}
    /\ work' = "wait_network"
    /\ UNCHANGED <<evq, refusals, mvars, running, net, link, drops, reboots>>

(* The rest of esp_rmaker_task.                                             *)
RmakerTaskConnects ==
    /\ work = "wait_network" /\ net = "up"
    /\ work' = "idle"
    /\ link' = "connecting"
    /\ UNCHANGED <<agent, queue, evq, reg, refusals, mvars,
                   running, net, connected, drops, reboots>>

RmakerTaskFails ==
    /\ StepsMayFail
    /\ work = "wait_network"
    /\ work' = "idle"
    /\ agent' = "init_done"
    /\ UNCHANGED <<queue, evq, reg, refusals, mvars, outside>>

(* post_mqtt_end, on an error in esp_rmaker_post_mqtt_connect_task.         *)
PostConnectFails ==
    /\ StepsMayFail
    /\ \/ running /\ Running("post_connect") /\ queue' = Tail(queue)
       \/ work = "choose" /\ mapping = "done" /\ UNCHANGED queue
    /\ work' = "idle"
    /\ link' = IF connected THEN "off" ELSE link
    /\ agent' = "init_done"
    /\ UNCHANGED <<evq, reg, refusals, mvars,
                   running, net, connected, drops, reboots>>

(* esp_rmaker_post_mqtt_connect_task: the configuration is reported.        *)
(* MUTANT of ReportConfig: the state is not set.                            *)
ReportConfigSilently ==
    /\ running /\ Running("post_connect")
    /\ queue' = Tail(queue)
    /\ Posted("config_reported", 0)
    /\ work' = "choose"
    /\ UNCHANGED <<agent, reg, refusals, mvars, outside>>

ReportConfig ==
    /\ running /\ Running("post_connect")
    /\ queue' = Tail(queue)
    /\ agent' = "config_reported"
    /\ Posted("config_reported", 0)
    /\ work' = "choose"
    /\ UNCHANGED <<reg, refusals, mvars, outside>>

(* The mapping state is read once to see whether it is done ...             *)
FinishIfMapped ==
    /\ work = "choose"
    /\ IF mapping = "done" THEN agent' = "started" /\ work' = "idle"
                           ELSE work' = "recheck" /\ UNCHANGED agent
    /\ UNCHANGED <<queue, evq, reg, refusals, mvars, outside>>

(* ... and again to see whether a request was made.                         *)
AwaitMapping ==
    /\ work = "recheck"
    /\ IF mapping # "started" /\ FactoryResetReporting
       THEN work' = "reset" /\ UNCHANGED reg
       ELSE work' = "idle" /\ reg' = reg \cup {"agent_done"}
    /\ UNCHANGED <<agent, queue, evq, refusals, mvars, outside>>

(* esp_rmaker_reset_user_node_mapping, then the wait for its event.         *)
ResetMapping ==
    /\ \/ work = "reset" /\ StartTake("work", ResetId) /\ work' = "resetting"
          /\ UNCHANGED <<queue, reg, refusals>>
       \/ work = "resetting" /\ StartFinish("work") /\ work' = "await"
    /\ UNCHANGED <<agent, evq, outside>>

(* MUTANT of AwaitReset: waits for the event of the other branch.           *)
AwaitDoneAfterReset ==
    /\ work = "await"
    /\ work' = "idle"
    /\ reg' = reg \cup {"agent_done"}
    /\ UNCHANGED <<agent, queue, evq, refusals, mvars, outside>>

AwaitReset ==
    /\ work = "await"
    /\ work' = "idle"
    /\ reg' = reg \cup {"agent_reset"}
    /\ UNCHANGED <<agent, queue, evq, refusals, mvars, outside>>

(* esp_rmaker_params_mqtt_init_cb: started, whatever the subscription did.  *)
ParamsInit ==
    /\ running /\ Running("params_init")
    /\ queue' = Tail(queue)
    /\ agent' = "started"
    /\ UNCHANGED <<work, evq, reg, refusals, mvars, outside>>

MappingTask ==
    /\ running
    /\ \/ MappingTaskSkips \/ MappingTaskStarts
       \/ MappingPublishes \/ MappingPublishFails \/ MappingTaskEnds
    /\ UNCHANGED <<agent, evq, outside>>

WorkQueue ==
    \/ RmakerTask \/ RmakerTaskConnects \/ RmakerTaskFails
    \/ PostConnectFails \/ ReportConfig \/ FinishIfMapped \/ AwaitMapping
    \/ ResetMapping \/ AwaitReset \/ ParamsInit
    \/ MappingTask

-----------------------------------------------------------------------------
(* The event loop task, one event after the other.                          *)

(* esp_rmaker_mqtt_event_handler, and the MQTT branch of                    *)
(* esp_rmaker_event_handler, which does not look at what add_task returns.  *)
OnConnected ==
    /\ Pending("connected")
    /\ evq' = Tail(evq)
    /\ connected' = TRUE
    /\ IF "agent_connected" \in reg
       THEN reg' = reg \ {"agent_connected"} /\ TryTask("post_connect")
       ELSE UNCHANGED <<reg, queue, refusals>>
    /\ UNCHANGED <<agent, work, mvars, running, net, link, drops, reboots>>

OnDisconnected ==
    /\ Pending("disconnected")
    /\ evq' = Tail(evq)
    /\ connected' = FALSE
    /\ UNCHANGED <<agent, queue, work, reg, refusals, mvars,
                   running, net, link, drops, reboots>>

(* The mapping branch of esp_rmaker_event_handler.                          *)
OnMapping(kind, handler) ==
    /\ Pending(kind)
    /\ evq' = Tail(evq)
    /\ IF handler \in reg
       THEN reg' = reg \ {handler} /\ TryTask("params_init")
       ELSE UNCHANGED <<reg, queue, refusals>>
    /\ UNCHANGED <<agent, work, mvars, outside>>

OnConfigReported ==
    /\ ConfigReportedHandler
    /\ UNCHANGED <<agent, work, outside>>

OnPuback ==
    /\ PubackIgnored \/ PubackTimesOut \/ PubackAccepted
    /\ UNCHANGED <<agent, queue, work, refusals, outside>>

(* reset_event_handler                                                      *)
OnFactoryReset ==
    /\ \/ /\ Pending("factory_reset")
          /\ evq' = Tail(evq)
          /\ IF FactoryResetReporting THEN StartTake("event", ResetId)
                                      ELSE UNCHANGED mvars
    /\ UNCHANGED <<agent, queue, work, reg, refusals, outside>>

OnWifiReset ==
    /\ Pending("wifi_reset")
    /\ evq' = Tail(evq)
    /\ link' = "off"
    /\ UNCHANGED <<agent, queue, work, reg, refusals, mvars,
                   running, net, connected, drops, reboots>>

EventLoop ==
    \/ /\ lock # "event"
       /\ \/ OnConnected \/ OnDisconnected \/ OnConfigReported \/ OnPuback
          \/ OnMapping("mapping_done", "agent_done")
          \/ OnMapping("mapping_reset", "agent_reset")
          \/ OnFactoryReset \/ OnWifiReset
    \/ StartFinish("event") /\ UNCHANGED <<agent, work, evq, outside>>

-----------------------------------------------------------------------------
(* The provisioning task (or the console's): a user asks for the node.      *)
RequestMapping ==
    /\ agent # "deinit"
    /\ starts < MaxRequests
    /\ ProvisionFirst => net = "down"
    /\ \E u \in User : StartTake("prov", u)
    /\ UNCHANGED <<platform, outside>>

FinishRequest ==
    /\ StartFinish("prov")
    /\ UNCHANGED <<agent, work, evq, outside>>

(* The timer task.                                                          *)
TimerTask ==
    \/ RetryExpires /\ UNCHANGED <<platform, outside>>
    \/ RetryQueues /\ UNCHANGED <<agent, work, evq, reg, outside>>

(* The network, the broker, the cloud.                                      *)
NetworkUp ==
    /\ net = "down"
    /\ ProvisionFirst => lock # "prov"
    /\ net' = "up"
    /\ UNCHANGED <<platform, mvars, running, link, connected, drops, reboots>>

BrokerConnects ==
    /\ link = "connecting"
    /\ link' = "up"
    /\ Posted("connected", 0)
    /\ UNCHANGED <<agent, queue, work, reg, refusals, mvars,
                   running, net, connected, drops, reboots>>

LinkDrops ==
    /\ link = "up" /\ drops < MaxDrops
    /\ drops' = drops + 1
    /\ link' = "connecting"
    /\ Posted("disconnected", 0)
    /\ UNCHANGED <<agent, queue, work, reg, refusals, mvars,
                   running, net, connected, reboots>>

Delivery ==
    /\ link = "up"
    /\ CloudReceives
    /\ UNCHANGED <<agent, queue, work, reg, refusals, outside>>

(* The user resets Wi-Fi or the whole node; a restart follows, or not yet.  *)
UserResets ==
    /\ UsersMayReset
    /\ running /\ starts < MaxRequests
    /\ \A i \in 1..Len(evq) : evq[i].kind \notin {"factory_reset", "wifi_reset"}
    /\ Posted("factory_reset", 0) \/ Posted("wifi_reset", 0)
    /\ UNCHANGED <<agent, queue, work, reg, refusals, mvars, outside>>

Reboot ==
    /\ reboots < MaxReboots
    /\ reboots' = reboots + 1
    /\ MappingReboot
    /\ agent' = "init_done"
    /\ queue' = <<"rmaker">> /\ work' = "idle"
    /\ evq' = <<>> /\ reg' = {}
    /\ running' = FALSE /\ connected' = FALSE
    /\ net' = "down" /\ link' = "off"
    /\ drops' = 0
    /\ UNCHANGED refusals

Environment == NetworkUp \/ BrokerConnects \/ LinkDrops \/ Delivery
               \/ UserResets \/ Reboot

Next ==
    \/ Start \/ Stop \/ NodeDeinit
    \/ WorkQueue \/ EventLoop \/ TimerTask
    \/ RequestMapping \/ FinishRequest
    \/ Environment

(* Each task runs on, and the network, the broker and the cloud eventually  *)
(* answer.  Nobody has to make a request, to reset or to restart.           *)
Fairness ==
    /\ WF_vars(Start) /\ WF_vars(WorkQueue) /\ WF_vars(EventLoop)
    /\ WF_vars(TimerTask) /\ WF_vars(FinishRequest)
    /\ WF_vars(NetworkUp) /\ WF_vars(BrokerConnects) /\ WF_vars(Delivery)

Spec == Init /\ [][Next]_vars

FairSpec == Spec /\ Fairness

-----------------------------------------------------------------------------
(* With USER_ID_CHECK, the mapping is done only for the id that the cloud   *)
(* holds: a request replaced before its acknowledgement never confirms the  *)
(* request that replaced it (the message-id test of the PUBACK handler).    *)
Belief == IF UserIdCheck /\ mapping = "done" THEN nvs ELSE NoUser

DoneMeansCloudAgrees == UserIdCheck /\ mapping = "done" => nvs = cloud

(* The mapping is a refinement of Association, step by step.                *)
Association == INSTANCE Association WITH belief <- Belief
ImplementsAssociation == Association!Spec

(* However often the mapping task is queued, by requests, the               *)
(* config-reported handler and the retries, no request is published twice.  *)
PublishedOnce ==
    \A i, j \in 1..Len(outbox) : outbox[i].req = outbox[j].req => i = j

(* A request that waits to be sent always has somebody who will queue it:   *)
(* its task is queued, the timer task is at it or will be, or the           *)
(* config-reported handler is registered before that event is dispatched.   *)
SomebodyWillQueue ==
    \/ \E i \in 1..Len(queue) : queue[i] = "mapping"
    \/ retry.armed \/ timer = "queueing"
    \/ /\ "mapping_config" \in reg
       /\ \/ agent \in {"init_done", "starting"}
          \/ \E i \in 1..Len(evq) : evq[i].kind = "config_reported"

NotForgotten == Waiting /\ lock = "free" => SomebodyWillQueue

(* The agent becomes STARTED only after its configuration was reported,     *)
(* even when the application asked it to stop in between.                   *)
StartedAfterConfig ==
    [][agent' = "started" => agent \in {"config_reported", "started",
                                        "stop_requested"}]_vars

(* A request that somebody will queue, on an agent whose configuration is   *)
(* reported, gets published or makes way for a newer one, as long as the    *)
(* work queue refuses it fewer times than there are retries.                *)
RequestsArePublished ==
    \A n \in 1..MaxRequests :
        (/\ starts = n /\ Waiting /\ lock = "free" /\ SomebodyWillQueue
         /\ agent \in {"config_reported", "started"})
            ~> (starts # n \/ ~Waiting)

(* An initialised agent is eventually started, unless the work queue        *)
(* refuses one of the tasks on the way: nobody looks at the result.         *)
AgentStarts ==
    (agent = "init_done") ~> (agent = "started" \/ refusals > 0)
=============================================================================
