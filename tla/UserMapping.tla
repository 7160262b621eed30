----------------------------- MODULE UserMapping -----------------------------
(***************************************************************************)
(* User-node mapping (core/esp_rmaker_user_mapping.c): one request at a    *)
(* time, made by the provisioning task, the event loop (a factory reset)   *)
(* or the work queue (an agent that finds no mapping), published by the    *)
(* work queue once the agent has reported its configuration, and confirmed *)
(* by the broker's acknowledgement of that very message.                   *)
(*                                                                         *)
(* esp_rmaker_user_mapping_lock is held across each of the three code      *)
(* paths, so the steps of one holder are visible to tasks that do not take *)
(* the lock: the timer task, the config-reported handler and the agent.    *)
(*                                                                         *)
(* Left out: allocation failures, and esp_rmaker_user_node_mapping_deinit, *)
(* which nothing under src/ calls.                                         *)
(***************************************************************************)
EXTENDS RmakerPlatform

CONSTANTS User,                  (* user ids an app can send                 *)
          ResetId,               (* USER_RESET_ID, the dummy "esp-rmaker"    *)
          NoUser,                (* no id in NVS or at the cloud             *)
          UserIdCheck,           (* CONFIG_ESP_RMAKER_USER_ID_CHECK          *)
          FactoryResetReporting, (* CONFIG_ESP_RMAKER_FACTORY_RESET_REPORTING*)
          MaxRetries,            (* USER_MAPPING_MAX_RETRIES                 *)
          PublishMayFail         (* may esp_rmaker_mqtt_publish fail?        *)

(* Kconfig: USER_ID_CHECK selects FACTORY_RESET_REPORTING.                  *)
ASSUME MappingAssumption ==
    /\ ResetId \notin User /\ NoUser \notin User \cup {ResetId}
    /\ UserIdCheck \in BOOLEAN /\ FactoryResetReporting \in BOOLEAN
    /\ UserIdCheck => FactoryResetReporting
    /\ MaxRetries \in Nat
    /\ PublishMayFail \in BOOLEAN

Id == User \cup {ResetId}

VARIABLES mapping,    (* rmaker_user_mapping_state                           *)
          data,       (* rmaker_user_mapping_data                            *)
          nvs,        (* the user id stored in NVS                           *)
          lock,       (* who holds esp_rmaker_user_mapping_lock              *)
          section,    (* what the holder does next                           *)
          retry,      (* g_user_mapping_retry_state                          *)
          timer,      (* where the timer task stands in the retry callback   *)
          starts,     (* requests made since boot                            *)
          outbox,     (* mapping messages on their way to the cloud          *)
          published,  (* mapping messages accepted by the client since boot  *)
          cloud       (* the id the cloud holds                              *)

request  == <<mapping, data, nvs, lock, section, starts>>
delivery == <<outbox, published, cloud>>
mvars    == <<request, retry, timer, delivery>>

NoData == [user |-> NoUser, req |-> 0, msg |-> 0, sent |-> FALSE]
Idle   == [count |-> 0, inProgress |-> FALSE, armed |-> FALSE]

Waiting == data # NoData /\ ~data.sent

MappingState == {"reset", "started", "req_sent", "done"}
Section      == {"none", "queue", "register", "publish", "record"}
Caller       == {"prov", "event", "work"}
Request      == [user : Id \cup {NoUser}, req : Nat, msg : Nat, sent : BOOLEAN]
RetryState   == [count : 0..MaxRetries, inProgress : BOOLEAN, armed : BOOLEAN]
Message      == [id : Nat, req : Nat, user : Id]

MappingTypeOK ==
    /\ mapping \in MappingState
    /\ data \in Request
    /\ nvs \in Id \cup {NoUser}
    /\ lock \in Caller \cup {"free"}
    /\ section \in Section
    /\ retry \in RetryState
    /\ timer \in {"idle", "queueing"}
    /\ starts \in Nat
    /\ outbox \in Seq(Message)
    /\ published \in Nat
    /\ cloud \in Id \cup {NoUser}

(* esp_rmaker_user_node_mapping_init, over static data that starts zeroed.  *)
StateAtBoot(stored) ==
    IF UserIdCheck /\ stored = NoUser THEN "reset" ELSE "done"

MappingInit ==
    /\ nvs = NoUser
    /\ mapping = StateAtBoot(NoUser)
    /\ data = NoData
    /\ lock = "free" /\ section = "none"
    /\ retry = Idle /\ timer = "idle"
    /\ starts = 0 /\ published = 0
    /\ outbox = <<>>
    /\ cloud = NoUser

(* What a power cycle does: only NVS and the cloud remember.                *)
MappingReboot ==
    /\ mapping' = StateAtBoot(nvs)
    /\ data' = NoData
    /\ lock' = "free" /\ section' = "none"
    /\ retry' = Idle /\ timer' = "idle"
    /\ starts' = 0 /\ published' = 0
    /\ outbox' = <<>>
    /\ UNCHANGED <<nvs, cloud>>

-----------------------------------------------------------------------------
(* user_mapping_schedule_retry and user_mapping_retry_cleanup, one step     *)
(* each: the new retry state.                                               *)
Scheduled(r) ==
    IF r.count + 1 > MaxRetries THEN Idle
    ELSE IF r.inProgress THEN [r EXCEPT !.count = @ + 1]
    ELSE [count |-> r.count + 1, inProgress |-> TRUE, armed |-> TRUE]

(* Queue the mapping task, or schedule a retry if it cannot be queued.      *)
QueueOrRetry ==
    \/ AddTask("mapping") /\ UNCHANGED retry
    \/ Refused /\ retry' = Scheduled(retry)

-----------------------------------------------------------------------------
(* esp_rmaker_start_user_node_mapping, in two steps.  The first replaces    *)
(* the request, detects a reset, and reads the agent's state.               *)

(* esp_rmaker_user_mapping_detect_reset                                     *)
IsReset(u) == IF UserIdCheck THEN nvs # u
              ELSE FactoryResetReporting /\ u = ResetId

(* MUTANT of StartTake: any stored id stands for the one asked for.         *)
StartTakeKeepsId(c, u) ==
    /\ lock = "free"
    /\ lock' = c
    /\ data' = [user |-> u, req |-> starts + 1, msg |-> 0, sent |-> FALSE]
    /\ mapping' = IF UserIdCheck /\ nvs # NoUser THEN "done" ELSE "started"
    /\ nvs' = nvs
    /\ section' = IF agent \in {"config_reported", "started"}
                  THEN "queue" ELSE "register"
    /\ starts' = starts + 1
    /\ UNCHANGED <<delivery, retry, timer>>

StartTake(c, u) ==
    /\ lock = "free"
    /\ lock' = c
    /\ data' = [user |-> u, req |-> starts + 1, msg |-> 0, sent |-> FALSE]
    /\ mapping' = IF IsReset(u) THEN "started" ELSE "done"
    /\ nvs' = IF UserIdCheck /\ nvs # u THEN NoUser ELSE nvs
    /\ section' = IF agent \in {"config_reported", "started"}
                  THEN "queue" ELSE "register"
    /\ starts' = starts + 1
    /\ UNCHANGED <<delivery, retry, timer>>

StartFinish(c) ==
    /\ lock = c
    /\ \/ /\ section = "queue"
          /\ QueueOrRetry
          /\ UNCHANGED reg
       \/ /\ section = "register"
          /\ reg' = reg \cup {"mapping_config"}
          /\ UNCHANGED <<queue, refusals, retry>>
    /\ lock' = "free" /\ section' = "none"
    /\ UNCHANGED <<mapping, data, nvs, starts, delivery, timer>>

(* esp_rmaker_user_mapping_config_reported_event_handler                    *)
(* MUTANT of ConfigReportedHandler: nobody looks at what add_task returns.  *)
ConfigReportedNoRetry ==
    /\ Pending("config_reported")
    /\ IF "mapping_config" \in reg
       THEN reg' = reg \ {"mapping_config"} /\ TryTask("mapping") /\ UNCHANGED retry
       ELSE UNCHANGED <<reg, queue, refusals, retry>>
    /\ evq' = Tail(evq)
    /\ UNCHANGED <<request, timer, delivery>>

ConfigReportedHandler ==
    /\ Pending("config_reported")
    /\ IF "mapping_config" \in reg
       THEN reg' = reg \ {"mapping_config"} /\ QueueOrRetry
       ELSE UNCHANGED <<reg, queue, refusals, retry>>
    /\ evq' = Tail(evq)
    /\ UNCHANGED <<request, timer, delivery>>

(* user_mapping_retry_timer_cb, in the timer task and without the lock.     *)
RetryExpires ==
    /\ retry.armed /\ timer = "idle"
    /\ retry' = [retry EXCEPT !.inProgress = FALSE, !.armed = FALSE]
    /\ timer' = "queueing"
    /\ UNCHANGED <<queue, refusals, request, delivery>>

(* MUTANT of RetryQueues: one retry is all there is.                        *)
RetryQueuesOnce ==
    /\ timer = "queueing"
    /\ timer' = "idle"
    /\ TryTask("mapping") /\ retry' = Idle
    /\ UNCHANGED <<request, delivery>>

RetryQueues ==
    /\ timer = "queueing"
    /\ timer' = "idle"
    /\ \/ AddTask("mapping") /\ retry' = Idle
       \/ Refused /\ retry' = Scheduled(retry)
    /\ UNCHANGED <<request, delivery>>

-----------------------------------------------------------------------------
(* esp_rmaker_user_mapping_cb, in the work queue: take the lock and leave   *)
(* if there is nothing to send; publish; note what was published.  The      *)
(* acknowledgement can be on its way before the last step.                  *)

MappingTaskSkips ==
    /\ Running("mapping")
    /\ lock = "free" /\ ~Waiting
    /\ queue' = Tail(queue)
    /\ UNCHANGED <<work, reg, refusals, mvars>>

(* MUTANT of MappingTaskStarts: publishes whatever was already sent.        *)
MappingTaskResends ==
    /\ Running("mapping")
    /\ lock = "free" /\ data # NoData
    /\ queue' = Tail(queue)
    /\ work' = "mapping"
    /\ reg' = reg \cup {"mapping_puback"}
    /\ lock' = "work" /\ section' = "publish"
    /\ UNCHANGED <<refusals, mapping, data, nvs, starts, retry, timer, delivery>>

MappingTaskStarts ==
    /\ Running("mapping")
    /\ lock = "free" /\ Waiting
    /\ queue' = Tail(queue)
    /\ work' = "mapping"
    /\ reg' = reg \cup {"mapping_puback"}
    /\ lock' = "work" /\ section' = "publish"
    /\ UNCHANGED <<refusals, mapping, data, nvs, starts, retry, timer, delivery>>

MappingPublishes ==
    /\ work = "mapping" /\ section = "publish"
    /\ published' = published + 1
    /\ outbox' = Append(outbox, [id |-> published + 1, req |-> data.req,
                                  user |-> data.user])
    /\ section' = "record"
    /\ UNCHANGED <<queue, work, reg, refusals,
                   mapping, data, nvs, lock, starts, retry, timer, cloud>>

MappingPublishFails ==
    /\ PublishMayFail
    /\ work = "mapping" /\ section = "publish"
    /\ work' = "idle"
    /\ lock' = "free" /\ section' = "none"
    /\ UNCHANGED <<queue, reg, refusals,
                   mapping, data, nvs, starts, retry, timer, delivery>>

MappingTaskEnds ==
    /\ work = "mapping" /\ section = "record"
    /\ mapping' = "req_sent"
    /\ data' = [data EXCEPT !.msg = published, !.sent = TRUE]
    /\ work' = "idle"
    /\ lock' = "free" /\ section' = "none"
    /\ UNCHANGED <<queue, reg, refusals, nvs, starts, retry, timer, delivery>>

-----------------------------------------------------------------------------
(* The cloud takes the oldest message and the broker acknowledges it.       *)
CloudReceives ==
    /\ outbox # <<>>
    /\ cloud' = Head(outbox).user
    /\ outbox' = Tail(outbox)
    /\ Posted("puback", Head(outbox).id)
    /\ UNCHANGED <<request, retry, timer, published>>

(* The PUBACK branch of esp_rmaker_user_mapping_event_handler.              *)
PubackIgnored ==
    /\ Pending("puback")
    /\ \/ "mapping_puback" \notin reg
       \/ lock = "free" /\ data.msg # Head(evq).id
    /\ evq' = Tail(evq)
    /\ UNCHANGED <<reg, mvars>>

(* The handler waits 5 s for a lock that a publish holds, and then drops    *)
(* the acknowledgement: only when publishing can block, as it can fail.     *)
PubackTimesOut ==
    /\ PublishMayFail
    /\ Pending("puback") /\ "mapping_puback" \in reg
    /\ lock = "work" /\ section = "publish"
    /\ evq' = Tail(evq)
    /\ UNCHANGED <<reg, mvars>>

(* MUTANT of PubackAccepted: takes any acknowledgement for its own.         *)
PubackOfAnyMessage ==
    /\ Pending("puback") /\ "mapping_puback" \in reg
    /\ lock = "free" /\ data # NoData
    /\ mapping' = IF data.user = ResetId THEN "reset" ELSE "done"
    /\ evq' = Append(Tail(evq), Event(IF data.user = ResetId THEN "mapping_reset"
                                                             ELSE "mapping_done", 0))
    /\ nvs' = IF UserIdCheck THEN data.user ELSE nvs
    /\ data' = NoData
    /\ reg' = reg \ {"mapping_puback"}
    /\ UNCHANGED <<lock, section, starts, retry, timer, delivery>>

(* The event posted for the mapping reaches the loop behind what is there.  *)
PubackAccepted ==
    /\ Pending("puback") /\ "mapping_puback" \in reg
    /\ lock = "free" /\ data # NoData /\ data.msg = Head(evq).id
    /\ mapping' = IF data.user = ResetId THEN "reset" ELSE "done"
    /\ evq' = Append(Tail(evq), Event(IF data.user = ResetId THEN "mapping_reset"
                                                             ELSE "mapping_done", 0))
    /\ nvs' = IF UserIdCheck THEN data.user ELSE nvs
    /\ data' = NoData
    /\ reg' = reg \ {"mapping_puback"}
    /\ UNCHANGED <<lock, section, starts, retry, timer, delivery>>
=============================================================================
