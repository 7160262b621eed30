------------------------------ MODULE MqttBudget ------------------------------
(***************************************************************************)
(* The MQTT publish budget (mqtt/esp_rmaker_mqtt_budget.c) together with   *)
(* the publish wrapper that consults it (mqtt/esp_rmaker_mqtt.c).          *)
(*                                                                         *)
(* Any task of the firmware may publish; the FreeRTOS timer task revives   *)
(* the budget; the task that runs the agent initialises, connects,         *)
(* disconnects and deinitialises MQTT.  All of them share one counter,     *)
(* mqtt_budget, guarded by one mutex that every user is willing to do      *)
(* without: when the mutex does not exist, or cannot be had within 500 ms, *)
(* the check lets the message pass and the charge is skipped.  A publish   *)
(* is three separate critical sections away from being atomic: check,      *)
(* publish, charge.                                                        *)
(*                                                                         *)
(* A critical section is two steps, taking the mutex and doing the work    *)
(* and giving it back, so that another task can time out in between.       *)
(***************************************************************************)
EXTENDS Integers, FiniteSets

CONSTANTS Publisher,        (* the tasks that call esp_rmaker_mqtt_publish    *)
          DefaultBudget,    (* CONFIG_ESP_RMAKER_MQTT_DEFAULT_BUDGET          *)
          MaxBudget,        (* CONFIG_ESP_RMAKER_MQTT_MAX_BUDGET              *)
          ReviveCount,      (* CONFIG_ESP_RMAKER_MQTT_BUDGET_REVIVE_COUNT     *)
          ResourcesMayFail  (* may FreeRTOS refuse a mutex, a timer or a      *)
                            (* timer command?                                 *)

(* The ranges Kconfig enforces, with the upper bounds left open: 2048 and   *)
(* 16 keep every sum inside the int16_t counter.                            *)
ASSUME BudgetAssumption ==
    /\ IsFiniteSet(Publisher)
    /\ MaxBudget \in Nat \ {0}
    /\ DefaultBudget \in 1..MaxBudget
    /\ ReviveCount \in Nat \ {0}
    /\ ResourcesMayFail \in BOOLEAN

VARIABLES budget,   (* mqtt_budget                                            *)
          lock,     (* mqtt_budget_lock: "null", "free" or "held"             *)
          timer,    (* mqtt_budget_timer: "null", "stopped" or "running"      *)
          pc,       (* where each publisher stands in esp_rmaker_mqtt_publish *)
          tpc,      (* where the timer task stands in the revive callback     *)
          agent     (* what the agent task has done with MQTT                 *)

vars == <<budget, lock, timer, pc, tpc, agent>>

-----------------------------------------------------------------------------
(* Publisher locations                                                      *)
(*   idle      not publishing                                               *)
(*   checking  holds the mutex in esp_rmaker_mqtt_is_budget_available       *)
(*   sending   past the check, before the transport's publish returns       *)
(*   charging  the message is out, the budget not yet decreased             *)
(*   paying    holds the mutex in esp_rmaker_mqtt_decrease_budget           *)
Location == {"idle", "checking", "sending", "charging", "paying"}

TypeOK ==
    /\ budget \in 0..MaxBudget
    /\ lock \in {"null", "free", "held"}
    /\ timer \in {"null", "stopped", "running"}
    /\ pc \in [Publisher -> Location]
    /\ tpc \in {"idle", "reviving"}
    /\ agent \in {"off", "ready", "connected"}

Init ==
    /\ budget = DefaultBudget
    /\ lock = "null"
    /\ timer = "null"
    /\ pc = [p \in Publisher |-> "idle"]
    /\ tpc = "idle"
    /\ agent = "off"

Goto(p, loc) == pc' = [pc EXCEPT ![p] = loc]

-----------------------------------------------------------------------------
(* esp_rmaker_mqtt_is_budget_available                                      *)

TakeForCheck(p) ==
    /\ pc[p] = "idle"
    /\ lock = "free"
    /\ lock' = "held"
    /\ Goto(p, "checking")
    /\ UNCHANGED <<budget, timer, tpc, agent>>

(* No mutex, or no mutex within SEMAPHORE_DELAY_MSEC: publish is allowed.   *)
PassUnchecked(p) ==
    /\ pc[p] = "idle"
    /\ lock \in {"null", "held"}
    /\ Goto(p, "sending")
    /\ UNCHANGED <<budget, lock, timer, tpc, agent>>

(* MUTANT of ReadAndGive: an early return that keeps the mutex.             *)
ReadAndMaybeGive(p) ==
    /\ pc[p] = "checking"
    /\ lock' = IF budget # 0 THEN "free" ELSE "held"
    /\ Goto(p, IF budget # 0 THEN "sending" ELSE "idle")
    /\ UNCHANGED <<budget, timer, tpc, agent>>

ReadAndGive(p) ==
    /\ pc[p] = "checking"
    /\ lock' = "free"
    /\ Goto(p, IF budget # 0 THEN "sending" ELSE "idle")
    /\ UNCHANGED <<budget, timer, tpc, agent>>

-----------------------------------------------------------------------------
(* The rest of esp_rmaker_mqtt_publish, and esp_rmaker_mqtt_decrease_budget *)

(* The transport accepts nothing before it exists; connected or not, it     *)
(* takes a message of QoS 1 to send when it can.                            *)
Sent(p) ==
    /\ pc[p] = "sending"
    /\ agent # "off"
    /\ Goto(p, "charging")
    /\ UNCHANGED <<budget, lock, timer, tpc, agent>>

SendFailed(p) ==
    /\ pc[p] = "sending"
    /\ Goto(p, "idle")
    /\ UNCHANGED <<budget, lock, timer, tpc, agent>>

(* MUTANT of TakeForCharge: pays without waiting for the mutex.             *)
ChargeAnyway(p) ==
    /\ pc[p] = "charging"
    /\ lock # "null"
    /\ lock' = "held"
    /\ Goto(p, "paying")
    /\ UNCHANGED <<budget, timer, tpc, agent>>

TakeForCharge(p) ==
    /\ pc[p] = "charging"
    /\ lock = "free"
    /\ lock' = "held"
    /\ Goto(p, "paying")
    /\ UNCHANGED <<budget, timer, tpc, agent>>

SkipCharge(p) ==
    /\ pc[p] = "charging"
    /\ lock \in {"null", "held"}
    /\ Goto(p, "idle")
    /\ UNCHANGED <<budget, lock, timer, tpc, agent>>

(* MUTANT of DecreaseAndGive: the decrease of the last unit is lost.        *)
DecreaseAboveOne(p) ==
    /\ pc[p] = "paying"
    /\ budget' = IF budget > 1 THEN budget - 1 ELSE budget
    /\ lock' = "free"
    /\ Goto(p, "idle")
    /\ UNCHANGED <<timer, tpc, agent>>

DecreaseAndGive(p) ==
    /\ pc[p] = "paying"
    /\ budget' = IF budget < 1 THEN 0 ELSE budget - 1
    /\ lock' = "free"
    /\ Goto(p, "idle")
    /\ UNCHANGED <<timer, tpc, agent>>

-----------------------------------------------------------------------------
(* esp_rmaker_mqtt_revive_budget, in the FreeRTOS timer task.  An expiry    *)
(* that finds no mutex, or times out waiting for it, changes nothing.       *)

TakeForRevive ==
    /\ timer = "running"
    /\ tpc = "idle"
    /\ lock = "free"
    /\ lock' = "held"
    /\ tpc' = "reviving"
    /\ UNCHANGED <<budget, timer, pc, agent>>

IncreaseAndGive ==
    /\ tpc = "reviving"
    /\ budget' = IF budget + ReviveCount > MaxBudget
                 THEN MaxBudget ELSE budget + ReviveCount
    /\ lock' = "free"
    /\ tpc' = "idle"
    /\ UNCHANGED <<timer, pc, agent>>

-----------------------------------------------------------------------------
(* The agent task.  A mutex that a task holds is never deleted here: what   *)
(* FreeRTOS does with one is undefined, see the hazard of that name.        *)

(* esp_rmaker_mqtt_init, when the transport's own init succeeds.  A failed  *)
(* budgeting init is only logged.  The budget keeps its value.              *)
MqttInit ==
    /\ agent = "off"
    /\ agent' = "ready"
    /\ \/ lock' = "free" /\ timer' = "stopped"
       \/ ResourcesMayFail /\ lock' = "null" /\ timer' = "null"
       \/ ResourcesMayFail /\ lock' = "free" /\ timer' = "null"
    /\ UNCHANGED <<budget, pc, tpc>>

(* esp_rmaker_mqtt_connect, when the transport accepts.  xTimerStart has no *)
(* time to wait for room in the timer queue and its result is ignored.      *)
MqttConnect ==
    /\ agent = "ready"
    /\ agent' = "connected"
    /\ \/ timer' = IF timer = "null" THEN "null" ELSE "running"
       \/ ResourcesMayFail /\ UNCHANGED timer
    /\ UNCHANGED <<budget, lock, pc, tpc>>

MqttDisconnect ==
    /\ agent = "connected"
    /\ agent' = "ready"
    /\ timer' = IF timer = "null" THEN "null" ELSE "stopped"
    /\ UNCHANGED <<budget, lock, pc, tpc>>

(* esp_rmaker_mqtt_deinit: from esp_rmaker_mqtt_reinit_with_new_params also *)
(* while connected.                                                         *)
MqttDeinit ==
    /\ agent \in {"ready", "connected"}
    /\ lock # "held"
    /\ agent' = "off"
    /\ lock' = "null"
    /\ timer' = "null"
    /\ UNCHANGED <<budget, pc, tpc>>

-----------------------------------------------------------------------------
Next ==
    \/ \E p \in Publisher :
        \/ TakeForCheck(p) \/ PassUnchecked(p) \/ ReadAndGive(p)
        \/ Sent(p) \/ SendFailed(p)
        \/ TakeForCharge(p) \/ SkipCharge(p) \/ DecreaseAndGive(p)
    \/ TakeForRevive \/ IncreaseAndGive
    \/ MqttInit \/ MqttConnect \/ MqttDisconnect \/ MqttDeinit

Spec == Init /\ [][Next]_vars

-----------------------------------------------------------------------------
(* Whoever is inside a critical section holds the mutex, and nobody else is *)
(* inside: the read-clamp-write of the counter is never interleaved.  A     *)
(* deinitialised MQTT has no mutex, so a new one never replaces a held one. *)
InSection == {p \in Publisher : pc[p] \in {"checking", "paying"}}

MutualExclusion ==
    /\ \A p, q \in InSection : p = q
    /\ InSection # {} => tpc = "idle"
    /\ lock = "held" <=> (InSection # {} \/ tpc = "reviving")
    /\ agent = "off" => lock = "null"
=============================================================================
