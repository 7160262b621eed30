--------------------------- MODULE MqttBudgetMeter ---------------------------
(***************************************************************************)
(* MqttBudget with three counters that the code does not keep: how many    *)
(* messages left the node, how much budget it was ever granted, and how    *)
(* many times the budget was bypassed.  They only watch: every step of     *)
(* MeteredSpec is a step of MqttBudget, cut off at named bounds.           *)
(***************************************************************************)
EXTENDS MqttBudget

CONSTANTS SentBound,       (* messages watched                              *)
          GrantBound,      (* budget granted, from which no revival is let  *)
                           (* start                                         *)
          UnmeteredBound   (* bypasses watched                              *)

ASSUME MeterAssumption ==
    SentBound \in Nat /\ GrantBound \in Nat /\ UnmeteredBound \in Nat

VARIABLES sent,       (* messages the transport accepted                     *)
          granted,    (* DefaultBudget plus what the revivals added          *)
          unmetered   (* checks passed and charges skipped without the mutex *)

meter == <<sent, granted, unmetered>>

MeteredInit == Init /\ sent = 0 /\ granted = DefaultBudget /\ unmetered = 0

Metered(p) ==
    \/ (TakeForCheck(p) \/ ReadAndGive(p) \/ SendFailed(p)
        \/ TakeForCharge(p) \/ DecreaseAndGive(p)) /\ UNCHANGED meter
    \/ /\ PassUnchecked(p) \/ SkipCharge(p)
       /\ unmetered < UnmeteredBound
       /\ unmetered' = unmetered + 1
       /\ UNCHANGED <<sent, granted>>
    \/ /\ Sent(p)
       /\ sent < SentBound
       /\ sent' = sent + 1
       /\ UNCHANGED <<granted, unmetered>>

MeteredNext ==
    \/ \E p \in Publisher : Metered(p)
    \/ granted < GrantBound /\ TakeForRevive /\ UNCHANGED meter
    \/ /\ IncreaseAndGive
       /\ granted' = granted + (budget' - budget)
       /\ UNCHANGED <<sent, unmetered>>
    \/ (MqttInit \/ MqttConnect \/ MqttDisconnect \/ MqttDeinit)
       /\ UNCHANGED meter

MeteredSpec == MeteredInit /\ [][MeteredNext]_<<vars, meter>>

(* A critical section is a few instructions, so it ends.  The mutex wakes   *)
(* its highest-priority waiter, so the timer task, which waits for it at    *)
(* every expiry, is not passed over for ever.                               *)
Fairness ==
    /\ \A p \in Publisher : /\ WF_<<vars, meter>>(Metered(p) /\ ReadAndGive(p))
                           /\ WF_<<vars, meter>>(Metered(p) /\ DecreaseAndGive(p))
    /\ SF_<<vars, meter>>(MeteredNext /\ TakeForRevive)
    /\ WF_<<vars, meter>>(MeteredNext /\ IncreaseAndGive)

FairMeteredSpec == MeteredSpec /\ Fairness

-----------------------------------------------------------------------------
(* The rate the budget really enforces.  Check, publish and charge are not  *)
(* one atomic step, so every publisher can be past the check when the last  *)
(* unit is spent: one unit of budget may carry one message per publishing   *)
(* task, and each use of the mutex that was given up on one more.           *)
RateBound == sent <= Cardinality(Publisher) * granted + unmetered

(* A connected node whose budget has run out gets some back as long as its  *)
(* timer runs and the revivals counted stay below their bound (Kconfig:     *)
(* "increase based on ESP_RMAKER_MQTT_BUDGET_REVIVE_PERIOD").  When init or *)
(* start could not get a timer, nobody is told and nothing comes back.      *)
BudgetRevives ==
    (agent = "connected" /\ budget = 0 /\ timer = "running")
        ~> (budget > 0 \/ timer # "running" \/ granted >= GrantBound)

-----------------------------------------------------------------------------
(* Why RateBound is kept.  With an empty budget the publishers still past   *)
(* the check are the only ones that can send; with a budget left, whoever   *)
(* has sent and not yet paid is about to give a unit back.                  *)
Sending == {p \in Publisher : pc[p] = "sending"}
Owing   == {p \in Publisher : pc[p] \in {"charging", "paying"}}

MeterTypeOK == sent \in Nat /\ granted \in Nat /\ unmetered \in Nat

Balance ==
    /\ budget = 0 => sent + Cardinality(Sending)
                        <= Cardinality(Publisher) * granted + unmetered
    /\ budget > 0 => sent - Cardinality(Owing)
                        <= Cardinality(Publisher) * (granted - budget) + unmetered
=============================================================================
