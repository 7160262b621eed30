---------------------------- MODULE RmakerPlatform ----------------------------
(***************************************************************************)
(* What the agent and its components share, as the code under src/ uses    *)
(* it: the single-threaded RainMaker work queue, the ESP-IDF default event *)
(* loop, the set of registered event handlers, and the agent state that    *)
(* esp_rmaker_get_state returns to everybody.                              *)
(*                                                                         *)
(* The work queue and the event loop are FIFO, each drained by one task;   *)
(* a handler that unregisters itself misses every later event.  Adding to  *)
(* the work queue fails when other components have filled it: how often    *)
(* that happens is bounded by MaxRefusals.                                 *)
(***************************************************************************)
EXTENDS Naturals, Sequences

CONSTANTS MaxRefusals   (* how many additions to the work queue may fail     *)

ASSUME RefusalAssumption == MaxRefusals \in Nat

VARIABLES agent,      (* esp_rmaker_priv_data->state, "deinit" without it    *)
          queue,      (* tasks waiting in the work queue                     *)
          work,       (* where the task being run stands; "idle" if none     *)
          evq,        (* events posted and not yet dispatched                *)
          reg,        (* registered event handlers                           *)
          refusals    (* additions refused so far                            *)

platform == <<agent, queue, work, evq, reg, refusals>>

AgentState == {"deinit", "init_done", "starting", "config_reported",
               "started", "stop_requested"}

Task == {"rmaker", "post_connect", "params_init", "mapping"}

(* An acknowledgement carries the id of the message it is for; for every    *)
(* other event the id is 0.                                                 *)
Event(kind, id) == [kind |-> kind, id |-> id]

Posted(kind, id) == evq' = Append(evq, Event(kind, id))

(* The next event to dispatch.                                              *)
Pending(kind) == evq # <<>> /\ Head(evq).kind = kind

(* esp_rmaker_work_queue_add_task never waits.                              *)
AddTask(t) == queue' = Append(queue, t) /\ UNCHANGED refusals

Refused ==
    /\ refusals < MaxRefusals
    /\ refusals' = refusals + 1
    /\ UNCHANGED queue

(* An addition whose result nobody looks at.                                *)
TryTask(t) == AddTask(t) \/ Refused

(* The work queue task takes its next task.                                 *)
Running(t) == work = "idle" /\ queue # <<>> /\ Head(queue) = t
=============================================================================
