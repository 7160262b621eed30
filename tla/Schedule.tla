------------------------------ MODULE Schedule ------------------------------
(***************************************************************************)
(* The schedule service (core/esp_rmaker_schedule.c) over the esp_schedule *)
(* component, which keeps a timer for each schedule that is enabled.       *)
(*                                                                         *)
(* The MQTT task handles the requests and stores what it reports (the      *)
(* parameter persists); the timer task queues a trigger, which carries the *)
(* index of the schedule and nothing else; the work queue runs the action  *)
(* and turns off a schedule that does not repeat.  Until the clock is set  *)
(* nothing is armed: a timer queues a look at the clock until it is, then  *)
(* the list is walked.  A reboot loses all but the stored parameter.       *)
(*                                                                         *)
(* The time of a schedule is abstracted to "none" (next_timestamp is 0),   *)
(* "ahead" and "past".  The list has no lock, and requests and work items  *)
(* interleave.                                                             *)
(***************************************************************************)
EXTENDS Naturals, FiniteSets, Sequences, SequencesExt, FiniteSetsExt

CONSTANTS Id,           (* ids of schedules                                  *)
          Absent,
          MaxSchedules,
          QueueSize,    (* of the work queue                                 *)
          MaxRequests, MaxReboots, MaxFullQueue

Kind  == {"once", "repeat"}
Time  == {"none", "ahead", "past"}
Entry == [index : 0 .. MaxRequests + Cardinality(Id), kind : Kind,
          enabled : BOOLEAN, ts : Time, armed : BOOLEAN]

ASSUME ScheduleAssumption ==
    /\ IsFiniteSet(Id) /\ Absent \notin Id \cup Entry
    /\ MaxSchedules \in Nat /\ QueueSize \in Nat \ {0}
    /\ MaxRequests \in Nat /\ MaxReboots \in Nat /\ MaxFullQueue \in Nat

VARIABLES
    list,       (* schedule_list by id; the order of the list is by index    *)
    nextIndex,  (* schedule_priv_data->index                                 *)
    sync,       (* time_sync_state: "none", "started", "done"                *)
    syncTimer,  (* is time_sync_timer running?                               *)
    clockSet,   (* esp_rmaker_time_check()                                   *)
    stored,     (* the parameter in NVS                                      *)
    op, opCopy, (* the MQTT task: "idle", "report", "store"; its JSON        *)
    queue,      (* the work items that wait                                 *)
    work,       (* "idle", "act", "expire", "walk", "report", "store"        *)
    item,       (* the index worked on, or the last one walked over          *)
    workCopy,   (* the JSON of the work queue                                *)
    credit,     (* how often a schedule was turned on, less the runs of it   *)
                (* as a one-time schedule                                    *)
    overrun,    (* did one ever run without having been turned on?           *)
    strayed,    (* did a trigger run a schedule other than its own?          *)
    raced,      (* did the two tasks ever report at the same time?           *)
    lost,       (* ids, and "sync", whose work item found the queue full     *)
    requests, reboots

ram     == <<list, nextIndex, sync, syncTimer>>
mqtt    == <<op, opCopy>>
worker  == <<queue, work, item, workCopy>>
history == <<credit, overrun, strayed, raced, lost>>
bounds  == <<requests, reboots>>
vars    == <<ram, clockSet, stored, mqtt, worker, history, bounds>>

\* Work items: the trigger of a schedule, which says no more than its index
\* (the id is for OwnTrigger), and a look at the clock.
Trigger(i) == [id |-> i, index |-> list[i].index]
Look       == [id |-> Absent, index |-> 0]

Listed  == {i \in Id : list[i] # Absent}
Total   == Cardinality(Listed)
\* esp_rmaker_schedule_get_schedule_from_index
At(index) == {i \in Listed : list[i].index = index}

NewSchedule(kind) ==
    [index |-> nextIndex, kind |-> kind, enabled |-> FALSE, ts |-> "none",
     armed |-> FALSE]

Init ==
    /\ list = [i \in Id |-> Absent] /\ nextIndex = 0
    /\ sync = "none" /\ syncTimer = FALSE /\ clockSet = FALSE
    /\ stored = list
    /\ op = "idle" /\ opCopy = list
    /\ queue = <<>> /\ work = "idle" /\ item = 0 /\ workCopy = list
    /\ credit = [i \in Id |-> 0] /\ overrun = FALSE
    /\ strayed = FALSE /\ raced = FALSE /\ lost = {}
    /\ requests = 0 /\ reboots = 0

-----------------------------------------------------------------------------
(* Enabling and disabling.                                                 *)

Expired(s) == s.kind = "once" /\ s.ts = "past"

\* esp_rmaker_schedule_operation_disable
Off(s) == [s EXCEPT !.enabled = FALSE, !.ts = "none", !.armed = FALSE]

\* esp_schedule_enable, which tells the time of a one-time schedule
Armed(s) == [s EXCEPT !.armed = TRUE,
                      !.ts = IF s.kind = "once" THEN "ahead" ELSE s.ts]

\* Whether operation_enable goes on to arm, in a given state of the time sync.
Known(state, isSet) == state = "done" \/ (state = "none" /\ isSet)

\* esp_rmaker_schedule_operation_enable: the schedule, ...
On(s, known) ==
    LET on == [s EXCEPT !.enabled = TRUE]
    IN  IF ~known THEN on ELSE IF Expired(s) THEN Off(s) ELSE Armed(on)

\* ... and the time sync, which the first schedule enabled starts.
SyncOnce ==
    IF sync # "none" THEN UNCHANGED <<sync, syncTimer>>
    ELSE IF clockSet THEN sync' = "done" /\ UNCHANGED syncTimer
    ELSE sync' = "started" /\ syncTimer' = TRUE

-----------------------------------------------------------------------------
(* Requests: write_cb in the MQTT task, one schedule per request.          *)

\* Room to begin one; all of them end with a report.
Handle ==
    /\ requests < MaxRequests /\ requests' = requests + 1
    /\ op = "idle" /\ op' = "report"
    /\ UNCHANGED <<clockSet, stored, opCopy, worker, overrun, strayed, raced, lost,
                   reboots>>

(* MUTANT of OperationAdd: the index is the number of schedules. *)
OperationAddByCount(i, kind) ==
    /\ Handle
    /\ list[i] = Absent
    /\ UNCHANGED nextIndex
    /\ \/ /\ Total < MaxSchedules
          /\ list' = [list EXCEPT ![i] =
                         On([NewSchedule(kind) EXCEPT !.index = Total],
                            Known(sync, clockSet))]
          /\ credit' = [credit EXCEPT ![i] = @ + 1]
          /\ SyncOnce
       \/ /\ Total < MaxSchedules /\ UNCHANGED <<list, credit>>
          /\ SyncOnce
       \/ /\ Total >= MaxSchedules /\ UNCHANGED <<list, credit, sync, syncTimer>>

\* A schedule may find no room, or esp_schedule_create may fail.  Its index
\* is used up all the same, and it is enabled though it is in no list.
OperationAdd(i, kind) ==
    /\ Handle
    /\ list[i] = Absent
    /\ nextIndex' = nextIndex + 1
    /\ \/ /\ Total < MaxSchedules
          /\ list' = [list EXCEPT ![i] =
                         On(NewSchedule(kind), Known(sync, clockSet))]
          /\ credit' = [credit EXCEPT ![i] = @ + 1]
          /\ SyncOnce
       \/ /\ Total < MaxSchedules /\ UNCHANGED <<list, credit>>
          /\ SyncOnce
       \/ /\ Total >= MaxSchedules /\ UNCHANGED <<list, credit, sync, syncTimer>>

\* An edit brings a new trigger; what is enabled is disabled and enabled again.
OperationEdit(i, kind) ==
    /\ Handle
    /\ list[i] # Absent
    /\ LET new == [list[i] EXCEPT !.kind = kind, !.ts = "none"] IN
           IF new.enabled
           THEN /\ list' = [list EXCEPT ![i] = On(Off(new), Known(sync, clockSet))]
                /\ credit' = [credit EXCEPT ![i] = @ + 1]
                /\ SyncOnce
           ELSE /\ list' = [list EXCEPT ![i] = new]
                /\ UNCHANGED <<credit, sync, syncTimer>>
    /\ UNCHANGED nextIndex

OperationRemove(i) ==
    /\ Handle
    /\ list[i] # Absent
    /\ work = "idle"    \* see README: freeing what the work queue holds
    /\ list' = [list EXCEPT ![i] = Absent]
    /\ UNCHANGED <<nextIndex, sync, syncTimer, credit>>

OperationEnable(i) ==
    /\ Handle
    /\ list[i] # Absent
    /\ list' = [list EXCEPT ![i] = On(@, Known(sync, clockSet))]
    /\ credit' = [credit EXCEPT ![i] = @ + 1]
    /\ SyncOnce
    /\ UNCHANGED nextIndex

OperationDisable(i) ==
    /\ Handle
    /\ list[i] # Absent
    /\ list' = [list EXCEPT ![i] = Off(@)]
    /\ UNCHANGED <<nextIndex, sync, syncTimer, credit>>

\* esp_rmaker_schedule_report_params: the list is put into words, then the
\* parameter is updated, which stores it.
Report ==
    /\ \/ op = "report" /\ op' = "store" /\ opCopy' = list /\ UNCHANGED stored
       \/ op = "store" /\ op' = "idle" /\ stored' = opCopy
          /\ opCopy' = [i \in Id |-> Absent]
    /\ raced' = (raced \/ work = "store")
    /\ UNCHANGED <<ram, clockSet, worker, credit, overrun, strayed, lost, bounds>>

-----------------------------------------------------------------------------
(* The timer task.                                                         *)

\* esp_rmaker_work_queue_add_task, whose result no caller here looks at.
AddTask(w, name) ==
    \/ /\ Len(queue) < QueueSize /\ queue' = Append(queue, w)
       /\ UNCHANGED lost
    \/ /\ Len(queue) = QueueSize /\ Cardinality(lost) < MaxFullQueue
       /\ lost' = lost \cup {name} /\ UNCHANGED queue

\* A stored time that is ahead passes with the schedule's own.
Elapse(copy, i) ==
    IF copy[i] # Absent /\ copy[i].ts = "ahead"
    THEN [copy EXCEPT ![i].ts = "past"] ELSE copy

TimePasses(i) ==
    /\ stored' = Elapse(stored, i) /\ opCopy' = Elapse(opCopy, i)
    /\ workCopy' = Elapse(workCopy, i)

\* esp_schedule's timer: a repeating schedule is armed again.  It is given no
\* second trigger before the first was worked on.
Fire(i) ==
    /\ list[i] # Absent /\ list[i].armed
    /\ IF list[i].kind = "once"
       THEN /\ list' = [list EXCEPT ![i].ts = "past", ![i].armed = FALSE]
            /\ TimePasses(i)
       ELSE /\ ~Contains(queue, Trigger(i))
            /\ ~(work \in {"act", "expire"} /\ item = list[i].index)
            /\ UNCHANGED <<list, stored, opCopy, workCopy>>
    /\ AddTask(Trigger(i), i)
    /\ UNCHANGED <<nextIndex, sync, syncTimer, clockSet, op, work, item,
                   credit, overrun, strayed, raced, bounds>>

\* A time that was stored passes before the clock is set.
Miss(i) ==
    /\ list[i] # Absent /\ ~list[i].armed /\ list[i].ts = "ahead"
    /\ list' = [list EXCEPT ![i].ts = "past"]
    /\ TimePasses(i)
    /\ UNCHANGED <<nextIndex, sync, syncTimer, clockSet, op, queue, work, item,
                   history, bounds>>

SyncTimerFires ==
    /\ syncTimer /\ syncTimer' = FALSE
    /\ AddTask(Look, "sync")
    /\ UNCHANGED <<list, nextIndex, sync, clockSet, stored, mqtt, work, item,
                   workCopy, credit, overrun, strayed, raced, bounds>>

-----------------------------------------------------------------------------
(* The work queue.                                                         *)

Take ==
    /\ work = "idle" /\ queue # <<>>
    /\ queue' = Tail(queue)
    /\ UNCHANGED <<list, nextIndex, clockSet, stored, mqtt, workCopy, credit,
                   overrun, raced, lost, bounds>>

\* esp_rmaker_schedule_trigger_work_cb finds the schedule by its index.
TakeTrigger ==
    /\ Take /\ Head(queue) # Look
    /\ IF At(Head(queue).index) = {}
       THEN UNCHANGED <<work, item>>
       ELSE work' = "act" /\ item' = Head(queue).index
    /\ strayed' = (strayed \/ ~(At(Head(queue).index) \subseteq {Head(queue).id}))
    /\ UNCHANGED <<sync, syncTimer>>

(* MUTANT of TakeSync: the timer is not started again. *)
TakeSyncOnce ==
    /\ Take /\ Head(queue) = Look
    /\ IF clockSet THEN sync' = "done" /\ work' = "walk" /\ UNCHANGED item
                   ELSE UNCHANGED <<sync, work, item>>
    /\ UNCHANGED <<strayed, syncTimer>>

\* esp_rmaker_schedule_timesync_timer_work_cb
TakeSync ==
    /\ Take /\ Head(queue) = Look
    /\ IF clockSet
       THEN sync' = "done" /\ work' = "walk" /\ UNCHANGED <<syncTimer, item>>
       ELSE syncTimer' = TRUE /\ UNCHANGED <<sync, work, item>>
    /\ UNCHANGED strayed

\* The action runs, whatever has become of the schedule since its timer fired.
Act ==
    /\ work = "act" /\ work' = "expire"
    /\ \E i \in At(item) :
           IF list[i].kind = "repeat" THEN UNCHANGED <<credit, overrun>>
           ELSE IF credit[i] = 0 THEN overrun' = TRUE /\ UNCHANGED credit
           ELSE credit' = [credit EXCEPT ![i] = @ - 1] /\ UNCHANGED overrun
    /\ UNCHANGED <<ram, clockSet, stored, mqtt, queue, item, workCopy, strayed,
                   raced, lost, bounds>>

(* MUTANT of Expire: a schedule that ran stays on. *)
ExpireNever ==
    /\ work = "expire" /\ item' = 0 /\ work' = "idle"
    /\ UNCHANGED <<ram, clockSet, stored, mqtt, queue, workCopy, history, bounds>>

\* A schedule that does not repeat anymore is turned off, and reported.
Expire ==
    /\ work = "expire" /\ item' = 0
    /\ \E i \in At(item) :
           IF Expired(list[i])
           THEN list' = [list EXCEPT ![i] = Off(@)] /\ work' = "report"
           ELSE work' = "idle" /\ UNCHANGED list
    /\ UNCHANGED <<nextIndex, sync, syncTimer, clockSet, stored, mqtt, queue,
                   workCopy, history, bounds>>

\* The walk over the list once the clock is set; `item` counts the indexes
\* passed.  What it turns off it reports, what it arms it does not.
Walk ==
    /\ work = "walk"
    /\ \/ /\ \A i \in Listed : list[i].index < item
          /\ work' = "idle" /\ item' = 0
          /\ UNCHANGED <<list, stored, raced>>
       \/ \E next \in Listed :
             /\ item <= list[next].index
             /\ \A i \in Listed : item <= list[i].index => list[next].index <= list[i].index
             /\ item' = list[next].index + 1
             /\ IF list[next].enabled
                THEN /\ list' = [list EXCEPT ![next] = On(@, TRUE)]
                     /\ IF Expired(list[next])
                        THEN stored' = list' /\ raced' = (raced \/ op = "store")
                        ELSE UNCHANGED <<stored, raced>>
                ELSE UNCHANGED <<list, stored, raced>>
             /\ UNCHANGED work
    /\ UNCHANGED <<nextIndex, sync, syncTimer, clockSet, mqtt, queue, workCopy,
                   credit, overrun, strayed, lost, bounds>>

WorkReport ==
    /\ \/ work = "report" /\ work' = "store" /\ workCopy' = list
          /\ UNCHANGED stored
       \/ work = "store" /\ work' = "idle" /\ stored' = workCopy
          /\ workCopy' = [i \in Id |-> Absent]
    /\ raced' = (raced \/ op = "store")
    /\ UNCHANGED <<ram, clockSet, mqtt, queue, item, credit, overrun,
                   strayed, lost, bounds>>

-----------------------------------------------------------------------------
(* The surroundings.                                                       *)

SetClock ==
    /\ ~clockSet /\ clockSet' = TRUE
    /\ UNCHANGED <<ram, stored, mqtt, worker, history, bounds>>

(* MUTANT of Reboot: what is loaded is enabled, whatever its state was. *)
RebootEnabling ==
    /\ reboots < MaxReboots /\ reboots' = reboots + 1
    /\ LET kept == {i \in Id : stored[i] # Absent}
           rank(i) == Cardinality({j \in kept : stored[j].index < stored[i].index})
       IN  /\ clockSet' \in (IF clockSet THEN BOOLEAN ELSE {FALSE})
           /\ nextIndex' = Cardinality(kept)
           /\ sync' = IF kept = {} THEN "none" ELSE IF clockSet' THEN "done"
                                                   ELSE "started"
           /\ syncTimer' = (kept # {} /\ ~clockSet')
           /\ list' = [i \in Id |->
                  IF i \notin kept THEN Absent
                  ELSE On([stored[i] EXCEPT !.index = rank(i), !.armed = FALSE],
                          clockSet')]
           /\ credit' = [i \in Id |-> credit[i] + (IF i \in kept THEN 1 ELSE 0)]
    /\ op' = "idle" /\ opCopy' = [i \in Id |-> Absent]
    /\ queue' = <<>> /\ work' = "idle" /\ item' = 0
    /\ workCopy' = [i \in Id |-> Absent]
    /\ lost' = {}
    /\ UNCHANGED <<stored, overrun, strayed, raced, requests>>

\* The stored schedules are added again, in their order, each with the state
\* it had; a soft reset may keep the clock.  A schedule that is found expired
\* is turned off, but the report fails: esp_rmaker_schedule_enable has no
\* service yet to report it to.
Reboot ==
    /\ reboots < MaxReboots /\ reboots' = reboots + 1
    /\ LET kept == {i \in Id : stored[i] # Absent}
           rank(i) == Cardinality({j \in kept : stored[j].index < stored[i].index})
           on   == {i \in kept : stored[i].enabled}
       IN  /\ clockSet' \in (IF clockSet THEN BOOLEAN ELSE {FALSE})
           /\ nextIndex' = Cardinality(kept)
           /\ sync' = IF on = {} THEN "none" ELSE IF clockSet' THEN "done"
                                                 ELSE "started"
           /\ syncTimer' = (on # {} /\ ~clockSet')
           /\ list' = [i \in Id |->
                  IF i \notin kept THEN Absent
                  ELSE LET s == [stored[i] EXCEPT !.index = rank(i),
                                                  !.armed = FALSE]
                       IN  IF s.enabled THEN On(s, clockSet') ELSE s]
           /\ credit' = [i \in Id |-> IF i \in on /\ ~Expired(stored[i])
                                      THEN credit[i] + 1 ELSE credit[i]]
    /\ op' = "idle" /\ opCopy' = [i \in Id |-> Absent]
    /\ queue' = <<>> /\ work' = "idle" /\ item' = 0
    /\ workCopy' = [i \in Id |-> Absent]
    /\ lost' = {}
    /\ UNCHANGED <<stored, overrun, strayed, raced, requests>>

Request == \E i \in Id : \/ \E kind \in Kind : OperationAdd(i, kind) \/ OperationEdit(i, kind)
                         \/ OperationRemove(i) \/ OperationEnable(i)
                         \/ OperationDisable(i)
WorkQueue == TakeTrigger \/ TakeSync \/ Act \/ Expire \/ Walk \/ WorkReport

Next == \/ Request \/ Report
        \/ \E i \in Id : Fire(i) \/ Miss(i)
        \/ SyncTimerFires \/ WorkQueue
        \/ SetClock \/ Reboot

\* The tasks run, the timers expire, and the clock is set in the end.
Spec == Init /\ [][Next]_vars
             /\ WF_vars(Report) /\ WF_vars(WorkQueue) /\ WF_vars(SyncTimerFires)
             /\ WF_vars(SetClock) /\ \A i \in Id : WF_vars(Fire(i))

-----------------------------------------------------------------------------
(* Properties.                                                             *)

(* Every variable keeps its type, and the work queue its size.               *)
TypeOK ==
    /\ {list, stored, opCopy, workCopy} \subseteq [Id -> Entry \cup {Absent}]
    /\ nextIndex \in 0 .. MaxRequests + Cardinality(Id)
    /\ sync \in {"none", "started", "done"} /\ syncTimer \in BOOLEAN
    /\ clockSet \in BOOLEAN
    /\ op \in {"idle", "report", "store"}
    /\ work \in {"idle", "act", "expire", "walk", "report", "store"}
    /\ Len(queue) <= QueueSize /\ item \in 0 .. nextIndex
    /\ credit \in [Id -> 0 .. MaxRequests + MaxReboots]
    /\ {overrun, strayed, raced} \subseteq BOOLEAN /\ lost \subseteq Id \cup {"sync"}
    /\ requests \in 0 .. MaxRequests /\ reboots \in 0 .. MaxReboots

(* A trigger that waits in the work queue while its schedule is removed and  *)
(* others are added never runs the action of another schedule.               *)
OwnTrigger == ~strayed

(* No schedule that is enabled is forgotten: it is armed, or its trigger     *)
(* waits, or the clock is not set yet and the look at it, or the walk over   *)
(* the list, is still to come.  What a full work queue dropped is excepted.  *)
EnabledIsWatched ==
    \A i \in Listed : list[i].enabled =>
        \/ list[i].armed
        \/ Contains(queue, Trigger(i))
        \/ work \in {"act", "expire"} /\ item = list[i].index
        \/ sync = "started" /\ (syncTimer \/ Contains(queue, Look))
        \/ work = "walk" /\ list[i].index >= item
        \/ lost \cap {i, "sync"} # {}

(* At rest, the stored parameter has the schedules of the list, in the same  *)
(* state: a reboot loses none and turns none on or off.  The exception is a  *)
(* schedule that expired while the node was down, which every boot turns off *)
(* anew; and two reports at the same time may store the older list last.     *)
SurvivesReboot ==
    ~raced /\ op = "idle" /\ work \in {"idle", "act", "walk"} =>
        \A i \in Id :
            \/ list[i] = Absent /\ stored[i] = Absent
            \/ /\ list[i] # Absent /\ stored[i] # Absent
               /\ list[i].kind = stored[i].kind
               /\ \/ list[i].enabled = stored[i].enabled
                  \/ ~list[i].enabled /\ Expired(stored[i])

(* A one-time schedule runs at most once for each time that a request turned *)
(* it on, or a reboot whose stored copy did not say its time had passed; its *)
(* trigger may wait in the work queue while it is edited, disabled, enabled  *)
(* or removed.                                                               *)
OncePerRequest == ~overrun

(* A one-time schedule that is on does not stay on for ever: it runs, or is  *)
(* turned off, unless the work queue was full when it was due.               *)
OneTimeEnds ==
    \A i \in Id :
        (list[i] # Absent /\ list[i].kind = "once" /\ list[i].enabled) ~>
            (list[i] = Absent \/ list[i].kind = "repeat" \/ ~list[i].enabled
               \/ lost \cap {i, "sync"} # {})

(* The types hold, and every action is run for the schedule it was set for   *)
(* and no more often than it was asked for.                                  *)
TriggersAreOwed == TypeOK /\ OwnTrigger /\ OncePerRequest
=============================================================================
