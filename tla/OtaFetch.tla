------------------------------- MODULE OtaFetch -------------------------------
(***************************************************************************)
(* How a node asks for its firmware updates                                *)
(* (ota/esp_rmaker_ota_using_topics.c) and when it downloads them          *)
(* (esp_rmaker_ota_handle_time in ota/esp_rmaker_ota.c).                   *)
(*                                                                         *)
(* A fetch request is published and awaits its PUBACK, with a timer for    *)
(* the time it may take; a request that fails or is not acknowledged is    *)
(* made again after a delay.  Each delay is a timer of its own, as are the *)
(* delays until a job may be downloaded and the period of the autofetch.   *)
(* The timer task and the application make requests, the event loop        *)
(* handles their acknowledgement, and they share g_ota_fetch_state without *)
(* a lock.                                                                 *)
(*                                                                         *)
(* Time goes by in ticks, of which a day has Day: the time a PUBACK may    *)
(* take and the shortest retry delay are one tick.  What a tick brings is  *)
(* done before the next one, except where a fault says otherwise.  The job *)
(* is there from the start; the download itself is left to OtaUpdate.      *)
(***************************************************************************)
EXTENDS OtaWindow, Functions, FiniteSets

CONSTANTS Period,        (* ticks between autofetches                        *)
          LongestDelay,  (* after OTA_FETCH_MAX_RETRIES it grows no more     *)
          MaxTimers,     (* there is memory for so many timers               *)
          MsgId,         (* message ids of the MQTT client                   *)
          Starts, Ends,  (* ticks until the job is valid, and until it lapses *)
          Froms, Tos,    (* when windows start, and when they end            *)
          MaxCalls,      (* of the application                               *)
          MaxTrouble     (* calls and faults, together                       *)

ASSUME FetchAssumption ==
    /\ Period \in Nat \ {0} /\ LongestDelay \in Nat \ {0} /\ MaxTimers \in Nat
    /\ 0 \notin MsgId
    /\ Starts \subseteq Nat /\ Ends \subseteq Nat /\ Froms \cup Tos \subseteq Minute
    /\ MaxCalls \in Nat /\ MaxTrouble \in Nat

Task    == {"timer", "app"}
None    == 0             (* no message                                       *)
NoTimer == -1
Lapsed  == -2
Off     == -1            (* the autofetch timer before the agent started     *)

Timer   == 1 .. MaxTimers
Unused  == -1            (* what a timer that does not exist has left        *)

VARIABLES clock, toStart, toEnd,
          synced, prompt, (* is the time known, and was it before the start?  *)
          from, to,      (* the download window of the job                   *)
          job,           (* "wanted", "started" or "failed"                  *)
          up,            (* has the agent started?                           *)
          conn,
          fetch,         (* g_ota_fetch_state and the timers                 *)
          auto,          (* ticks until the autofetch timer expires          *)
          pc, mid,       (* where a task is in __esp_rmaker_ota_fetch, and   *)
                         (* the id of its message                            *)
          requests,      (* fetch requests on their way                      *)
          acks,          (* PUBACKs on their way, to the event loop too      *)
          urls,          (* URL messages on their way                        *)
          busy, queued,  (* ota_in_progress; is esp_rmaker_ota_common_cb queued? *)
          calls, faults

time    == <<clock, toStart, toEnd, synced, prompt>>
theJob  == <<from, to, job>>
network == <<requests, acks, urls>>
task    == <<pc, mid>>
ota     == <<busy, queued>>
bounds  == <<calls, faults>>
vars    == <<time, theJob, up, conn, fetch, auto, task, network, ota, bounds>>

NoTimers == [t \in Timer |-> Unused]

\* shots: the ticks left to each timer of esp_rmaker_ota_fetch_with_delay;
\* timeouts: to those of PUBACKs, of which one is known (timer).
\* leaked: handlers of PUBLISHED that stay registered, unknown.  full: was there
\* ever no memory for a timer?
Fresh == [expected |-> None, retry |-> 0, inProgress |-> FALSE,
          handler |-> FALSE, timer |-> NoTimer, leaked |-> 0, full |-> FALSE,
          shots |-> NoTimers, timeouts |-> NoTimers]

Init ==
    /\ clock = 0 /\ synced \in BOOLEAN /\ prompt = synced
    /\ \/ from = NoTime /\ to = NoTime /\ toStart = 0 /\ toEnd = NoTime
       \/ /\ from \in Froms \cup {NoTime} /\ to \in Tos \cup {NoTime}
          /\ from = NoTime => to = NoTime
          /\ toStart \in Starts /\ toEnd \in Ends
    /\ job = "wanted" /\ up = FALSE /\ conn = TRUE
    /\ fetch = Fresh /\ auto = Off
    /\ pc = [t \in Task |-> "idle"] /\ mid = [t \in Task |-> None]
    /\ requests = {} /\ acks = {} /\ urls = 0
    /\ busy = FALSE /\ queued = FALSE
    /\ calls = 0 /\ faults = 0

Fault == calls + faults < MaxTrouble /\ faults' = faults + 1

-----------------------------------------------------------------------------
(* The fetch state, as the helpers of the code change it.                  *)

InUse(f) == {t \in Timer : f.shots[t] # Unused \/ f.timeouts[t] # Unused}
Room(f)  == InUse(f) # Timer
Spare(f) == CHOOSE t \in Timer : t \notin InUse(f)

\* The timer that is known, if any, is stopped and deleted.
Dropped(f) ==
    [f EXCEPT !.timer = NoTimer,
              !.timeouts = IF f.timer = NoTimer THEN @
                           ELSE [@ EXCEPT ![f.timer] = Unused]]

\* ota_fetch_cleanup
Cleaned(f) == [Dropped(f) EXCEPT !.handler = FALSE, !.expected = None,
                                 !.retry = 0, !.inProgress = FALSE]

\* esp_rmaker_ota_fetch_with_delay: there is nothing without memory.
Delayed(f, delay) == IF Room(f) THEN [f EXCEPT !.shots[Spare(f)] = delay]
                             ELSE [f EXCEPT !.full = TRUE]

\* ota_fetch_schedule_retry.  The count stands for the delay, which it doubles.
NextDelay(delay) == IF delay = 0 THEN 1
                    ELSE IF 2 * delay <= LongestDelay THEN 2 * delay ELSE delay

Retried(f) ==
    LET delay == NextDelay(f.retry)
    IN  IF Room(f) THEN Delayed([f EXCEPT !.retry = delay], delay)
                   ELSE [Cleaned(f) EXCEPT !.full = TRUE]

\* esp_rmaker_ota_fetch, when the attempt failed
Failed(f) == Retried([f EXCEPT !.expected = None, !.inProgress = FALSE])

-----------------------------------------------------------------------------
(* __esp_rmaker_ota_fetch, for as long as nothing fails: enter, publish,    *)
(* track the message, register the handler, arm the timer.                 *)

Enter(t, f) ==
    /\ pc[t] = "idle"
    /\ \/ f.inProgress /\ fetch' = f /\ UNCHANGED pc
       \/ ~f.inProgress /\ ~conn /\ fetch' = Failed(f) /\ UNCHANGED pc
       \/ /\ ~f.inProgress /\ conn
          /\ fetch' = [f EXCEPT !.expected = None]
          /\ pc' = [pc EXCEPT ![t] = "publish"]
    /\ UNCHANGED <<time, theJob, up, conn, mid, network, ota, faults>>

\* An id that is not in use; which one does not matter.
FreeId == MsgId \ (requests \cup acks \cup Range(mid)
                   \cup {fetch.expected})

Publish(t) ==
    /\ pc[t] = "publish"
    /\ \/ /\ FreeId # {}
          /\ LET id == CHOOSE i \in FreeId : TRUE
             IN  requests' = requests \cup {id} /\ mid' = [mid EXCEPT ![t] = id]
          /\ pc' = [pc EXCEPT ![t] = "sent"]
          /\ UNCHANGED <<fetch, faults>>
       \/ /\ Fault
          /\ fetch' = Failed(fetch) /\ pc' = [pc EXCEPT ![t] = "idle"]
          /\ UNCHANGED <<requests, mid>>
    /\ UNCHANGED <<time, theJob, up, conn, auto, acks, urls, ota,
                   calls>>

Track(t) ==
    /\ pc[t] = "sent" /\ pc' = [pc EXCEPT ![t] = "tracked"]
    /\ fetch' = [fetch EXCEPT !.expected = mid[t], !.inProgress = TRUE]
    /\ UNCHANGED <<time, theJob, up, conn, auto, mid, network, ota, bounds>>

\* The instance of a handler that another task registered is overwritten.
Register(t) ==
    /\ pc[t] = "tracked"
    /\ \/ /\ fetch' = [fetch EXCEPT !.handler = TRUE,
                                    !.leaked = IF fetch.handler THEN @ + 1 ELSE @]
          /\ pc' = [pc EXCEPT ![t] = "registered"]
          /\ UNCHANGED <<mid, faults>>
       \/ /\ Fault /\ fetch' = Failed(Cleaned(fetch))
          /\ pc' = [pc EXCEPT ![t] = "idle"] /\ mid' = [mid EXCEPT ![t] = None]
    /\ UNCHANGED <<time, theJob, up, conn, auto, network, ota, calls>>

Arm(t) ==
    /\ pc[t] = "registered" /\ pc' = [pc EXCEPT ![t] = "idle"]
    /\ mid' = [mid EXCEPT ![t] = None]
    /\ fetch' = IF Room(fetch)
                THEN [fetch EXCEPT !.timer = Spare(fetch),
                                   !.timeouts[Spare(fetch)] = 1]
                ELSE [Failed(Cleaned(fetch)) EXCEPT !.full = TRUE]
    /\ UNCHANGED <<time, theJob, up, conn, auto, network, ota, bounds>>

-----------------------------------------------------------------------------
(* Who makes a request: the application, and the timer task for a delay    *)
(* that is over and for the autofetch.                                     *)

AppFetch ==
    /\ up /\ calls < MaxCalls /\ calls + faults < MaxTrouble /\ calls' = calls + 1
    /\ Enter("app", fetch)
    /\ UNCHANGED auto

(* MUTANT of ShotFires: the timer of a delay reloads itself.                 *)
ShotFiresAgain ==
    /\ \E t \in Timer : /\ fetch.shots[t] = 0
                        /\ Enter("timer", [fetch EXCEPT !.shots[t] = 1])
    /\ UNCHANGED <<auto, calls>>

ShotFires ==
    /\ \E t \in Timer : /\ fetch.shots[t] = 0
                        /\ Enter("timer", [fetch EXCEPT !.shots[t] = Unused])
    /\ UNCHANGED <<auto, calls>>

(* MUTANT of AutofetchFires: the timer is not started for the next period.   *)
AutofetchFiresOnce ==
    /\ auto = 0 /\ auto' = Off
    /\ Enter("timer", fetch)
    /\ UNCHANGED calls

AutofetchFires ==
    /\ auto = 0 /\ auto' = Period
    /\ Enter("timer", fetch)
    /\ UNCHANGED calls

(* MUTANT of TimeoutFires: the request that timed out stays in progress.     *)
TimeoutFiresBusy ==
    /\ pc["timer"] = "idle"
    /\ \E t \in Timer :
          /\ fetch.timeouts[t] = 0
          /\ fetch' = Retried([Dropped([fetch EXCEPT !.timeouts[t] = Unused])
                                 EXCEPT !.handler = FALSE])
    /\ UNCHANGED <<time, theJob, up, conn, auto, task, network, ota, bounds>>

\* ota_fetch_timeout_timer_cb takes the timer that is known for the one that
\* expired, and deletes it.
TimeoutFires ==
    /\ pc["timer"] = "idle"
    /\ \E t \in Timer :
          /\ fetch.timeouts[t] = 0
          /\ fetch' = Retried([Dropped([fetch EXCEPT !.timeouts[t] = Unused])
                                 EXCEPT !.inProgress = FALSE, !.handler = FALSE])
    /\ UNCHANGED <<time, theJob, up, conn, auto, task, network, ota, bounds>>

\* ota_fetch_mqtt_event_handler.  That the event comes before the task that
\* published is done with its request counts as a fault.
Puback(id) ==
    /\ conn /\ id \in acks /\ acks' = acks \ {id}
    /\ IF id \in Range(mid) THEN Fault ELSE UNCHANGED faults
    /\ fetch' = IF (fetch.handler \/ fetch.leaked > 0) /\ id = fetch.expected
                THEN Cleaned(fetch) ELSE fetch
    /\ UNCHANGED <<time, theJob, up, conn, auto, task, requests, urls, ota,
                   calls>>

-----------------------------------------------------------------------------
(* The cloud and the network.                                              *)

\* The cloud takes a request and sends the job, if it still wants it done.
Answer(id) ==
    /\ conn /\ id \in requests /\ urls < 2
    /\ requests' = requests \ {id} /\ acks' = acks \cup {id}
    /\ urls' = IF job = "wanted" THEN urls + 1 ELSE urls
    /\ UNCHANGED <<time, theJob, up, conn, fetch, auto, task, ota, bounds>>

\* What was not acknowledged is sent again after the connection was lost.
Disconnect ==
    /\ up /\ conn /\ Fault
    /\ conn' = FALSE
    /\ requests' = requests \cup acks /\ acks' = {} /\ urls' = 0
    /\ UNCHANGED <<time, theJob, up, fetch, auto, task, ota, calls>>

Connect ==
    /\ ~conn /\ conn' = TRUE
    /\ UNCHANGED <<time, theJob, up, fetch, auto, task, network, ota, bounds>>

-----------------------------------------------------------------------------
(* The job.                                                                *)

\* ota_url_handler: a job that comes while one is handled, or that the work
\* queue does not take, is dropped.
UrlHandler ==
    /\ conn /\ urls > 0 /\ urls' = urls - 1
    /\ IF busy THEN UNCHANGED <<ota, faults>>
       ELSE \/ busy' = TRUE /\ queued' = TRUE /\ UNCHANGED faults
            \/ Fault /\ UNCHANGED ota
    /\ UNCHANGED <<time, theJob, up, conn, fetch, auto, task, requests, acks, calls>>

(* MUTANT of PutOff: the delay is one too long.                              *)
PutOffLonger(delay) ==
    fetch' = Delayed(fetch, delay + 1) /\ busy' = FALSE /\ UNCHANGED job

PutOff(delay) == fetch' = Delayed(fetch, delay) /\ busy' = FALSE /\ UNCHANGED job
Refused       == job' = "failed" /\ busy' = FALSE /\ UNCHANGED fetch

\* esp_rmaker_ota_common_cb up to the download.  The delay until the job is
\* valid is cut to the width of a tick count: then it is over early.
HandleTime ==
    /\ queued /\ queued' = FALSE
    /\ LET timed   == from # NoTime \/ toStart # 0 \/ toEnd # NoTime
           over    == toEnd = Lapsed \/ (from # NoTime /\ to = NoTime)
           outside == from # NoTime /\ ~InWindow(clock, from, to)
       IN  \/ timed /\ ~synced /\ PutOff(1)
           \/ synced /\ toStart > 0 /\ \E d \in 1 .. toStart : PutOff(d)
           \/ synced /\ toStart = 0 /\ over /\ Refused
           \/ /\ synced /\ toStart = 0 /\ ~over /\ outside
              /\ PutOff(DelayToWindow(clock, from, to))
           \/ /\ timed => synced /\ toStart = 0 /\ ~over /\ ~outside
              /\ job' = "started" /\ UNCHANGED <<fetch, busy>>
    /\ UNCHANGED <<time, from, to, up, conn, auto, task, network, bounds>>

-----------------------------------------------------------------------------
(* Start, restart and the clock.                                           *)

\* esp_rmaker_ota_work_fn
WorkFn ==
    /\ ~up /\ conn /\ up' = TRUE
    /\ fetch' = Delayed(fetch, 0) /\ auto' = Period
    /\ UNCHANGED <<time, theJob, conn, task, network, ota, bounds>>

Reboot ==
    /\ up /\ Fault
    /\ up' = FALSE /\ conn' = TRUE /\ synced' \in BOOLEAN /\ prompt' = synced'
    /\ fetch' = Fresh /\ auto' = Off
    /\ pc' = [t \in Task |-> "idle"] /\ mid' = [t \in Task |-> None]
    /\ requests' = {} /\ acks' = {} /\ urls' = 0
    /\ busy' = FALSE /\ queued' = FALSE
    /\ UNCHANGED <<clock, toStart, toEnd, theJob, calls>>

\* Nothing is left to do now.
Quiet ==
    /\ up /\ \A t \in Task : pc[t] = "idle"
    /\ \A t \in Timer : fetch.shots[t] # 0 /\ fetch.timeouts[t] # 0
    /\ auto # 0
    /\ ~queued
    /\ conn => requests = {} /\ urls = 0

\* All timers of a kind, a tick later
Older(timers) ==
    [t \in Timer |-> IF timers[t] = Unused THEN Unused ELSE timers[t] - 1]

\* That a PUBACK takes long, or the connection is away, counts as a fault.
\* Time is known after a tick at most.
Tick ==
    /\ Quiet
    /\ IF acks = {} /\ conn THEN UNCHANGED faults ELSE Fault
    /\ clock' = Later(clock, 1) /\ synced' = TRUE
    /\ toStart' = IF toStart > 0 THEN toStart - 1 ELSE 0
    /\ toEnd' = CASE toEnd = NoTime -> NoTime
                  [] toEnd \in {0, Lapsed} -> Lapsed
                  [] OTHER -> toEnd - 1
    /\ auto' = IF auto = Off THEN Off ELSE auto - 1
    /\ fetch' = [fetch EXCEPT !.shots = Older(@), !.timeouts = Older(@)]
    /\ UNCHANGED <<prompt, theJob, up, conn, task, network, ota,
                   calls>>

Call(t) == Publish(t) \/ Track(t) \/ Register(t) \/ Arm(t)

\* What the node, the network, the cloud and the clock do of themselves
Progress == \/ \E t \in Task : Call(t)
            \/ ShotFires \/ AutofetchFires \/ TimeoutFires
            \/ \E id \in MsgId : Answer(id) \/ Puback(id)
            \/ Connect \/ UrlHandler \/ HandleTime \/ WorkFn \/ Tick

\* The model ends with the job.
Next == job = "wanted" /\ (Progress \/ AppFetch \/ Disconnect \/ Reboot)

Spec == Init /\ [][Next]_vars

\* The node does not stop.  As time goes by only when nothing else is left to
\* do, this makes the tasks run, timers expire and the cloud answer.
FairSpec == Spec /\ WF_vars(job = "wanted" /\ Progress)

-----------------------------------------------------------------------------
(* Properties.                                                             *)

FetchState ==
    [expected : MsgId \cup {None}, retry : 0 .. LongestDelay, inProgress : BOOLEAN,
     handler : BOOLEAN, timer : Timer \cup {NoTimer}, leaked : Nat, full : BOOLEAN,
     shots : [Timer -> Nat \cup {Unused}], timeouts : [Timer -> Nat \cup {Unused}]]

TimersOK(f) ==
    /\ \A t \in Timer : f.shots[t] = Unused \/ f.timeouts[t] = Unused
    /\ f.timer # NoTimer => f.timeouts[f.timer] # Unused

(* Every variable keeps its type, and no timer is deleted that is not there. *)
TypeOK ==
    /\ clock \in Minute /\ toStart \in Nat
    /\ toEnd \in Nat \cup {NoTime, Lapsed}
    /\ {from, to} \subseteq Minute \cup {NoTime}
    /\ job \in {"wanted", "started", "failed"}
    /\ {synced, prompt, up, conn, busy, queued} \subseteq BOOLEAN
    /\ fetch \in FetchState /\ TimersOK(fetch)
    /\ auto \in {Off} \cup 0 .. Period
    /\ pc \in [Task -> {"idle", "publish", "sent", "tracked", "registered"}]
    /\ mid \in [Task -> MsgId \cup {None}]
    /\ requests \cup acks \subseteq MsgId
    /\ urls \in 0 .. 2

(* A request that is in progress, which makes all others be skipped, always  *)
(* ends: there is a timer that will end it, whichever tasks made requests at *)
(* the same time and whichever acknowledgements came early, late or never.   *)
NeverWedged ==
    fetch.inProgress => \/ \E t \in Timer : fetch.timeouts[t] # Unused
                        \/ \E t \in Task : pc[t] \in {"tracked", "registered"}

\* The requests under way and the ones that will be made
Attempts == Cardinality(InUse(fetch)) + Cardinality({t \in Task : pc[t] # "idle"})

(* Failures do not multiply: however requests fail, time out or are          *)
(* acknowledged, an attempt is followed by at most one.  There are more of   *)
(* them only when the application or the autofetch asks, or a job comes that *)
(* is to be fetched again.                                                   *)
RetriesDoNotMultiply ==
    [][Attempts' > Attempts =>
           calls' # calls \/ auto' > auto \/ (queued /\ ~queued')]_vars

\* Could the download start now, and has nothing gone wrong so far?
Startable == /\ job = "wanted" /\ synced /\ toStart = 0 /\ toEnd # Lapsed
             /\ from # NoTime => to # NoTime /\ Open(clock, from, to)
Smooth    == prompt /\ ~fetch.full /\ faults = 0

(* When nothing goes wrong, a job that was put off because of its dates or   *)
(* its window is started at the first time at which it may, whichever other  *)
(* requests are made, if the time was known when the agent started.          *)
Punctual ==
    [][clock' # clock /\ Smooth => ~Startable]_vars

(* A job that the cloud wants done is started or refused in the end, after   *)
(* whatever failures: the autofetch picks up what was lost.                  *)
JobEnds == job = "wanted" ~> job # "wanted"

(* The types hold, no timer is deleted twice, and no request blocks others   *)
(* for ever.                                                                 *)
RequestsEnd == TypeOK /\ NeverWedged
=============================================================================
