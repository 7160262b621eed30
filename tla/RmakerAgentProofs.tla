-------------------------- MODULE RmakerAgentProofs --------------------------
(***************************************************************************)
(* Proofs about the agent and user-node mapping, for every set of users,   *)
(* every configuration and every bound.                                    *)
(***************************************************************************)
EXTENDS RmakerAgent, TLAPS

-----------------------------------------------------------------------------
(* The inductive invariant.  TypeOK and DoneMeansCloudAgrees need it: what  *)
(* an acknowledgement says can be believed only because messages are        *)
(* numbered, delivered in order, and one request is outstanding at a time.  *)

(* The lock is held exactly while its holder has something left to do.      *)
LockHeld == section = "none" <=> lock = "free"

(* A request has a user, and a message number once it is sent.              *)
RequestWhole ==
    /\ data.user = NoUser => data = NoData
    /\ data.sent <=> data.msg # 0

(* What the mapping task is at is an unsent request.                        *)
SendsData ==
    /\ section \in {"publish", "record"} => data.user # NoUser /\ ~data.sent
    /\ section = "record" => published > 0

(* The message waited for is the last one published.                        *)
LastIsAwaited == data.sent => data.msg = published

(* Messages are numbered in the order they were published ...               *)
Numbered ==
    /\ Len(outbox) <= published
    /\ \A i \in 1..Len(outbox) : outbox[i].id = (published - Len(outbox)) + i

(* ... and acknowledged only once the cloud has them.                       *)
AcknowledgedPast ==
    \A i \in 1..Len(evq) :
        evq[i].kind = "puback" => evq[i].id \in 1..(published - Len(outbox))

(* The last message carries the user of the request, and so does the cloud  *)
(* once it has all messages.                                                *)
LastIsData ==
    section = "record" \/ data.sent =>
        IF outbox = <<>> THEN cloud = data.user
        ELSE outbox[Len(outbox)].user = data.user

(* While an id is in NVS nobody has asked for another.                      *)
StoredIsConfirmed ==
    UserIdCheck /\ nvs # NoUser =>
        /\ cloud = nvs
        /\ data.user \in {nvs, NoUser}
        /\ \A i \in 1..Len(outbox) : outbox[i].user = nvs

DoneIsStored == UserIdCheck /\ mapping = "done" => nvs # NoUser

Confirmed ==
    /\ LockHeld /\ RequestWhole /\ SendsData /\ LastIsAwaited
    /\ Numbered /\ AcknowledgedPast /\ LastIsData
    /\ StoredIsConfirmed /\ DoneIsStored

IInv == TypeOK /\ Confirmed

-----------------------------------------------------------------------------
(* What the types of the shared platform come down to when a task is added. *)
LEMMA QueueTypes ==
  ASSUME queue \in Seq(Task), refusals \in 0..MaxRefusals, NEW t \in Task,
         TryTask(t)
  PROVE  queue' \in Seq(Task) /\ refusals' \in 0..MaxRefusals
<1>1. CASE AddTask(t)
  BY <1>1 DEF AddTask
<1>2. CASE Refused
  BY <1>2, RefusalAssumption DEF Refused
<1> QED
  BY <1>1, <1>2 DEF TryTask

LEMMA RetryTypes ==
  ASSUME NEW r \in RetryState
  PROVE  Scheduled(r) \in RetryState
BY MappingAssumption DEF Scheduled, Idle, RetryState

LEMMA SameMapping ==
  ASSUME MappingTypeOK, UNCHANGED mvars
  PROVE  MappingTypeOK'
BY DEF MappingTypeOK, mvars, request, delivery

LEMMA Dequeued ==
  ASSUME queue \in Seq(Task), NEW t, Running(t)
  PROVE  Tail(queue) \in Seq(Task)
BY DEF Running

LEMMA Dispatched ==
  ASSUME evq \in Seq(EventRecord), NEW k, Pending(k)
  PROVE  Head(evq) \in EventRecord /\ Tail(evq) \in Seq(EventRecord)
BY DEF Pending

LEMMA PostedTypes ==
  ASSUME NEW q \in Seq(EventRecord), NEW k \in Kind, NEW i \in Nat
  PROVE  Append(q, Event(k, i)) \in Seq(EventRecord)
BY DEF Event, EventRecord

(* A request keeps every type that it touches.                              *)
LEMMA StartTypes ==
  ASSUME TypeOK, NEW c \in Caller, NEW u \in Id, StartTake(c, u)
  PROVE  MappingTypeOK'
BY DEF TypeOK, MappingTypeOK, StartTake, Id, Caller, MappingState,
       Section, Request, delivery

LEMMA FinishTypes ==
  ASSUME TypeOK, NEW c \in Caller, StartFinish(c)
  PROVE  /\ MappingTypeOK'
         /\ queue' \in Seq(Task) /\ refusals' \in 0..MaxRefusals
         /\ reg' \in SUBSET Handler
<1>1. MappingTypeOK /\ "mapping" \in Task
  BY DEF TypeOK, Task
<1>2. retry' \in RetryState
  BY <1>1, RetryTypes DEF MappingTypeOK, StartFinish, QueueOrRetry
<1>3. MappingTypeOK'
  BY <1>1, <1>2 DEF MappingTypeOK, StartFinish, Caller, Section, delivery
<1>4. queue' \in Seq(Task) /\ refusals' \in 0..MaxRefusals
  BY <1>1, QueueTypes DEF StartFinish, QueueOrRetry, TypeOK, TryTask
<1> QED
  BY <1>3, <1>4 DEF StartFinish, TypeOK, Handler

-----------------------------------------------------------------------------
(* Every step of every task keeps the types.                                *)
LEMMA WorkQueueTypes == TypeOK /\ SendsData /\ WorkQueue => TypeOK'
<1> SUFFICES ASSUME TypeOK, SendsData, WorkQueue PROVE TypeOK'
  OBVIOUS
<1>t. MappingTypeOK /\ queue \in Seq(Task) /\ evq \in Seq(EventRecord)
  BY DEF TypeOK
<1>q. ASSUME NEW t, Running(t) PROVE Tail(queue) \in Seq(Task)
  BY <1>t, <1>q, Dequeued
<1>m. ASSUME UNCHANGED mvars PROVE MappingTypeOK'
  BY <1>t, <1>m, SameMapping
<1>1. CASE RmakerTask \/ RmakerTaskConnects \/ RmakerTaskFails
  BY <1>1, <1>q, <1>m DEF TypeOK, RmakerTask, RmakerTaskConnects,
     RmakerTaskFails, AgentState, Place, Handler, outside
<1>2. CASE PostConnectFails \/ ReportConfig
  <2>1. Append(evq, Event("config_reported", 0)) \in Seq(EventRecord)
    BY <1>t, PostedTypes DEF Kind
  <2> QED
    BY <1>2, <2>1, <1>q, <1>m DEF TypeOK, PostConnectFails, ReportConfig, Posted,
       AgentState, Place, outside
<1>3. CASE FinishIfMapped \/ AwaitMapping \/ AwaitReset \/ ParamsInit
  BY <1>3, <1>q, <1>m, ZenonT(40)
     DEF TypeOK, FinishIfMapped, AwaitMapping, AwaitReset,
     ParamsInit, AgentState, Place, Handler, outside
<1>4. CASE ResetMapping
  <2>1. CASE work = "reset"
    <3>1. StartTake("work", ResetId) /\ work' = "resetting"
         /\ UNCHANGED <<queue, reg, refusals, agent, evq, outside>>
      BY <1>4, <2>1 DEF ResetMapping
    <3>2. MappingTypeOK'
      BY <3>1, StartTypes DEF Caller, Id
    <3> QED
      BY <3>1, <3>2 DEF TypeOK, Place, outside
  <2>2. CASE work = "resetting"
    <3>1. StartFinish("work") /\ work' = "await" /\ UNCHANGED <<agent, evq, outside>>
      BY <1>4, <2>2 DEF ResetMapping
    <3> QED
      BY <3>1, FinishTypes DEF TypeOK, Place, outside, Caller
  <2> QED
    BY <1>4, <2>1, <2>2 DEF ResetMapping
<1>5. CASE MappingTask
  <2>a. UNCHANGED <<agent, evq, outside>>
    BY <1>5 DEF MappingTask
  <2>1. CASE MappingTaskSkips
    BY <2>a, <2>1, <1>q, <1>m DEF TypeOK, MappingTaskSkips, outside
  <2>2. CASE MappingTaskStarts
    <3>1. MappingTypeOK'
      BY <1>t, <2>2 DEF MappingTypeOK, MappingTaskStarts, delivery, Caller, Section
    <3> QED
      BY <2>a, <2>2, <3>1, <1>q DEF TypeOK, MappingTaskStarts, Place, Handler, outside
  <2>3. CASE MappingPublishes
    <3>1. PICK m : outbox' = Append(outbox, m)
               /\ m = [id |-> published + 1, req |-> data.req, user |-> data.user]
      BY <2>3 DEF MappingPublishes
    <3>2. data.user # NoUser
      BY <2>3 DEF MappingPublishes, SendsData
    <3>3. MappingTypeOK'
      BY <1>t, <2>3, <3>1, <3>2 DEF MappingTypeOK, MappingPublishes, Section, Request, Message
    <3> QED
      BY <2>a, <2>3, <3>3 DEF TypeOK, MappingPublishes, outside
  <2>4. CASE MappingPublishFails \/ MappingTaskEnds
    <3>1. MappingTypeOK'
      BY <1>t, <2>4 DEF MappingTypeOK, MappingPublishFails, MappingTaskEnds,
         delivery, MappingState, Section, Caller, Request
    <3> QED
      BY <2>a, <2>4, <3>1 DEF TypeOK, MappingPublishFails, MappingTaskEnds, Place, outside
  <2> QED
    BY <1>5, <2>1, <2>2, <2>3, <2>4 DEF MappingTask
<1> QED
  BY <1>1, <1>2, <1>3, <1>4, <1>5 DEF WorkQueue

LEMMA EventLoopTypes == TypeOK /\ EventLoop => TypeOK'
<1> SUFFICES ASSUME TypeOK, EventLoop PROVE TypeOK'
  OBVIOUS
<1>t. MappingTypeOK /\ queue \in Seq(Task) /\ evq \in Seq(EventRecord)
  BY DEF TypeOK
<1>d. ASSUME NEW k, Pending(k)
      PROVE  Head(evq) \in EventRecord /\ Tail(evq) \in Seq(EventRecord)
  BY <1>t, <1>d, Dispatched
<1>a. ASSUME NEW t \in Task, TryTask(t)
      PROVE  queue' \in Seq(Task) /\ refusals' \in 0..MaxRefusals
  BY <1>t, <1>a, QueueTypes DEF TypeOK
<1>m. ASSUME UNCHANGED mvars PROVE MappingTypeOK'
  BY <1>t, <1>m, SameMapping
<1>1. CASE OnConnected \/ OnDisconnected \/ OnWifiReset
  BY <1>1, <1>d, <1>a, <1>m DEF TypeOK, OnConnected, OnDisconnected, OnWifiReset,
     Handler, Task
<1>2. ASSUME NEW k, NEW h, OnMapping(k, h) PROVE TypeOK'
  BY <1>2, <1>d, <1>a, <1>m DEF TypeOK, OnMapping, Handler, Task, outside
<1>3. CASE OnConfigReported
  <2>1. ConfigReportedHandler /\ UNCHANGED <<agent, work, outside>>
    BY <1>3 DEF OnConfigReported
  <2>2. queue' \in Seq(Task) /\ refusals' \in 0..MaxRefusals
    BY <2>1, <1>a DEF ConfigReportedHandler, QueueOrRetry, TryTask, Task, TypeOK
  <2>3. retry' \in RetryState
    BY <2>1, <1>t, RetryTypes DEF ConfigReportedHandler, QueueOrRetry, MappingTypeOK
  <2>4. MappingTypeOK'
    BY <2>1, <2>3, <1>t DEF ConfigReportedHandler, MappingTypeOK, request, delivery
  <2> QED
    BY <2>1, <2>2, <2>4, <1>d DEF ConfigReportedHandler, TypeOK, outside, Handler
<1>4. CASE OnPuback
  <2>a. UNCHANGED <<agent, queue, work, refusals, outside>>
    BY <1>4 DEF OnPuback
  <2>1. CASE PubackIgnored \/ PubackTimesOut
    BY <2>a, <2>1, <1>d, <1>m DEF TypeOK, PubackIgnored, PubackTimesOut, outside
  <2>2. CASE PubackAccepted
    <3>1. evq' \in Seq(EventRecord)
      BY <2>2, <1>d, PostedTypes DEF PubackAccepted, Kind
    <3>2. NoData \in Request /\ data.user \in Id \cup {NoUser}
      BY <1>t DEF MappingTypeOK, Request, NoData
    <3>3. MappingTypeOK'
      BY <2>2, <3>2, <1>t DEF MappingTypeOK, PubackAccepted, MappingState, delivery
    <3> QED
      BY <2>a, <2>2, <3>1, <3>3 DEF TypeOK, PubackAccepted, outside
  <2> QED
    BY <1>4, <2>1, <2>2 DEF OnPuback
<1>5. CASE OnFactoryReset
  <2>1. MappingTypeOK'
    BY <1>5, <1>m, StartTypes DEF OnFactoryReset, Caller, Id
  <2> QED
    BY <1>5, <2>1, <1>d DEF OnFactoryReset, TypeOK, outside
<1>6. CASE StartFinish("event") /\ UNCHANGED <<agent, work, evq, outside>>
  BY <1>6, FinishTypes DEF TypeOK, Caller, outside
<1> QED
  BY <1>1, <1>2, <1>3, <1>4, <1>5, <1>6 DEF EventLoop

LEMMA StepTypes == TypeOK /\ SendsData /\ [Next]_vars => TypeOK'
<1> SUFFICES ASSUME TypeOK, SendsData, [Next]_vars PROVE TypeOK'
  OBVIOUS
<1>t. MappingTypeOK /\ queue \in Seq(Task) /\ evq \in Seq(EventRecord)
  BY DEF TypeOK
<1>m. ASSUME UNCHANGED mvars PROVE MappingTypeOK'
  BY <1>t, <1>m, SameMapping
<1>p. ASSUME NEW k \in Kind PROVE Append(evq, Event(k, 0)) \in Seq(EventRecord)
  BY <1>t, <1>p, PostedTypes
<1>1. CASE WorkQueue \/ EventLoop
  BY <1>1, WorkQueueTypes, EventLoopTypes
<1>2. CASE Start \/ Stop \/ NodeDeinit
  <2>1. <<>> \in Seq(Task)
    OBVIOUS
  <2> QED
    BY <1>2, <2>1, <1>m DEF TypeOK, Start, Stop, NodeDeinit, AgentState, outside,
       platform
<1>3. CASE TimerTask
  <2>1. CASE RetryExpires /\ UNCHANGED <<platform, outside>>
    <3>1. retry' \in RetryState
      BY <2>1, <1>t DEF RetryExpires, MappingTypeOK, RetryState
    <3>2. MappingTypeOK'
      BY <2>1, <3>1, <1>t DEF RetryExpires, MappingTypeOK, request, delivery
    <3> QED
      BY <2>1, <3>2 DEF TypeOK, platform, outside
  <2>2. CASE RetryQueues /\ UNCHANGED <<agent, work, evq, reg, outside>>
    <3>1. queue' \in Seq(Task) /\ refusals' \in 0..MaxRefusals
      BY <2>2, <1>t, QueueTypes DEF RetryQueues, TryTask, Task, TypeOK
    <3>i. Idle \in RetryState
      BY MappingAssumption DEF Idle, RetryState
    <3>2. retry' \in RetryState
      BY <2>2, <3>i, <1>t, RetryTypes DEF RetryQueues, MappingTypeOK
    <3>3. MappingTypeOK'
      BY <2>2, <3>2, <1>t DEF RetryQueues, MappingTypeOK, request, delivery
    <3> QED
      BY <2>2, <3>1, <3>3 DEF TypeOK, outside
  <2> QED
    BY <1>3, <2>1, <2>2 DEF TimerTask
<1>4. CASE RequestMapping
  <2>1. MappingTypeOK'
    BY <1>4, StartTypes DEF RequestMapping, Caller, Id
  <2> QED
    BY <1>4, <2>1 DEF RequestMapping, TypeOK, platform, outside
<1>5. CASE FinishRequest
  BY <1>5, FinishTypes DEF FinishRequest, TypeOK, Caller, outside
<1>6. CASE NetworkUp \/ BrokerConnects \/ LinkDrops \/ UserResets
  <2>1. drops' \in 0..MaxDrops
    BY <1>6, AgentAssumption DEF TypeOK, NetworkUp, BrokerConnects, LinkDrops,
       UserResets, outside
  <2>2. evq' \in Seq(EventRecord)
    BY <1>6, <1>t, <1>p DEF NetworkUp, BrokerConnects, LinkDrops, UserResets, Posted,
       Kind, platform
  <2> QED
    BY <1>6, <2>1, <2>2, <1>m DEF TypeOK, NetworkUp, BrokerConnects, LinkDrops,
       UserResets, platform, outside
<1>7. CASE Delivery
  <2>1. CloudReceives /\ UNCHANGED <<agent, queue, work, reg, refusals, outside>>
    BY <1>7 DEF Delivery
  <2>2. Head(outbox) \in Message /\ Tail(outbox) \in Seq(Message)
    BY <2>1, <1>t DEF CloudReceives, MappingTypeOK
  <2>3. evq' \in Seq(EventRecord)
    BY <2>1, <2>2, <1>t, PostedTypes DEF CloudReceives, Posted, Kind, Message
  <2>4. MappingTypeOK'
    BY <2>1, <2>2, <1>t DEF CloudReceives, MappingTypeOK, Message, request
  <2> QED
    BY <2>1, <2>3, <2>4 DEF TypeOK, outside
<1>8. CASE Reboot
  <2>1. MappingTypeOK'
    BY <1>8, <1>t, MappingAssumption DEF Reboot, MappingReboot, MappingTypeOK,
       StateAtBoot, MappingState, NoData, Request, Idle, RetryState, Section
  <2>2. <<"rmaker">> \in Seq(Task) /\ <<>> \in Seq(EventRecord)
    BY DEF Task
  <2>3. reboots' \in 0..MaxReboots /\ 0 \in 0..MaxDrops
    BY <1>8, AgentAssumption DEF Reboot, TypeOK
  <2> QED
    BY <1>8, <2>1, <2>2, <2>3 DEF Reboot, TypeOK, AgentState, Place
<1>9. CASE UNCHANGED vars
  BY <1>9, <1>m DEF vars, TypeOK, platform, outside
<1> QED
  BY <1>1, <1>2, <1>3, <1>4, <1>5, <1>6, <1>7, <1>8, <1>9 DEF Next, Environment

-----------------------------------------------------------------------------
(* Steps that neither touch the mapping nor add an acknowledgement.         *)
NoNewAck ==
    \A i \in 1..Len(evq') :
        evq'[i].kind = "puback" => \E j \in 1..Len(evq) : evq[j] = evq'[i]

LEMMA Undisturbed ==
  ASSUME Confirmed, NoNewAck,
         UNCHANGED <<section, lock, data, published, outbox, cloud, nvs, mapping>>
  PROVE  Confirmed'
<1>1. AcknowledgedPast'
  BY DEF Confirmed, AcknowledgedPast, NoNewAck
<1>2. (LockHeld /\ RequestWhole /\ SendsData /\ LastIsAwaited /\ Numbered
       /\ LastIsData /\ StoredIsConfirmed /\ DoneIsStored)'
  BY DEF Confirmed, LockHeld, RequestWhole, SendsData, LastIsAwaited, Numbered,
     LastIsData, StoredIsConfirmed, DoneIsStored, NoData
<1> QED
  BY <1>1, <1>2 DEF Confirmed

LEMMA SameEvents == ASSUME evq \in Seq(EventRecord), evq' = evq PROVE NoNewAck
BY DEF NoNewAck

LEMMA EventTaken ==
  ASSUME evq \in Seq(EventRecord), evq # <<>>, evq' = Tail(evq)
  PROVE  NoNewAck
BY DEF NoNewAck

LEMMA EventPosted ==
  ASSUME evq \in Seq(EventRecord), NEW k, k # "puback", NEW i,
         evq' = Append(evq, Event(k, i))
  PROVE  NoNewAck
BY DEF NoNewAck, Event

(* A request replaces the one before it; an id it differs from is erased.   *)
LEMMA StartConfirmed ==
  ASSUME TypeOK, Confirmed, NEW c \in Caller, NEW u \in Id, StartTake(c, u),
         NoNewAck
  PROVE  Confirmed'
<1> USE DEF Confirmed, StartTake, delivery
<1>1. LockHeld' /\ RequestWhole' /\ SendsData' /\ LastIsAwaited'
  BY MappingAssumption DEF LockHeld, RequestWhole, SendsData, LastIsAwaited, Id, Caller
<1>2. Numbered'
  BY DEF Numbered
<1>3. AcknowledgedPast'
  BY DEF AcknowledgedPast, NoNewAck
<1>4. LastIsData'
  BY DEF LastIsData
<1>5. StoredIsConfirmed' /\ DoneIsStored'
  BY MappingAssumption DEF StoredIsConfirmed, DoneIsStored, IsReset, Id
<1> QED
  BY <1>1, <1>2, <1>3, <1>4, <1>5

LEMMA FinishConfirmed ==
  ASSUME TypeOK, Confirmed, NEW c \in Caller, StartFinish(c), NoNewAck
  PROVE  Confirmed'
<1> USE DEF Confirmed, StartFinish, delivery
<1>1. LockHeld' /\ RequestWhole' /\ SendsData' /\ LastIsAwaited'
  BY DEF LockHeld, RequestWhole, SendsData, LastIsAwaited, NoData
<1>2. Numbered'
  BY DEF Numbered
<1>3. AcknowledgedPast'
  BY DEF AcknowledgedPast, NoNewAck
<1>4. LastIsData'
  BY DEF LastIsData
<1>5. StoredIsConfirmed' /\ DoneIsStored'
  BY DEF StoredIsConfirmed, DoneIsStored
<1> QED
  BY <1>1, <1>2, <1>3, <1>4, <1>5

(* The mapping task takes an unsent request, publishes it as the next       *)
(* message, and notes the number it was given.                              *)
LEMMA MappingTaskConfirmed ==
  ASSUME TypeOK, Confirmed, MappingTask
  PROVE  Confirmed'
<1>t. /\ evq \in Seq(EventRecord) /\ evq' = evq /\ NoNewAck
      /\ outbox \in Seq(Message) /\ published \in Nat /\ data \in Request
  BY SameEvents DEF TypeOK, MappingTypeOK, MappingTask
<1>1. CASE MappingTaskSkips
  BY <1>1, <1>t, Undisturbed DEF MappingTaskSkips, mvars, request, delivery
<1>2. CASE MappingTaskStarts
  <2> USE DEF Confirmed, MappingTaskStarts, delivery
  <2>1. LockHeld' /\ RequestWhole' /\ SendsData' /\ LastIsAwaited'
    BY <1>2 DEF LockHeld, RequestWhole, SendsData, LastIsAwaited, Waiting, NoData
  <2>2. Numbered' /\ AcknowledgedPast'
    BY <1>2, <1>t DEF Numbered, AcknowledgedPast
  <2>3. LastIsData' /\ StoredIsConfirmed' /\ DoneIsStored'
    BY <1>2 DEF LastIsData, StoredIsConfirmed, DoneIsStored
  <2> QED
    BY <2>1, <2>2, <2>3
<1>3. CASE MappingPublishes
  <2> DEFINE m == [id |-> published + 1, req |-> data.req, user |-> data.user]
  <2>1. /\ outbox' = Append(outbox, m) /\ published' = published + 1
        /\ section = "publish" /\ section' = "record"
        /\ UNCHANGED <<mapping, data, nvs, lock, cloud>>
    BY <1>3 DEF MappingPublishes
  <2>2. /\ Len(outbox') = Len(outbox) + 1
        /\ \A i \in 1..Len(outbox) : outbox'[i] = outbox[i]
        /\ outbox'[Len(outbox')] = m /\ outbox' # <<>>
    BY <2>1, <1>t
  <2>m. m.id = published + 1 /\ m.user = data.user
    OBVIOUS
  <2> HIDE DEF m
  <2>3. LockHeld' /\ RequestWhole' /\ SendsData' /\ LastIsAwaited'
    BY <2>1, <1>t DEF Confirmed, LockHeld, RequestWhole, SendsData, LastIsAwaited, NoData
  <2>4. Numbered' /\ AcknowledgedPast'
    <3>1. Len(outbox) \in Nat /\ Len(outbox) <= published
      BY <1>t DEF Confirmed, Numbered
    <3>2. ASSUME NEW i \in 1..Len(outbox')
          PROVE  outbox'[i].id = (published' - Len(outbox')) + i
      <4>1. CASE i = Len(outbox')
        BY <4>1, <3>1, <2>1, <2>2, <2>m, <1>t
      <4>2. CASE i # Len(outbox')
        <5>1. i \in 1..Len(outbox)
          BY <4>2, <3>1, <2>2
        <5>2. outbox[i].id = (published - Len(outbox)) + i
          BY <5>1 DEF Confirmed, Numbered
        <5> QED
          BY <5>1, <5>2, <3>1, <2>1, <2>2, <1>t
      <4> QED
        BY <4>1, <4>2
    <3>3. Numbered'
      BY <3>1, <3>2, <2>1, <2>2, <1>t DEF Numbered
    <3>4. published' - Len(outbox') = published - Len(outbox)
      BY <3>1, <2>1, <2>2, <1>t
    <3> QED
      BY <3>3, <3>4, <1>t DEF Confirmed, AcknowledgedPast
  <2>5. LastIsData'
    BY <2>1, <2>2, <2>m DEF LastIsData
  <2>6. StoredIsConfirmed'
    <3>1. data.user # NoUser
      BY <2>1 DEF Confirmed, SendsData
    <3> SUFFICES ASSUME UserIdCheck, nvs # NoUser,
                        NEW i \in 1..Len(outbox')
                 PROVE  cloud = nvs /\ data.user \in {nvs, NoUser} /\ outbox'[i].user = nvs
      BY <2>1, <2>2, <1>t DEF Confirmed, StoredIsConfirmed
    <3>2. cloud = nvs /\ data.user = nvs
          /\ \A j \in 1..Len(outbox) : outbox[j].user = nvs
      BY <3>1 DEF Confirmed, StoredIsConfirmed
    <3>3. i = Len(outbox') \/ i \in 1..Len(outbox)
      BY <2>2, <1>t
    <3> QED
      BY <3>2, <3>3, <2>2, <2>m
  <2>7. DoneIsStored'
    BY <2>1 DEF Confirmed, DoneIsStored
  <2> QED
    BY <2>3, <2>4, <2>5, <2>6, <2>7 DEF Confirmed
<1>4. CASE MappingPublishFails \/ MappingTaskEnds
  <2>a. ASSUME MappingPublishFails
        PROVE  LockHeld' /\ RequestWhole' /\ SendsData' /\ LastIsAwaited'
    BY <2>a, <1>t DEF Confirmed, MappingPublishFails, delivery, LockHeld,
       RequestWhole, SendsData, LastIsAwaited, NoData
  <2>b. ASSUME MappingTaskEnds
        PROVE  LockHeld' /\ RequestWhole' /\ SendsData' /\ LastIsAwaited'
    <3>1. data.user # NoUser /\ published > 0
      BY <2>b DEF Confirmed, SendsData, MappingTaskEnds
    <3>2. data'.user = data.user /\ data'.msg = published /\ data'.sent = TRUE
      BY <2>b, <1>t DEF MappingTaskEnds, Request
    <3> QED
      BY <2>b, <3>1, <3>2, <1>t DEF MappingTaskEnds, delivery, LockHeld,
         RequestWhole, SendsData, LastIsAwaited
  <2>1. LockHeld' /\ RequestWhole' /\ SendsData' /\ LastIsAwaited'
    BY <1>4, <2>a, <2>b DEF Confirmed
  <2>2. Numbered' /\ AcknowledgedPast'
    BY <1>4, <1>t DEF Confirmed, MappingPublishFails, MappingTaskEnds, delivery,
       Numbered, AcknowledgedPast
  <2>3. LastIsData'
    BY <1>4, <1>t DEF Confirmed, MappingPublishFails, MappingTaskEnds, delivery,
       LastIsData, Request, SendsData
  <2>4. StoredIsConfirmed' /\ DoneIsStored'
    BY <1>4, <1>t DEF Confirmed, MappingPublishFails, MappingTaskEnds, delivery,
       StoredIsConfirmed, DoneIsStored, Request
  <2> QED
    BY <2>1, <2>2, <2>3, <2>4 DEF Confirmed
<1> QED
  BY <1>1, <1>2, <1>3, <1>4 DEF MappingTask

(* The cloud takes the oldest message, and only then is it acknowledged.    *)
LEMMA DeliveryConfirmed ==
  ASSUME TypeOK, Confirmed, Delivery
  PROVE  Confirmed'
<1> DEFINE m == Head(outbox)
<1>1. /\ outbox # <<>> /\ cloud' = m.user /\ outbox' = Tail(outbox)
      /\ evq' = Append(evq, Event("puback", m.id))
      /\ UNCHANGED <<mapping, data, nvs, lock, section, published>>
  BY DEF Delivery, CloudReceives, Posted, request
<1>t. /\ evq \in Seq(EventRecord) /\ outbox \in Seq(Message)
      /\ published \in Nat /\ data \in Request
  BY DEF TypeOK, MappingTypeOK
<1>2. /\ Len(outbox) \in Nat /\ Len(outbox) >= 1 /\ m = outbox[1] /\ m \in Message
      /\ Len(outbox') = Len(outbox) - 1
      /\ \A i \in 1..Len(outbox') : i + 1 \in 1..Len(outbox) /\ outbox'[i] = outbox[i + 1]
  BY <1>1, <1>t
<1>3. /\ Len(outbox) <= published
      /\ \A i \in 1..Len(outbox) : outbox[i].id = (published - Len(outbox)) + i
  BY DEF Confirmed, Numbered
<1>4. m.id = (published - Len(outbox)) + 1
  BY <1>2, <1>3
<1> HIDE DEF m
<1>5. LockHeld' /\ RequestWhole' /\ SendsData' /\ LastIsAwaited' /\ DoneIsStored'
  BY <1>1 DEF Confirmed, LockHeld, RequestWhole, SendsData, LastIsAwaited, NoData,
     DoneIsStored
<1>6. Numbered'
  <2>1. ASSUME NEW i \in 1..Len(outbox')
        PROVE  outbox'[i].id = (published' - Len(outbox')) + i
    <3>1. outbox[i + 1].id = (published - Len(outbox)) + (i + 1)
      BY <1>2, <1>3
    <3> QED
      BY <3>1, <1>1, <1>2, <1>t
  <2> QED
    BY <2>1, <1>1, <1>2, <1>3, <1>t DEF Numbered
<1>7. AcknowledgedPast'
  <2> SUFFICES ASSUME NEW i \in 1..Len(evq'), evq'[i].kind = "puback"
               PROVE  evq'[i].id \in 1..(published' - Len(outbox'))
    BY DEF AcknowledgedPast
  <2>1. published' - Len(outbox') = (published - Len(outbox)) + 1
    BY <1>1, <1>2, <1>t
  <2>2. CASE i \in 1..Len(evq)
    <3>1. evq'[i] = evq[i]
      BY <2>2, <1>1, <1>t
    <3>2. evq[i].id \in 1..(published - Len(outbox))
      BY <2>2, <3>1 DEF Confirmed, AcknowledgedPast
    <3> QED
      BY <2>1, <3>1, <3>2, <1>2, <1>3, <1>t
  <2>3. CASE i = Len(evq) + 1
    <3>1. evq'[i].id = m.id
      BY <2>3, <1>1, <1>t DEF Event
    <3> QED
      BY <2>1, <3>1, <1>2, <1>3, <1>4, <1>t
  <2> QED
    BY <2>2, <2>3, <1>1, <1>t
<1>8. LastIsData'
  <2> SUFFICES ASSUME section = "record" \/ data.sent
               PROVE  IF outbox' = <<>> THEN cloud' = data.user
                      ELSE outbox'[Len(outbox')].user = data.user
    BY <1>1 DEF LastIsData
  <2>1. outbox[Len(outbox)].user = data.user
    BY <1>1 DEF Confirmed, LastIsData
  <2>2. CASE outbox' = <<>>
    BY <2>1, <2>2, <1>1, <1>2
  <2>3. CASE outbox' # <<>>
    <3>1. Len(outbox') \in 1..Len(outbox')
      BY <2>3, <1>1, <1>t
    <3> QED
      BY <2>1, <2>3, <3>1, <1>2
  <2> QED
    BY <2>2, <2>3
<1>9. StoredIsConfirmed'
  <2> SUFFICES ASSUME UserIdCheck, nvs # NoUser
               PROVE  /\ cloud' = nvs /\ data.user \in {nvs, NoUser}
                      /\ \A i \in 1..Len(outbox') : outbox'[i].user = nvs
    BY <1>1 DEF StoredIsConfirmed
  <2>1. data.user \in {nvs, NoUser} /\ \A i \in 1..Len(outbox) : outbox[i].user = nvs
    BY DEF Confirmed, StoredIsConfirmed
  <2> QED
    BY <2>1, <1>1, <1>2
<1> QED
  BY <1>5, <1>6, <1>7, <1>8, <1>9 DEF Confirmed

(* The acknowledgement accepted is that of the last message, so nothing is  *)
(* under way and the cloud has that message's user.                         *)
LEMMA AcceptedIsLast ==
  ASSUME TypeOK, Confirmed, PubackAccepted
  PROVE  outbox = <<>> /\ cloud = data.user /\ data.user \in Id /\ section = "none"
<1>t. /\ evq \in Seq(EventRecord) /\ outbox \in Seq(Message)
      /\ published \in Nat /\ data \in Request
  BY DEF TypeOK, MappingTypeOK
<1>1. /\ evq # <<>> /\ Head(evq) = evq[1] /\ Head(evq).kind = "puback"
      /\ data.msg = Head(evq).id /\ data # NoData /\ lock = "free"
  BY <1>t DEF PubackAccepted, Pending
<1>2. data.msg \in 1..(published - Len(outbox))
  BY <1>1, <1>t DEF Confirmed, AcknowledgedPast
<1>3. data.msg = published /\ data.sent
  BY <1>2, <1>t DEF Confirmed, LastIsAwaited, RequestWhole
<1>4. outbox = <<>>
  BY <1>2, <1>3, <1>t DEF Confirmed, Numbered
<1>5. cloud = data.user
  BY <1>3, <1>4 DEF Confirmed, LastIsData
<1>6. data.user # NoUser /\ section = "none"
  BY <1>1 DEF Confirmed, RequestWhole, LockHeld
<1> QED
  BY <1>4, <1>5, <1>6, <1>t DEF Request

LEMMA AcceptedConfirmed ==
  ASSUME TypeOK, Confirmed, PubackAccepted
  PROVE  Confirmed'
<1>t. /\ evq \in Seq(EventRecord) /\ published \in Nat
  BY DEF TypeOK, MappingTypeOK
<1>1. outbox = <<>> /\ cloud = data.user /\ data.user \in Id /\ section = "none"
  BY AcceptedIsLast
<1>2. /\ nvs' = (IF UserIdCheck THEN data.user ELSE nvs) /\ data' = NoData
      /\ UNCHANGED <<lock, section, outbox, published, cloud>>
  BY DEF PubackAccepted, delivery
<1>3. NoNewAck
  <2>1. PICK k : k # "puback" /\ evq' = Append(Tail(evq), Event(k, 0))
    BY DEF PubackAccepted
  <2> QED
    BY <2>1, <1>t DEF NoNewAck, Event, PubackAccepted, Pending
<1>4. LockHeld' /\ RequestWhole' /\ SendsData' /\ LastIsAwaited' /\ LastIsData'
  BY <1>1, <1>2 DEF Confirmed, LockHeld, RequestWhole, SendsData, LastIsAwaited,
     LastIsData, NoData
<1>5. Numbered' /\ AcknowledgedPast'
  BY <1>2, <1>3 DEF Confirmed, Numbered, AcknowledgedPast, NoNewAck
<1>6. StoredIsConfirmed' /\ DoneIsStored'
  BY <1>1, <1>2, MappingAssumption DEF StoredIsConfirmed, DoneIsStored, NoData, Id
<1> QED
  BY <1>4, <1>5, <1>6 DEF Confirmed

LEMMA RebootConfirmed ==
  ASSUME TypeOK, Confirmed, Reboot
  PROVE  Confirmed'
<1>1. /\ mapping' = StateAtBoot(nvs) /\ data' = NoData /\ lock' = "free"
      /\ section' = "none" /\ published' = 0 /\ outbox' = <<>> /\ evq' = <<>>
      /\ UNCHANGED <<nvs, cloud>>
  BY DEF Reboot, MappingReboot
<1>2. LockHeld' /\ RequestWhole' /\ SendsData' /\ LastIsAwaited' /\ LastIsData'
  BY <1>1 DEF LockHeld, RequestWhole, SendsData, LastIsAwaited, LastIsData, NoData
<1>3. Numbered' /\ AcknowledgedPast'
  BY <1>1 DEF Numbered, AcknowledgedPast
<1>4. StoredIsConfirmed' /\ DoneIsStored'
  BY <1>1 DEF Confirmed, StoredIsConfirmed, DoneIsStored, StateAtBoot, NoData
<1> QED
  BY <1>2, <1>3, <1>4 DEF Confirmed

(* Everybody else leaves the mapping as it is and posts no acknowledgement. *)
LEMMA StepConfirmed == IInv /\ [Next]_vars => Confirmed'
<1> SUFFICES ASSUME TypeOK, Confirmed, [Next]_vars PROVE Confirmed'
  BY DEF IInv
<1>t. evq \in Seq(EventRecord)
  BY DEF TypeOK
<1>s. ASSUME evq' = evq PROVE NoNewAck
  BY <1>s, <1>t, SameEvents
<1>d. ASSUME NEW k, Pending(k), evq' = Tail(evq) PROVE NoNewAck
  BY <1>d, <1>t, EventTaken DEF Pending
<1>p. ASSUME NEW k \in Kind \ {"puback"}, Posted(k, 0) PROVE NoNewAck
  BY <1>p, <1>t, EventPosted DEF Posted
<1>u. ASSUME UNCHANGED mvars, NoNewAck PROVE Confirmed'
  BY <1>u, Undisturbed DEF mvars, request, delivery
<1>1. CASE WorkQueue
  <2>1. CASE RmakerTask \/ RmakerTaskConnects \/ RmakerTaskFails \/ PostConnectFails
             \/ FinishIfMapped \/ AwaitMapping \/ AwaitReset \/ ParamsInit
    BY <2>1, <1>s, <1>u DEF RmakerTask, RmakerTaskConnects, RmakerTaskFails,
       PostConnectFails, FinishIfMapped, AwaitMapping, AwaitReset, ParamsInit
  <2>2. CASE ReportConfig
    BY <2>2, <1>p, <1>u DEF ReportConfig, Kind
  <2>3. CASE ResetMapping
    <3>1. NoNewAck
      BY <2>3, <1>s DEF ResetMapping
    <3>2. StartTake("work", ResetId) \/ StartFinish("work")
      BY <2>3 DEF ResetMapping
    <3> QED
      BY <3>1, <3>2, StartConfirmed, FinishConfirmed DEF Caller, Id
  <2>4. CASE MappingTask
    BY <2>4, MappingTaskConfirmed
  <2> QED
    BY <1>1, <2>1, <2>2, <2>3, <2>4 DEF WorkQueue
<1>2. CASE EventLoop
  <2>1. CASE OnConnected \/ OnDisconnected \/ OnWifiReset
    BY <2>1, <1>d, <1>u DEF OnConnected, OnDisconnected, OnWifiReset
  <2>2. ASSUME NEW k, NEW h, OnMapping(k, h) PROVE Confirmed'
    BY <2>2, <1>d, <1>u DEF OnMapping
  <2>3. CASE OnConfigReported
    BY <2>3, <1>d, Undisturbed DEF OnConfigReported, ConfigReportedHandler, request,
       delivery
  <2>4. CASE OnPuback
    <3>1. CASE PubackIgnored \/ PubackTimesOut
      BY <3>1, <1>d, <1>u DEF PubackIgnored, PubackTimesOut
    <3> QED
      BY <2>4, <3>1, AcceptedConfirmed DEF OnPuback
  <2>5. CASE OnFactoryReset
    <3>1. NoNewAck
      BY <2>5, <1>d DEF OnFactoryReset
    <3>2. StartTake("event", ResetId) \/ UNCHANGED mvars
      BY <2>5 DEF OnFactoryReset
    <3> QED
      BY <3>1, <3>2, <1>u, StartConfirmed DEF Caller, Id
  <2>6. CASE StartFinish("event") /\ UNCHANGED <<agent, work, evq, outside>>
    BY <2>6, <1>s, FinishConfirmed DEF Caller
  <2> QED
    BY <1>2, <2>1, <2>2, <2>3, <2>4, <2>5, <2>6 DEF EventLoop
<1>3. CASE Start \/ Stop \/ NodeDeinit
  BY <1>3, <1>s, <1>u DEF Start, Stop, NodeDeinit, platform
<1>4. CASE TimerTask
  BY <1>4, <1>s, Undisturbed DEF TimerTask, RetryExpires, RetryQueues, request, delivery,
     platform
<1>5. CASE RequestMapping
  <2>1. PICK u \in User : StartTake("prov", u)
    BY <1>5 DEF RequestMapping
  <2> QED
    BY <1>5, <2>1, <1>s, StartConfirmed DEF RequestMapping, platform, Caller, Id
<1>6. CASE FinishRequest
  BY <1>6, <1>s, FinishConfirmed DEF FinishRequest, Caller
<1>7. CASE NetworkUp \/ BrokerConnects \/ LinkDrops \/ UserResets
  BY <1>7, <1>s, <1>p, <1>u DEF NetworkUp, BrokerConnects, LinkDrops, UserResets,
     platform, Kind
<1>8. CASE Delivery \/ Reboot
  BY <1>8, DeliveryConfirmed, RebootConfirmed
<1>9. CASE UNCHANGED vars
  BY <1>9, <1>s, <1>u DEF vars, platform
<1> QED
  BY <1>1, <1>2, <1>3, <1>4, <1>5, <1>6, <1>7, <1>8, <1>9 DEF Next, Environment

LEMMA InitIInv == Init => IInv
<1> SUFFICES ASSUME Init PROVE TypeOK /\ Confirmed
  BY DEF IInv
<1> USE MappingAssumption, AgentAssumption, RefusalAssumption DEF Init, MappingInit
<1>1. MappingTypeOK
  BY DEF MappingTypeOK, StateAtBoot, MappingState, NoData, Request, Idle, RetryState,
     Section
<1>2. <<"rmaker">> \in Seq(Task) /\ <<>> \in Seq(EventRecord)
  BY DEF Task
<1>3. TypeOK
  <2>1. 0 \in 0..MaxRefusals /\ 0 \in 0..MaxDrops /\ 0 \in 0..MaxReboots
    OBVIOUS
  <2> QED
    BY <1>1, <1>2, <2>1 DEF TypeOK, AgentState, Place
<1>4. LockHeld /\ RequestWhole /\ SendsData /\ LastIsAwaited /\ LastIsData
  BY DEF LockHeld, RequestWhole, SendsData, LastIsAwaited, LastIsData, NoData
<1>5. Numbered /\ AcknowledgedPast /\ StoredIsConfirmed /\ DoneIsStored
  BY DEF Numbered, AcknowledgedPast, StoredIsConfirmed, DoneIsStored, StateAtBoot
<1> QED
  BY <1>3, <1>4, <1>5 DEF Confirmed

(* The inductive invariant holds in every reachable state.                  *)
THEOREM Invariance == Spec => []IInv
<1>1. IInv /\ [Next]_vars => IInv'
  BY StepTypes, StepConfirmed DEF IInv, Confirmed
<1> QED
  BY InitIInv, <1>1, PTL DEF Spec

(* Every variable of the agent and of the mapping keeps its type; in        *)
(* particular the retries of user_mapping_schedule_retry stay within        *)
(* USER_MAPPING_MAX_RETRIES.                                                *)
THEOREM AgentTypeCorrect == Spec => []TypeOK
<1>1. IInv => TypeOK
  BY DEF IInv
<1> QED
  BY Invariance, <1>1, PTL

(* With CONFIG_ESP_RMAKER_USER_ID_CHECK, a mapping that is done is for the  *)
(* id the cloud holds, for any users, requests, resets, failures and        *)
(* restarts.                                                                *)
THEOREM DoneAgreesWithCloud == Spec => []DoneMeansCloudAgrees
<1>1. IInv => DoneMeansCloudAgrees
  BY DEF IInv, Confirmed, StoredIsConfirmed, DoneIsStored, DoneMeansCloudAgrees
<1> QED
  BY Invariance, <1>1, PTL

-----------------------------------------------------------------------------
(* What each step of the mapping is for Association.                        *)
Abstract == [Association!Next]_<<Belief, cloud>>

LEMMA Stutters ==
  ASSUME UNCHANGED <<mapping, nvs, cloud>>
  PROVE  Abstract
BY DEF Abstract, Belief

(* A request for the confirmed id changes nothing or confirms it again; any *)
(* other gives the belief up.                                               *)
LEMMA StartAbstract ==
  ASSUME IInv, NEW c, NEW u \in Id, StartTake(c, u)
  PROVE  Abstract
<1>1. cloud' = cloud /\ (UserIdCheck /\ nvs # NoUser => cloud = nvs) /\ u # NoUser
  BY MappingAssumption DEF StartTake, delivery, IInv, Confirmed, StoredIsConfirmed, Id
<1>2. CASE ~UserIdCheck
  BY <1>1, <1>2 DEF Abstract, Belief
<1>3. CASE UserIdCheck /\ nvs = u
  BY <1>1, <1>3 DEF StartTake, IsReset, Abstract, Belief, Association!Next,
     Association!Confirm, Association!GiveUp
<1>4. CASE UserIdCheck /\ nvs # u
  BY <1>1, <1>4 DEF StartTake, IsReset, Abstract, Belief, Association!Next,
     Association!GiveUp
<1> QED
  BY <1>2, <1>3, <1>4

LEMMA MappingTaskAbstract ==
  ASSUME MappingTask
  PROVE  Abstract
<1>1. CASE MappingTaskEnds
  BY <1>1 DEF MappingTaskEnds, delivery, Abstract, Belief, Association!Next,
     Association!GiveUp
<1>2. CASE MappingTaskSkips \/ MappingTaskStarts \/ MappingPublishes
           \/ MappingPublishFails
  BY <1>2, Stutters DEF MappingTaskSkips, MappingTaskStarts, MappingPublishes,
     MappingPublishFails, mvars, request, delivery
<1> QED
  BY <1>1, <1>2 DEF MappingTask

(* An accepted acknowledgement confirms what the cloud holds, and the cloud *)
(* learns an id only from a node that does not believe in another.          *)
LEMMA AcceptedAbstract ==
  ASSUME IInv, PubackAccepted
  PROVE  Abstract
<1>1. cloud = data.user /\ data.user \in Id /\ cloud' = cloud
  BY AcceptedIsLast DEF IInv, PubackAccepted, delivery
<1>2. CASE data.user = ResetId
  BY <1>1, <1>2 DEF PubackAccepted, Abstract, Belief, Association!Next,
     Association!GiveUp
<1>3. CASE data.user # ResetId
  BY <1>1, <1>3, MappingAssumption DEF PubackAccepted, Abstract, Belief, Id,
     Association!Next, Association!Confirm, Association!GiveUp
<1> QED
  BY <1>2, <1>3

LEMMA DeliveryAbstract ==
  ASSUME IInv, Delivery
  PROVE  Abstract
<1> DEFINE u == Head(outbox).user
<1>1. cloud' = u /\ UNCHANGED <<mapping, nvs>> /\ outbox # <<>> /\ outbox \in Seq(Message)
  BY DEF Delivery, CloudReceives, request, IInv, TypeOK, MappingTypeOK
<1>2. Head(outbox) = outbox[1] /\ 1 \in 1..Len(outbox) /\ u \in Id
  <2>1. Head(outbox) \in Message /\ Head(outbox) = outbox[1] /\ Len(outbox) >= 1
    BY <1>1
  <2> QED
    BY <2>1, <1>1 DEF Message
<1>3. Belief \in {NoUser, u}
  BY <1>2 DEF Belief, IInv, Confirmed, StoredIsConfirmed
<1> QED
  BY <1>1, <1>2, <1>3 DEF Abstract, Belief, Association!Next, Association!Learn

LEMMA RebootAbstract ==
  ASSUME IInv, Reboot
  PROVE  Abstract
<1>1. mapping' = StateAtBoot(nvs) /\ UNCHANGED <<nvs, cloud>>
  BY DEF Reboot, MappingReboot
<1> QED
  BY <1>1 DEF StateAtBoot, IInv, Confirmed, StoredIsConfirmed, Abstract, Belief,
     Association!Next, Association!Confirm, Association!GiveUp

LEMMA StepAbstract == IInv /\ [Next]_vars => Abstract
<1> SUFFICES ASSUME IInv, [Next]_vars PROVE Abstract
  OBVIOUS
<1>u. ASSUME UNCHANGED mvars PROVE Abstract
  BY <1>u, Stutters DEF mvars, request, delivery
<1>f. ASSUME NEW c, StartFinish(c) PROVE Abstract
  BY <1>f, Stutters DEF StartFinish, delivery
<1>1. CASE WorkQueue
  <2>1. CASE RmakerTask \/ RmakerTaskConnects \/ RmakerTaskFails \/ PostConnectFails
             \/ ReportConfig \/ FinishIfMapped \/ AwaitMapping \/ AwaitReset
             \/ ParamsInit
    BY <2>1, <1>u DEF RmakerTask, RmakerTaskConnects, RmakerTaskFails,
       PostConnectFails, ReportConfig, FinishIfMapped, AwaitMapping, AwaitReset,
       ParamsInit
  <2>2. CASE ResetMapping
    <3>1. StartTake("work", ResetId) \/ StartFinish("work")
      BY <2>2 DEF ResetMapping
    <3> QED
      BY <3>1, <1>f, StartAbstract DEF Id
  <2> QED
    BY <1>1, <2>1, <2>2, MappingTaskAbstract DEF WorkQueue
<1>2. CASE EventLoop
  <2>1. CASE OnConnected \/ OnDisconnected \/ OnWifiReset
    BY <2>1, <1>u DEF OnConnected, OnDisconnected, OnWifiReset
  <2>2. ASSUME NEW k, NEW h, OnMapping(k, h) PROVE Abstract
    BY <2>2, <1>u DEF OnMapping
  <2>3. CASE OnConfigReported
    BY <2>3, Stutters DEF OnConfigReported, ConfigReportedHandler, request, delivery
  <2>4. CASE OnPuback
    BY <2>4, <1>u, AcceptedAbstract DEF OnPuback, PubackIgnored, PubackTimesOut
  <2>5. CASE OnFactoryReset
    BY <2>5, <1>u, StartAbstract DEF OnFactoryReset, Id
  <2>6. CASE StartFinish("event")
    BY <2>6, <1>f
  <2> QED
    BY <1>2, <2>1, <2>2, <2>3, <2>4, <2>5, <2>6 DEF EventLoop
<1>3. CASE Start \/ Stop \/ NodeDeinit
  BY <1>3, <1>u DEF Start, Stop, NodeDeinit
<1>4. CASE TimerTask
  BY <1>4, Stutters DEF TimerTask, RetryExpires, RetryQueues, request, delivery
<1>5. CASE RequestMapping
  BY <1>5, StartAbstract DEF RequestMapping, Id
<1>6. CASE FinishRequest
  BY <1>6, <1>f DEF FinishRequest
<1>7. CASE NetworkUp \/ BrokerConnects \/ LinkDrops \/ UserResets
  BY <1>7, <1>u DEF NetworkUp, BrokerConnects, LinkDrops, UserResets
<1>8. CASE Delivery \/ Reboot
  BY <1>8, DeliveryAbstract, RebootAbstract
<1>9. CASE UNCHANGED vars
  BY <1>9, <1>u DEF vars
<1> QED
  BY <1>1, <1>2, <1>3, <1>4, <1>5, <1>6, <1>7, <1>8, <1>9 DEF Next, Environment

(* User-node mapping, with its tasks, retries, messages and restarts, does  *)
(* nothing that Association does not allow.                                 *)
THEOREM MappingImplementsAssociation == Spec => ImplementsAssociation
<1>1. Init => Association!Init
  BY DEF Init, MappingInit, StateAtBoot, Association!Init, Belief
<1>2. IInv /\ [Next]_vars => [Association!Next]_<<Belief, cloud>>
  BY StepAbstract DEF Abstract
<1> QED
  BY <1>1, <1>2, Invariance, PTL DEF Spec, ImplementsAssociation, Association!Spec

(* What the abstract specification promises: the node never believes in a   *)
(* user other than the one the cloud holds, the guarantee user_mapping.c    *)
(* gives by waiting for the acknowledgement of the very message it          *)
(* published.  The agent, which implements it, keeps it too.                *)
THEOREM AssociationAgreement ==
  /\ Association!Spec => []Association!Agreement
  /\ Spec => []Association!Agreement
<1>1. Association!Init => Association!Agreement
  BY DEF Association!Init, Association!Agreement
<1>2. Association!Agreement /\ [Association!Next]_<<Belief, cloud>>
        => Association!Agreement'
  BY DEF Association!Agreement, Association!Next, Association!GiveUp,
         Association!Confirm, Association!Learn
<1>3. Association!Spec => []Association!Agreement
  BY <1>1, <1>2, PTL DEF Association!Spec
<1>4. Spec => Association!Spec
  BY MappingImplementsAssociation DEF ImplementsAssociation
<1> QED
  BY <1>3, <1>4, PTL
-----------------------------------------------------------------------------
(* No request is published twice.  A request that may still be published is *)
(* in no message on its way, and nobody has seen a higher request number.   *)
UnsentIsNew ==
    section # "record" /\ data.user # NoUser /\ ~data.sent =>
        \A i \in 1..Len(outbox) : outbox[i].req # data.req

RequestsCounted ==
    /\ data.req <= starts
    /\ \A i \in 1..Len(outbox) : outbox[i].req <= starts

RequestsDistinct == RequestsCounted /\ UnsentIsNew /\ PublishedOnce

LEMMA SameRequests ==
  ASSUME RequestsDistinct, UNCHANGED <<data, starts, outbox>>,
         section = "record" => section' = "record"
  PROVE  RequestsDistinct'
BY DEF RequestsDistinct, RequestsCounted, UnsentIsNew, PublishedOnce

LEMMA StartDistinct ==
  ASSUME TypeOK, Confirmed, RequestsDistinct, NEW c, NEW u \in Id, StartTake(c, u)
  PROVE  RequestsDistinct'
<1>1. /\ data'.req = starts + 1 /\ starts' = starts + 1 /\ outbox' = outbox
      /\ starts \in Nat /\ outbox \in Seq(Message)
  BY DEF StartTake, delivery, TypeOK, MappingTypeOK
<1>2. ASSUME NEW i \in 1..Len(outbox)
      PROVE  outbox[i].req \in Nat /\ outbox[i].req <= starts
  <2>1. outbox[i] \in Message
    BY <1>1
  <2> QED
    BY <2>1 DEF RequestsDistinct, RequestsCounted, Message
<1>3. RequestsCounted' /\ UnsentIsNew'
  BY <1>1, <1>2 DEF RequestsCounted, UnsentIsNew
<1> QED
  BY <1>1, <1>3 DEF RequestsDistinct, PublishedOnce

LEMMA FinishDistinct ==
  ASSUME Confirmed, RequestsDistinct, NEW c \in Caller, StartFinish(c)
  PROVE  RequestsDistinct'
<1>1. section # "record" /\ UNCHANGED <<data, starts, outbox>>
  BY DEF StartFinish, delivery
<1> QED
  BY <1>1, SameRequests

LEMMA MappingTaskDistinct ==
  ASSUME TypeOK, Confirmed, RequestsDistinct, MappingTask
  PROVE  RequestsDistinct'
<1>t. outbox \in Seq(Message) /\ data \in Request /\ starts \in Nat
  BY DEF TypeOK, MappingTypeOK
<1>1. CASE MappingTaskSkips \/ MappingTaskStarts \/ MappingPublishFails
  <2>1. section # "record" /\ UNCHANGED <<data, starts, outbox>>
    BY <1>1 DEF MappingTaskSkips, MappingTaskStarts, MappingPublishFails, mvars,
       request, delivery, Confirmed, LockHeld
  <2> QED
    BY <2>1, SameRequests
<1>2. CASE MappingPublishes
  <2> DEFINE m == [id |-> published + 1, req |-> data.req, user |-> data.user]
  <2>1. /\ outbox' = Append(outbox, m) /\ m.req = data.req
        /\ section = "publish" /\ section' = "record" /\ UNCHANGED <<data, starts>>
    BY <1>2 DEF MappingPublishes
  <2> HIDE DEF m
  <2>2. /\ Len(outbox') = Len(outbox) + 1 /\ Len(outbox) \in Nat
        /\ \A i \in 1..Len(outbox) : outbox'[i] = outbox[i]
        /\ outbox'[Len(outbox')] = m
    BY <2>1, <1>t
  <2>3. \A i \in 1..Len(outbox) : outbox[i].req # data.req
    BY <2>1 DEF Confirmed, SendsData, RequestsDistinct, UnsentIsNew
  <2>4. \A i \in 1..Len(outbox') : i \in 1..Len(outbox) \/ i = Len(outbox')
    BY <2>2
  <2>5. RequestsCounted' /\ UnsentIsNew'
    BY <2>1, <2>2, <2>4 DEF RequestsDistinct, RequestsCounted, UnsentIsNew
  <2>6. PublishedOnce'
    BY <2>1, <2>2, <2>3, <2>4 DEF RequestsDistinct, PublishedOnce
  <2> QED
    BY <2>5, <2>6 DEF RequestsDistinct
<1>3. CASE MappingTaskEnds
  <2>1. /\ data'.sent = TRUE /\ data'.req = data.req /\ data'.user = data.user
        /\ UNCHANGED <<starts, outbox>>
    BY <1>3, <1>t DEF MappingTaskEnds, delivery, Request
  <2> QED
    BY <2>1 DEF RequestsDistinct, RequestsCounted, UnsentIsNew, PublishedOnce
<1> QED
  BY <1>1, <1>2, <1>3 DEF MappingTask

(* An acknowledgement is accepted when no message is on its way.            *)
LEMMA AcceptedDistinct ==
  ASSUME TypeOK, Confirmed, RequestsDistinct, PubackAccepted
  PROVE  RequestsDistinct'
<1>1. data' = NoData /\ outbox' = outbox /\ starts' = starts /\ starts \in Nat
  BY DEF PubackAccepted, delivery, TypeOK, MappingTypeOK
<1> QED
  BY <1>1 DEF RequestsDistinct, RequestsCounted, UnsentIsNew, PublishedOnce, NoData

LEMMA DeliveryDistinct ==
  ASSUME TypeOK, RequestsDistinct, Delivery
  PROVE  RequestsDistinct'
<1>t. outbox \in Seq(Message) /\ outbox # <<>>
  BY DEF TypeOK, MappingTypeOK, Delivery, CloudReceives
<1>1. outbox' = Tail(outbox) /\ UNCHANGED <<data, starts, section>>
  BY DEF Delivery, CloudReceives, request
<1>2. /\ Len(outbox) \in Nat /\ Len(outbox) >= 1 /\ Len(outbox') = Len(outbox) - 1
      /\ \A i \in 1..Len(outbox') : i + 1 \in 1..Len(outbox) /\ outbox'[i] = outbox[i + 1]
  BY <1>1, <1>t
<1>3. RequestsCounted' /\ UnsentIsNew'
  BY <1>1, <1>2 DEF RequestsDistinct, RequestsCounted, UnsentIsNew
<1>4. ASSUME NEW i \in 1..Len(outbox'), NEW j \in 1..Len(outbox'),
             outbox'[i].req = outbox'[j].req
      PROVE  i = j
  <2>1. i + 1 = j + 1
    BY <1>2, <1>4 DEF RequestsDistinct, PublishedOnce
  <2> QED
    BY <2>1, <1>2
<1> QED
  BY <1>3, <1>4 DEF RequestsDistinct, PublishedOnce

LEMMA StepDistinct == IInv /\ RequestsDistinct /\ [Next]_vars => RequestsDistinct'
<1> SUFFICES ASSUME TypeOK, Confirmed, RequestsDistinct, [Next]_vars
             PROVE  RequestsDistinct'
  BY DEF IInv
<1>u. ASSUME UNCHANGED mvars PROVE RequestsDistinct'
  BY <1>u, SameRequests DEF mvars, request, delivery
<1>1. CASE WorkQueue
  <2>1. CASE RmakerTask \/ RmakerTaskConnects \/ RmakerTaskFails \/ PostConnectFails
             \/ ReportConfig \/ FinishIfMapped \/ AwaitMapping \/ AwaitReset \/ ParamsInit
    BY <2>1, <1>u DEF RmakerTask, RmakerTaskConnects, RmakerTaskFails, ReportConfig,
       PostConnectFails, FinishIfMapped, AwaitMapping, AwaitReset, ParamsInit
  <2>2. CASE ResetMapping
    <3>1. StartTake("work", ResetId) \/ StartFinish("work")
      BY <2>2 DEF ResetMapping
    <3> QED
      BY <3>1, StartDistinct, FinishDistinct DEF Caller, Id
  <2> QED
    BY <1>1, <2>1, <2>2, MappingTaskDistinct DEF WorkQueue
<1>2. CASE EventLoop
  <2>1. CASE OnConnected \/ OnDisconnected \/ OnWifiReset
    BY <2>1, <1>u DEF OnConnected, OnDisconnected, OnWifiReset
  <2>2. ASSUME NEW k, NEW h, OnMapping(k, h) PROVE RequestsDistinct'
    BY <2>2, <1>u DEF OnMapping
  <2>3. CASE OnConfigReported
    BY <2>3, SameRequests DEF OnConfigReported, ConfigReportedHandler, request, delivery
  <2>4. CASE OnPuback
    BY <2>4, <1>u, AcceptedDistinct DEF OnPuback, PubackIgnored, PubackTimesOut
  <2>5. CASE OnFactoryReset
    BY <2>5, <1>u, StartDistinct DEF OnFactoryReset, Id
  <2>6. CASE StartFinish("event")
    BY <2>6, FinishDistinct DEF Caller
  <2> QED
    BY <1>2, <2>1, <2>2, <2>3, <2>4, <2>5, <2>6 DEF EventLoop
<1>3. CASE Start \/ Stop \/ NodeDeinit
  BY <1>3, <1>u DEF Start, Stop, NodeDeinit
<1>4. CASE TimerTask
  BY <1>4, SameRequests DEF TimerTask, RetryExpires, RetryQueues, request, delivery
<1>5. CASE RequestMapping
  BY <1>5, StartDistinct DEF RequestMapping, Id
<1>6. CASE FinishRequest
  BY <1>6, FinishDistinct DEF FinishRequest, Caller
<1>7. CASE NetworkUp \/ BrokerConnects \/ LinkDrops \/ UserResets
  BY <1>7, <1>u DEF NetworkUp, BrokerConnects, LinkDrops, UserResets
<1>8. CASE Delivery
  BY <1>8, DeliveryDistinct
<1>9. CASE Reboot
  BY <1>9 DEF Reboot, MappingReboot, NoData, RequestsDistinct, RequestsCounted,
     UnsentIsNew, PublishedOnce
<1>10. CASE UNCHANGED vars
  BY <1>10, <1>u DEF vars
<1> QED
  BY <1>1, <1>2, <1>3, <1>4, <1>5, <1>6, <1>7, <1>8, <1>9, <1>10 DEF Next, Environment

(* However often the work queue is given the mapping task - by requests, by *)
(* the config-reported handler, by the retries - no two messages carry the  *)
(* same request, for any requests, refusals, failures and restarts.         *)
THEOREM RequestsPublishedOnce == Spec => []PublishedOnce
<1>1. Init => RequestsDistinct
  BY DEF Init, MappingInit, NoData, RequestsDistinct, RequestsCounted, UnsentIsNew,
     PublishedOnce
<1>2. RequestsDistinct => PublishedOnce
  BY DEF RequestsDistinct
<1> QED
  BY <1>1, <1>2, StepDistinct, Invariance, PTL DEF Spec
-----------------------------------------------------------------------------
(* The agent starts once.  From esp_rmaker_task to the tasks that follow    *)
(* its configuration, one thing at a time carries the start: a task of the  *)
(* queue, a handler waiting for its event, or the work queue task.          *)
Opening == {"rmaker", "post_connect"}
AfterConfig == {"choose", "recheck", "reset", "resetting", "await"}

OpeningQueued == \E i \in 1..Len(queue) : queue[i] \in Opening
ParamsQueued  == \E i \in 1..Len(queue) : queue[i] = "params_init"
OneOpening ==
    \A i, j \in 1..Len(queue) : queue[i] \in Opening /\ queue[j] \in Opening => i = j

AwaitsMapping == "agent_done" \in reg \/ "agent_reset" \in reg

Early == OpeningQueued \/ work = "wait_network" \/ "agent_connected" \in reg
Late  == work \in AfterConfig \/ AwaitsMapping \/ ParamsQueued

LateIsReported ==
    Late => ~Early /\ agent \in {"config_reported", "stop_requested", "started"}

OneChain ==
    /\ LateIsReported
    /\ OneOpening /\ ("agent_connected" \in reg => ~OpeningQueued)
    /\ work \in AfterConfig => ~AwaitsMapping /\ ~ParamsQueued
    /\ agent = "deinit" => ~running

LEMMA QueueTaken ==
  ASSUME queue \in Seq(Task), queue # <<>>, queue' = Tail(queue)
  PROVE  /\ OpeningQueued' => OpeningQueued
         /\ ParamsQueued' => ParamsQueued
         /\ OneOpening => OneOpening'
         /\ OneOpening /\ Head(queue) \in Opening => ~OpeningQueued'
         /\ Head(queue) \in Opening => OpeningQueued
         /\ Head(queue) = "params_init" => ParamsQueued
<1>1. /\ Len(queue) \in Nat /\ Len(queue) >= 1 /\ Head(queue) = queue[1]
      /\ Len(queue') = Len(queue) - 1 /\ 1 \in 1..Len(queue)
      /\ \A i \in 1..Len(queue') : i + 1 \in 1..Len(queue) /\ queue'[i] = queue[i + 1]
  OBVIOUS
<1>2. (OpeningQueued' => OpeningQueued) /\ (ParamsQueued' => ParamsQueued)
  BY <1>1 DEF OpeningQueued, ParamsQueued
<1>3. ASSUME OneOpening, NEW i \in 1..Len(queue'), NEW j \in 1..Len(queue'),
             queue'[i] \in Opening, queue'[j] \in Opening
      PROVE  i = j
  <2>1. i + 1 = j + 1
    BY <1>1, <1>3 DEF OneOpening
  <2> QED
    BY <2>1, <1>1
<1>4. ASSUME OneOpening, Head(queue) \in Opening, NEW i \in 1..Len(queue'),
             queue'[i] \in Opening
      PROVE  FALSE
  <2>1. i + 1 = 1
    BY <1>1, <1>4 DEF OneOpening
  <2> QED
    BY <2>1, <1>1
<1> QED
  BY <1>1, <1>2, <1>3, <1>4 DEF OneOpening, OpeningQueued, ParamsQueued

LEMMA QueueGrows ==
  ASSUME queue \in Seq(Task), NEW t, queue' = Append(queue, t)
  PROVE  /\ t \notin Opening => (OpeningQueued' <=> OpeningQueued)
         /\ t # "params_init" => (ParamsQueued' <=> ParamsQueued)
         /\ OneOpening /\ (t \notin Opening \/ ~OpeningQueued) => OneOpening'
<1>1. /\ Len(queue) \in Nat /\ Len(queue') = Len(queue) + 1 /\ queue'[Len(queue')] = t
      /\ \A i \in 1..Len(queue) : i \in 1..Len(queue') /\ queue'[i] = queue[i]
  OBVIOUS
<1>2. \A i \in 1..Len(queue') : i \in 1..Len(queue) \/ i = Len(queue')
  BY <1>1
<1>3. t \notin Opening => (OpeningQueued' <=> OpeningQueued)
  BY <1>1, <1>2 DEF OpeningQueued
<1>4. t # "params_init" => (ParamsQueued' <=> ParamsQueued)
  BY <1>1, <1>2 DEF ParamsQueued
<1>5. OneOpening /\ (t \notin Opening \/ ~OpeningQueued) => OneOpening'
  BY <1>1, <1>2 DEF OneOpening, OpeningQueued
<1> QED
  BY <1>3, <1>4, <1>5

LEMMA QueueSame ==
  ASSUME queue' = queue
  PROVE  /\ OpeningQueued' <=> OpeningQueued
         /\ ParamsQueued' <=> ParamsQueued
         /\ OneOpening' <=> OneOpening
BY DEF OpeningQueued, ParamsQueued, OneOpening

(* A step that is not about the start: it adds at most the mapping task.    *)
Aside ==
    /\ UNCHANGED <<agent, running>>
    /\ work' = work \/ work' \in {"idle", "mapping"}
    /\ reg' \subseteq reg \cup {"mapping_config", "mapping_puback"}
    /\ \/ UNCHANGED queue
       \/ queue # <<>> /\ queue' = Tail(queue)
       \/ queue' = Append(queue, "mapping")

LEMMA AsideKeepsChain ==
  ASSUME TypeOK, OneChain, Aside
  PROVE  OneChain'
<1>t. queue \in Seq(Task)
  BY DEF TypeOK
<1>1. /\ OpeningQueued' => OpeningQueued
      /\ ParamsQueued' => ParamsQueued
      /\ OneOpening'
  <2>1. CASE UNCHANGED queue
    BY <2>1, QueueSame DEF OneChain
  <2>2. CASE queue # <<>> /\ queue' = Tail(queue)
    BY <2>2, <1>t, QueueTaken DEF OneChain
  <2>3. CASE queue' = Append(queue, "mapping")
    BY <2>3, <1>t, QueueGrows DEF OneChain, Opening
  <2> QED
    BY <2>1, <2>2, <2>3 DEF Aside
<1>2. /\ AwaitsMapping' => AwaitsMapping
      /\ "agent_connected" \in reg' => "agent_connected" \in reg
      /\ work' \in AfterConfig => work \in AfterConfig
      /\ work' = "wait_network" => work = "wait_network"
  BY DEF Aside, AwaitsMapping, AfterConfig
<1> QED
  BY <1>1, <1>2 DEF Aside, OneChain, LateIsReported, Late, Early

(* The task being run is "idle" while a task is taken from the queue.       *)
LEMMA WorkQueueChain == TypeOK /\ OneChain /\ WorkQueue => OneChain'
<1> SUFFICES ASSUME TypeOK, OneChain, WorkQueue PROVE OneChain'
  OBVIOUS
<1>t. queue \in Seq(Task)
  BY DEF TypeOK
<1>a. ASSUME Aside PROVE OneChain'
  BY <1>a, AsideKeepsChain
<1>1. CASE RmakerTask
  <2>1. queue # <<>> /\ queue' = Tail(queue) /\ Head(queue) \in Opening /\ running
    BY <1>1 DEF RmakerTask, Running, Opening
  <2>2. OpeningQueued /\ ~OpeningQueued' /\ OneOpening' /\ (ParamsQueued' => ParamsQueued)
    BY <2>1, <1>t, QueueTaken DEF OneChain
  <2>3. ~Late
    BY <2>2 DEF OneChain, LateIsReported, Early
  <2>4. ~Late'
    BY <1>1, <2>2, <2>3 DEF RmakerTask, Late, AwaitsMapping, AfterConfig
  <2> QED
    BY <1>1, <2>2, <2>4 DEF RmakerTask, OneChain, LateIsReported, Late
<1>2. CASE RmakerTaskConnects
  BY <1>2, <1>a DEF RmakerTaskConnects, Aside
<1>3. CASE RmakerTaskFails
  <2>1. ~Late /\ queue' = queue
    BY <1>3 DEF RmakerTaskFails, OneChain, LateIsReported, Early
  <2>2. OneOpening' /\ (ParamsQueued' <=> ParamsQueued)
        /\ (OpeningQueued' <=> OpeningQueued)
    BY <2>1, QueueSame DEF OneChain
  <2> QED
    BY <1>3, <2>1, <2>2 DEF RmakerTaskFails, OneChain, LateIsReported, Late,
       AwaitsMapping, AfterConfig
<1>4. CASE PostConnectFails
  <2>1. /\ ~AwaitsMapping' /\ ~ParamsQueued' /\ OneOpening'
        /\ "agent_connected" \in reg' => ~OpeningQueued'
    <3>1. CASE Running("post_connect") /\ queue' = Tail(queue)
      <4>1. queue # <<>> /\ Head(queue) \in Opening
        BY <3>1 DEF Running, Opening
      <4>2. OpeningQueued /\ OneOpening' /\ (ParamsQueued' => ParamsQueued)
            /\ (OpeningQueued' => OpeningQueued)
        BY <3>1, <4>1, <1>t, QueueTaken DEF OneChain
      <4>3. ~Late
        BY <4>2 DEF OneChain, LateIsReported, Early
      <4> QED
        BY <1>4, <4>2, <4>3 DEF PostConnectFails, OneChain, Late, AwaitsMapping
    <3>2. CASE work = "choose" /\ UNCHANGED queue
      BY <1>4, <3>2, QueueSame DEF PostConnectFails, OneChain, AfterConfig, AwaitsMapping
    <3> QED
      BY <1>4, <3>1, <3>2 DEF PostConnectFails
  <2> QED
    BY <1>4, <2>1 DEF PostConnectFails, OneChain, LateIsReported, Late, AfterConfig
<1>5. CASE ReportConfig
  <2>1. queue # <<>> /\ queue' = Tail(queue) /\ Head(queue) \in Opening
    BY <1>5 DEF ReportConfig, Running, Opening
  <2>2. OpeningQueued /\ ~OpeningQueued' /\ OneOpening' /\ (ParamsQueued' => ParamsQueued)
    BY <2>1, <1>t, QueueTaken DEF OneChain
  <2>3. ~Late /\ "agent_connected" \notin reg
    BY <2>2 DEF OneChain, LateIsReported, Early
  <2> QED
    BY <1>5, <2>2, <2>3 DEF ReportConfig, OneChain, LateIsReported, Late, Early,
       AwaitsMapping
<1>6. CASE FinishIfMapped \/ AwaitMapping \/ AwaitReset
  <2>1. /\ work \in AfterConfig /\ queue' = queue /\ running' = running
        /\ reg' \in {reg, reg \cup {"agent_done"}, reg \cup {"agent_reset"}}
        /\ agent' \in {agent, "started"}
        /\ work' # "wait_network"
        /\ reg' = reg \/ work' = "idle"
    BY <1>6 DEF FinishIfMapped, AwaitMapping, AwaitReset, AfterConfig, outside
  <2>2. /\ ~Early /\ ~ParamsQueued /\ ~AwaitsMapping
        /\ agent \in {"config_reported", "stop_requested", "started"}
    BY <2>1 DEF OneChain, LateIsReported, Late
  <2>3. ~OpeningQueued' /\ ~ParamsQueued' /\ OneOpening'
    BY <2>1, <2>2, QueueSame DEF OneChain, Early
  <2>4. ~Early'
    BY <2>1, <2>2, <2>3 DEF Early
  <2> QED
    BY <2>1, <2>2, <2>3, <2>4 DEF OneChain, LateIsReported, AfterConfig, AwaitsMapping
<1>7. CASE ResetMapping
  <2>1. /\ work \in AfterConfig /\ work' \in AfterConfig
        /\ UNCHANGED <<agent, running>>
        /\ reg' \subseteq reg \cup {"mapping_config"}
        /\ queue' = queue \/ queue' = Append(queue, "mapping")
    BY <1>7 DEF ResetMapping, StartFinish, QueueOrRetry, AddTask, Refused, AfterConfig,
       outside
  <2>2. /\ OpeningQueued' <=> OpeningQueued
        /\ ParamsQueued' <=> ParamsQueued
        /\ OneOpening'
    BY <2>1, <1>t, QueueSame, QueueGrows DEF OneChain, Opening
  <2>3. /\ AwaitsMapping' => AwaitsMapping
        /\ "agent_connected" \in reg' => "agent_connected" \in reg
        /\ work' # "wait_network"
    BY <2>1 DEF AwaitsMapping, AfterConfig
  <2> QED
    BY <2>1, <2>2, <2>3 DEF OneChain, LateIsReported, Late, Early
<1>8. CASE ParamsInit
  <2>1. queue # <<>> /\ queue' = Tail(queue) /\ Head(queue) = "params_init"
        /\ work = "idle"
    BY <1>8 DEF ParamsInit, Running
  <2>2. ParamsQueued /\ OneOpening' /\ (OpeningQueued' => OpeningQueued)
        /\ (ParamsQueued' => ParamsQueued)
    BY <2>1, <1>t, QueueTaken DEF OneChain
  <2>3. ~Early /\ ~Early'
    BY <1>8, <2>1, <2>2 DEF ParamsInit, OneChain, LateIsReported, Late, Early
  <2> QED
    BY <1>8, <2>1, <2>2, <2>3 DEF ParamsInit, OneChain, LateIsReported, Early, AfterConfig,
       outside
<1>9. CASE MappingTask
  <2>1. Aside
    BY <1>9 DEF MappingTask, MappingTaskSkips, MappingTaskStarts, MappingPublishes,
       MappingPublishFails, MappingTaskEnds, Running, Aside, outside
  <2> QED
    BY <2>1, <1>a
<1> QED
  BY <1>1, <1>2, <1>3, <1>4, <1>5, <1>6, <1>7, <1>8, <1>9 DEF WorkQueue

LEMMA EventLoopChain == TypeOK /\ OneChain /\ EventLoop => OneChain'
<1> SUFFICES ASSUME TypeOK, OneChain, EventLoop PROVE OneChain'
  OBVIOUS
<1>t. queue \in Seq(Task)
  BY DEF TypeOK
<1>a. ASSUME Aside PROVE OneChain'
  BY <1>a, AsideKeepsChain
<1>1. CASE OnConnected /\ "agent_connected" \in reg
  <2>1. /\ reg' = reg \ {"agent_connected"} /\ UNCHANGED <<agent, work, running>>
        /\ queue' = queue \/ queue' = Append(queue, "post_connect")
    BY <1>1 DEF OnConnected, TryTask, AddTask, Refused
  <2>2. ~Late /\ ~OpeningQueued
    BY <1>1 DEF OneChain, LateIsReported, Early
  <2>3. OneOpening' /\ (ParamsQueued' <=> ParamsQueued)
    BY <2>1, <2>2, <1>t, QueueSame, QueueGrows DEF OneChain
  <2> QED
    BY <2>1, <2>2, <2>3 DEF OneChain, LateIsReported, Late, AwaitsMapping
<1>2. CASE OnConnected /\ "agent_connected" \notin reg
  BY <1>2, <1>a DEF OnConnected, Aside
<1>3. ASSUME NEW k, NEW h \in {"agent_done", "agent_reset"}, OnMapping(k, h)
      PROVE  OneChain'
  <2>1. CASE h \notin reg
    BY <1>3, <2>1, <1>a DEF OnMapping, Aside, outside
  <2>2. CASE h \in reg
    <3>1. /\ reg' = reg \ {h} /\ UNCHANGED <<agent, work, running>>
          /\ queue' = queue \/ queue' = Append(queue, "params_init")
      BY <1>3, <2>2 DEF OnMapping, TryTask, AddTask, Refused, outside
    <3>2. AwaitsMapping /\ ~Early /\ work \notin AfterConfig
          /\ agent \in {"config_reported", "stop_requested", "started"}
      BY <2>2 DEF OneChain, LateIsReported, Late, AwaitsMapping
    <3>3. OneOpening' /\ ~OpeningQueued'
      BY <3>1, <3>2, <1>t, QueueSame, QueueGrows DEF OneChain, Early, Opening
    <3> QED
      BY <3>1, <3>2, <3>3 DEF OneChain, LateIsReported, Early
  <2> QED
    BY <2>1, <2>2
<1>4. CASE OnDisconnected \/ OnConfigReported \/ OnPuback \/ OnFactoryReset
           \/ OnWifiReset \/ (StartFinish("event") /\ UNCHANGED <<agent, work, evq, outside>>)
  <2>1. Aside
    BY <1>4 DEF OnDisconnected, OnConfigReported, ConfigReportedHandler, OnPuback,
       PubackIgnored, PubackTimesOut, PubackAccepted, OnFactoryReset, OnWifiReset,
       StartFinish, QueueOrRetry, AddTask, Refused, Aside, outside
  <2> QED
    BY <2>1, <1>a
<1> QED
  BY <1>1, <1>2, <1>3, <1>4 DEF EventLoop

LEMMA StepChain == TypeOK /\ OneChain /\ [Next]_vars => OneChain'
<1> SUFFICES ASSUME TypeOK, OneChain, [Next]_vars PROVE OneChain'
  OBVIOUS
<1>a. ASSUME Aside PROVE OneChain'
  BY <1>a, AsideKeepsChain
<1>1. CASE Start \/ Stop
  <2>1. UNCHANGED <<queue, work, reg>>
    BY <1>1 DEF Start, Stop, platform
  <2> QED
    BY <1>1, <2>1, QueueSame DEF Start, Stop, platform, outside, OneChain,
       LateIsReported, Late, Early, AwaitsMapping
<1>2. CASE NodeDeinit
  <2>1. ~Late
    BY <1>2 DEF NodeDeinit, OneChain, LateIsReported
  <2>2. ~OpeningQueued' /\ ~ParamsQueued' /\ OneOpening'
    BY <1>2 DEF NodeDeinit, OpeningQueued, ParamsQueued, OneOpening
  <2> QED
    BY <1>2, <2>1, <2>2 DEF NodeDeinit, OneChain, LateIsReported, Late, AwaitsMapping
<1>3. CASE TimerTask \/ FinishRequest \/ RequestMapping
  <2>1. Aside
    BY <1>3 DEF TimerTask, RetryExpires, RetryQueues, FinishRequest, StartFinish,
       RequestMapping, QueueOrRetry, AddTask, Refused, Aside, platform, outside
  <2> QED
    BY <2>1, <1>a
<1>4. CASE NetworkUp \/ BrokerConnects \/ LinkDrops \/ UserResets \/ Delivery
           \/ UNCHANGED vars
  <2>1. Aside
    BY <1>4 DEF NetworkUp, BrokerConnects, LinkDrops, UserResets, Delivery, vars,
       Aside, platform, outside
  <2> QED
    BY <2>1, <1>a
<1>5. CASE Reboot
  <2>1. /\ queue' = <<"rmaker">> /\ work' = "idle" /\ reg' = {}
        /\ agent' = "init_done"
    BY <1>5 DEF Reboot
  <2>2. OneOpening' /\ ~ParamsQueued'
    BY <2>1 DEF OneOpening, ParamsQueued
  <2> QED
    BY <2>1, <2>2 DEF OneChain, LateIsReported, Late, AwaitsMapping, AfterConfig
<1> QED
  BY <1>1, <1>2, <1>3, <1>4, <1>5, WorkQueueChain, EventLoopChain DEF Next, Environment

LEMMA InitChain == Init => OneChain
<1> SUFFICES ASSUME Init PROVE OneChain
  OBVIOUS
<1>1. OneOpening /\ ~ParamsQueued
  BY DEF Init, OneOpening, ParamsQueued
<1> QED
  BY <1>1 DEF Init, OneChain, LateIsReported, Late, AwaitsMapping, AfterConfig

(* Whatever fails, is refused, dropped, stopped or restarted on the way,    *)
(* the agent becomes STARTED only from a state it reaches by reporting its  *)
(* configuration (or by a stop requested after that).                       *)
THEOREM StartsOnlyAfterConfig == Spec => StartedAfterConfig
<1> DEFINE Kept == agent' = "started" => agent \in {"config_reported", "started",
                                                    "stop_requested"}
<1>1. TypeOK /\ OneChain /\ [Next]_vars => [Kept]_vars
  <2> SUFFICES ASSUME TypeOK, OneChain, Next, agent' = "started"
               PROVE  agent \in {"config_reported", "started", "stop_requested"}
    OBVIOUS
  <2>1. CASE FinishIfMapped
    BY <2>1 DEF FinishIfMapped, OneChain, LateIsReported, Late, AfterConfig
  <2>2. CASE ParamsInit
    <3>1. ParamsQueued
      <4>1. queue # <<>> /\ Head(queue) = "params_init" /\ queue' = Tail(queue)
        BY <2>2 DEF ParamsInit, Running
      <4> QED
        BY <4>1, QueueTaken DEF TypeOK
    <3> QED
      BY <3>1 DEF OneChain, LateIsReported, Late
  <2>3. CASE ~FinishIfMapped /\ ~ParamsInit
    <3>1. agent' \in {agent, "starting", "init_done", "config_reported",
                      "stop_requested", "deinit"}
      <4>1. CASE WorkQueue
        BY <2>3, <4>1 DEF WorkQueue, RmakerTask, RmakerTaskConnects, RmakerTaskFails,
           PostConnectFails, ReportConfig, AwaitMapping, ResetMapping, AwaitReset,
           MappingTask
      <4>2. CASE EventLoop
        BY <4>2 DEF EventLoop, OnConnected, OnDisconnected, OnMapping, OnConfigReported,
           OnPuback, OnFactoryReset, OnWifiReset
      <4>3. CASE Start \/ Stop \/ NodeDeinit \/ TimerTask \/ RequestMapping
                 \/ FinishRequest
        BY <4>3 DEF Start, Stop, NodeDeinit, TimerTask, RequestMapping, FinishRequest,
           platform
      <4>4. CASE Environment
        BY <4>4 DEF Environment, NetworkUp, BrokerConnects, LinkDrops, Delivery,
           UserResets, Reboot, platform
      <4> QED
        BY <4>1, <4>2, <4>3, <4>4 DEF Next
    <3> QED
      BY <3>1
  <2> QED
    BY <2>1, <2>2, <2>3
<1>2. IInv => TypeOK
  BY DEF IInv
<1> QED
  BY <1>1, <1>2, InitChain, StepChain, Invariance, PTL DEF Spec, StartedAfterConfig

-----------------------------------------------------------------------------
(* No request is forgotten, if requests come before the network is up, what *)
(* is published is taken, nobody stops the agent, and the work queue        *)
(* refuses no more often than there are retries.                            *)
Queued(t)    == \E i \in 1..Len(queue) : queue[i] = t
Coming(kind) == \E i \in 1..Len(evq) : evq[i].kind = kind
Unreported   == agent \in {"init_done", "starting"}

(* While the network is down the configuration is not reported, nor about   *)
(* to be.                                                                   *)
DownIsEarly ==
    net = "down" => /\ Unreported /\ link = "off"
                    /\ ~Queued("post_connect") /\ ~Coming("connected")

(* The handler of a request is registered before it is to be called: a user *)
(* asks while the network is down, and while the event loop makes a request *)
(* it calls no handler.                                                     *)
RegistersInTime ==
    section = "register" =>
        \/ lock = "prov" /\ net = "down"
        \/ lock = "event" /\ (Unreported \/ Coming("config_reported"))

(* A retry is counted for a refusal, and has a timer.                       *)
RetriesCounted ==
    retry.count <= refusals /\ (retry.inProgress <=> retry.armed)

Remembered ==
    /\ agent \notin {"stop_requested", "deinit"}
    /\ DownIsEarly /\ RegistersInTime /\ RetriesCounted /\ NotForgotten

LEMMA QueuedTail ==
  ASSUME queue \in Seq(Task), queue # <<>>, queue' = Tail(queue), NEW t
  PROVE  /\ Queued(t)' => Queued(t)
         /\ Queued(t) => Queued(t)' \/ Head(queue) = t
<1>1. /\ Len(queue) \in Nat /\ Len(queue) >= 1 /\ Head(queue) = queue[1]
      /\ Len(queue') = Len(queue) - 1
      /\ \A i \in 1..Len(queue') : i + 1 \in 1..Len(queue) /\ queue'[i] = queue[i + 1]
      /\ \A i \in 1..Len(queue) :
            i = 1 \/ (i - 1 \in 1..Len(queue') /\ queue'[i - 1] = queue[i])
  OBVIOUS
<1> QED
  BY <1>1 DEF Queued

LEMMA QueuedAppend ==
  ASSUME queue \in Seq(Task), NEW s, queue' = Append(queue, s), NEW t
  PROVE  Queued(t)' <=> Queued(t) \/ t = s
<1>1. /\ Len(queue) \in Nat /\ Len(queue') = Len(queue) + 1 /\ queue'[Len(queue')] = s
      /\ \A i \in 1..Len(queue) : i \in 1..Len(queue') /\ queue'[i] = queue[i]
      /\ \A i \in 1..Len(queue') : i \in 1..Len(queue) \/ i = Len(queue')
      /\ Len(queue') \in 1..Len(queue')
  OBVIOUS
<1> QED
  BY <1>1 DEF Queued

LEMMA ComingTail ==
  ASSUME evq \in Seq(EventRecord), evq # <<>>, evq' = Tail(evq), NEW k
  PROVE  /\ Coming(k)' => Coming(k)
         /\ Coming(k) => Coming(k)' \/ Head(evq).kind = k
<1>1. /\ Len(evq) \in Nat /\ Len(evq) >= 1 /\ Head(evq) = evq[1]
      /\ Len(evq') = Len(evq) - 1
      /\ \A i \in 1..Len(evq') : i + 1 \in 1..Len(evq) /\ evq'[i] = evq[i + 1]
      /\ \A i \in 1..Len(evq) :
            i = 1 \/ (i - 1 \in 1..Len(evq') /\ evq'[i - 1] = evq[i])
  OBVIOUS
<1> QED
  BY <1>1 DEF Coming

LEMMA ComingPosted ==
  ASSUME NEW q \in Seq(EventRecord), NEW kind, NEW i, evq' = Append(q, Event(kind, i)),
         NEW k
  PROVE  Coming(k)' <=> k = kind \/ \E j \in 1..Len(q) : q[j].kind = k
<1>1. /\ Len(q) \in Nat /\ Len(evq') = Len(q) + 1
      /\ evq'[Len(evq')] = Event(kind, i)
      /\ \A j \in 1..Len(q) : j \in 1..Len(evq') /\ evq'[j] = q[j]
      /\ \A j \in 1..Len(evq') : j \in 1..Len(q) \/ j = Len(evq')
      /\ Len(evq') \in 1..Len(evq')
  OBVIOUS
<1>2. Event(kind, i).kind = kind
  BY DEF Event
<1> QED
  BY <1>1, <1>2 DEF Coming

(* A refusal leaves a timer armed: there are enough retries for all.        *)
LEMMA RefusedIsRetried ==
  ASSUME TypeOK, RetriesCounted, MaxRefusals <= MaxRetries,
         Refused, retry' = Scheduled(retry)
  PROVE  RetriesCounted' /\ retry'.armed
<1>1. /\ retry \in RetryState /\ refusals \in Nat /\ refusals < MaxRefusals
      /\ refusals' = refusals + 1 /\ retry.count <= refusals
      /\ MaxRetries \in Nat /\ MaxRefusals \in Nat
  BY MappingAssumption, RefusalAssumption
     DEF TypeOK, MappingTypeOK, Refused, RetriesCounted
<1>2. retry.count \in Nat /\ ~(retry.count + 1 > MaxRetries)
  BY <1>1 DEF RetryState
<1> QED
  BY <1>1, <1>2 DEF Scheduled, RetriesCounted, RetryState

LEMMA IsQueued ==
  ASSUME TypeOK, RetriesCounted, MaxRefusals <= MaxRetries, QueueOrRetry
  PROVE  RetriesCounted' /\ (Queued("mapping")' \/ retry'.armed)
<1>1. CASE AddTask("mapping") /\ UNCHANGED retry
  BY <1>1, QueuedAppend DEF TypeOK, AddTask, RetriesCounted
<1>2. CASE Refused /\ retry' = Scheduled(retry)
  BY <1>2, RefusedIsRetried
<1> QED
  BY <1>1, <1>2 DEF QueueOrRetry

(* A step that is not about the request, for all that it knows of.          *)
LEMMA OthersRemember ==
  ASSUME TypeOK, Remembered, UNCHANGED <<data, lock, section, retry, timer>>,
         refusals' \in {refusals, refusals + 1},
         Queued("mapping") => Queued("mapping")',
         "mapping_config" \in reg => "mapping_config" \in reg',
         Coming("config_reported") => Coming("config_reported")',
         Unreported => Unreported' \/ Coming("config_reported")',
         net = "down" /\ lock = "prov" => net' = "down"
  PROVE  RegistersInTime' /\ RetriesCounted' /\ NotForgotten'
<1>1. RegistersInTime'
  BY DEF Remembered, RegistersInTime
<1>2. RetriesCounted'
  BY DEF Remembered, RetriesCounted, TypeOK, MappingTypeOK, RetryState
<1>3. NotForgotten'
  <2> SUFFICES ASSUME Waiting', lock' = "free" PROVE SomebodyWillQueue'
    BY DEF NotForgotten
  <2>1. SomebodyWillQueue
    BY DEF Remembered, NotForgotten, Waiting
  <2> QED
    BY <2>1 DEF SomebodyWillQueue, Queued, Coming, Unreported
<1> QED
  BY <1>1, <1>2, <1>3

(* A step that leaves to itself whether the configuration is reported.      *)
LEMMA StaysEarly ==
  ASSUME TypeOK, DownIsEarly,
         agent' = agent \/ Unreported', net' = net \/ net' = "up",
         link' \in {link, "off"} \/ net = "up",
         Queued("post_connect")' => Queued("post_connect") \/ Coming("connected"),
         Coming("connected")' => Coming("connected") \/ link # "off"
  PROVE  DownIsEarly'
BY DEF DownIsEarly, Unreported

(* A request is made, and the lock given back.                              *)
LEMMA StartRemembers ==
  ASSUME TypeOK, Remembered, NEW c \in {"work", "event", "prov"}, NEW u \in Id,
         StartTake(c, u), UNCHANGED <<agent, net, refusals>>,
         c = "prov" => net = "down",
         c = "work" => ~Unreported
  PROVE  RegistersInTime' /\ RetriesCounted' /\ NotForgotten'
<1>1. lock' = c /\ retry' = retry
  BY DEF StartTake
<1>2. section' = "register" => Unreported
  BY DEF StartTake, Remembered, TypeOK, AgentState, Unreported
<1>3. RegistersInTime'
  BY <1>1, <1>2 DEF RegistersInTime, Unreported
<1> QED
  BY <1>1, <1>3 DEF Remembered, RetriesCounted, NotForgotten

LEMMA FinishRemembers ==
  ASSUME TypeOK, Remembered, MaxRefusals <= MaxRetries,
         NEW c \in {"work", "event", "prov"}, StartFinish(c),
         UNCHANGED <<agent, evq>>
  PROVE  RegistersInTime' /\ RetriesCounted' /\ NotForgotten'
<1>1. section' = "none"
  BY DEF StartFinish
<1>2. CASE section = "queue"
  <2>1. RetriesCounted' /\ (Queued("mapping")' \/ retry'.armed)
    BY <1>2, IsQueued DEF StartFinish, Remembered
  <2> QED
    BY <1>1, <2>1 DEF RegistersInTime, NotForgotten, SomebodyWillQueue, Queued
<1>3. CASE section = "register"
  <2>1. UNCHANGED <<refusals, retry>> /\ "mapping_config" \in reg'
    BY <1>3 DEF StartFinish
  <2>2. Unreported \/ Coming("config_reported")
    BY <1>3 DEF Remembered, RegistersInTime, DownIsEarly
  <2> QED
    BY <1>1, <2>1, <2>2
       DEF RegistersInTime, RetriesCounted, Remembered, NotForgotten,
           SomebodyWillQueue, Unreported, Coming
<1> QED
  BY <1>2, <1>3 DEF StartFinish

(* Who carries out a request gives the lock back when it was sent.          *)
LEMMA MappingTaskRemembers ==
  ASSUME TypeOK, LockHeld, Remembered, ~PublishMayFail, MappingTask
  PROVE  RegistersInTime' /\ RetriesCounted' /\ NotForgotten'
<1>1. RetriesCounted'
  BY DEF MappingTask, MappingTaskSkips, MappingTaskStarts, MappingPublishes,
         MappingPublishFails, MappingTaskEnds, mvars, Remembered, RetriesCounted
<1>2. RegistersInTime'
  BY DEF MappingTask, MappingTaskSkips, MappingTaskStarts, MappingPublishes,
         MappingPublishFails, MappingTaskEnds, LockHeld, RegistersInTime, mvars,
         request
<1>3. NotForgotten'
  <2>1. CASE MappingTaskSkips
    BY <2>1 DEF MappingTaskSkips, mvars, request, NotForgotten, Waiting
  <2>2. CASE MappingTaskStarts \/ MappingPublishes
    BY <2>2 DEF MappingTaskStarts, MappingPublishes, LockHeld, NotForgotten
  <2>3. CASE MappingTaskEnds
    <3>1. data'.sent = TRUE
      BY <2>3 DEF MappingTaskEnds, TypeOK, MappingTypeOK, Request
    <3> QED
      BY <3>1 DEF NotForgotten, Waiting
  <2> QED
    BY <2>1, <2>2, <2>3 DEF MappingTask, MappingPublishFails
<1> QED
  BY <1>1, <1>2, <1>3

LEMMA WorkQueueRemembers ==
  ASSUME TypeOK, LockHeld, OneChain, Remembered, MaxRefusals <= MaxRetries,
         ~PublishMayFail, WorkQueue
  PROVE  Remembered'
<1>t. queue \in Seq(Task) /\ evq \in Seq(EventRecord)
  BY DEF TypeOK
<1>d. DownIsEarly /\ (Late => ~Unreported /\ net # "down")
  BY DEF Remembered, OneChain, LateIsReported, DownIsEarly, Unreported
<1>q. ASSUME NEW t, Running(t), queue' = Tail(queue)
      PROVE  /\ t # "mapping" => (Queued("mapping") => Queued("mapping")')
             /\ Queued("post_connect")' => Queued("post_connect")
             /\ Queued(t)
  <2>1. queue # <<>> /\ Head(queue) = t
    BY <1>q DEF Running
  <2>2. Queued(t)
    BY <2>1, <1>t DEF Queued
  <2> QED
    BY <2>1, <2>2, <1>t, <1>q, QueuedTail
<1>a. agent' \notin {"stop_requested", "deinit"}
  BY DEF WorkQueue, RmakerTask, RmakerTaskConnects, RmakerTaskFails, PostConnectFails,
         ReportConfig, FinishIfMapped, AwaitMapping, ResetMapping, AwaitReset,
         ParamsInit, MappingTask, Remembered
<1>1. CASE RmakerTask
  <2>1. DownIsEarly'
    BY <1>1, <1>d, <1>q, StaysEarly DEF RmakerTask, Unreported, Coming
  <2>2. RegistersInTime' /\ RetriesCounted' /\ NotForgotten'
    BY <1>1, <1>q, OthersRemember DEF RmakerTask, mvars, request, Unreported, Coming
  <2> QED
    BY <1>a, <2>1, <2>2 DEF Remembered
<1>2. CASE RmakerTaskConnects \/ RmakerTaskFails
  <2>1. /\ UNCHANGED <<queue, evq, reg, refusals, net>> /\ UNCHANGED mvars
        /\ agent' = agent \/ Unreported'
        /\ net = "up" \/ link' = link
    BY <1>2 DEF RmakerTaskConnects, RmakerTaskFails, Unreported, outside
  <2>2. DownIsEarly'
    BY <2>1, <1>d, StaysEarly DEF Queued, Coming
  <2>3. RegistersInTime' /\ RetriesCounted' /\ NotForgotten'
    BY <2>1, OthersRemember DEF mvars, request, Unreported, Queued, Coming
  <2> QED
    BY <1>a, <2>2, <2>3 DEF Remembered
<1>3. CASE PostConnectFails
  <2>1. /\ Queued("mapping") => Queued("mapping")'
        /\ Queued("post_connect")' => Queued("post_connect")
    <3>1. CASE Running("post_connect") /\ queue' = Tail(queue)
      BY <3>1, <1>q
    <3>2. CASE queue' = queue
      BY <3>2 DEF Queued
    <3> QED
      BY <1>3, <3>1, <3>2 DEF PostConnectFails
  <2>2. /\ UNCHANGED <<evq, reg, refusals, net>> /\ UNCHANGED mvars /\ Unreported'
        /\ link' \in {link, "off"}
    BY <1>3 DEF PostConnectFails, Unreported
  <2>3. DownIsEarly'
    BY <2>1, <2>2, <1>d, StaysEarly DEF Coming
  <2>4. RegistersInTime' /\ RetriesCounted' /\ NotForgotten'
    BY <2>1, <2>2, OthersRemember DEF mvars, request, Coming
  <2> QED
    BY <1>a, <2>3, <2>4 DEF Remembered
<1>4. CASE ReportConfig
  <2>1. /\ Running("post_connect") /\ queue' = Tail(queue) /\ Posted("config_reported", 0)
        /\ UNCHANGED <<reg, refusals, net>> /\ UNCHANGED mvars
    BY <1>4 DEF ReportConfig, outside
  <2>2. Queued("post_connect") /\ (Queued("mapping") => Queued("mapping")')
    BY <2>1, <1>q
  <2>3. Coming("config_reported")'
    BY <2>1, <1>t, ComingPosted DEF Posted
  <2>4. DownIsEarly'
    BY <2>1, <2>2, <1>d DEF DownIsEarly
  <2>5. RegistersInTime' /\ RetriesCounted' /\ NotForgotten'
    BY <2>1, <2>2, <2>3, OthersRemember DEF mvars, request
  <2> QED
    BY <1>a, <2>4, <2>5 DEF Remembered
<1>5. CASE FinishIfMapped \/ AwaitMapping \/ AwaitReset \/ ParamsInit
  <2>1. Late
    <3>1. CASE ParamsInit
      <4>1. Queued("params_init")
        BY <3>1, <1>q DEF ParamsInit
      <4> QED
        BY <4>1 DEF Queued, Late, ParamsQueued
    <3> QED
      BY <1>5, <3>1 DEF FinishIfMapped, AwaitMapping, AwaitReset, Late, AfterConfig
  <2>2. /\ UNCHANGED <<evq, refusals, net>> /\ UNCHANGED mvars /\ reg \subseteq reg'
        /\ Queued("mapping") => Queued("mapping")'
    <3>1. CASE ParamsInit
      BY <3>1, <1>q DEF ParamsInit, outside
    <3>2. CASE FinishIfMapped \/ AwaitMapping \/ AwaitReset
      BY <3>2 DEF FinishIfMapped, AwaitMapping, AwaitReset, outside, Queued
    <3> QED
      BY <1>5, <3>1, <3>2
  <2>3. DownIsEarly'
    BY <2>1, <2>2, <1>d DEF DownIsEarly
  <2>4. RegistersInTime' /\ RetriesCounted' /\ NotForgotten'
    BY <2>1, <2>2, <1>d, OthersRemember DEF mvars, request, Coming
  <2> QED
    BY <1>a, <2>3, <2>4 DEF Remembered
<1>6. CASE ResetMapping
  <2>1. /\ Late /\ UNCHANGED <<agent, evq, net>>
        /\ \/ StartTake("work", ResetId) /\ UNCHANGED refusals
           \/ StartFinish("work")
    BY <1>6 DEF ResetMapping, Late, AfterConfig, outside
  <2>2. RegistersInTime' /\ RetriesCounted' /\ NotForgotten'
    BY <2>1, <1>d, StartRemembers, FinishRemembers DEF Id
  <2> QED
    BY <1>a, <2>1, <2>2, <1>d DEF Remembered, DownIsEarly
<1>7. CASE MappingTask
  <2>1. RegistersInTime' /\ RetriesCounted' /\ NotForgotten'
    BY <1>7, MappingTaskRemembers
  <2>2. /\ UNCHANGED <<agent, evq, net, link>>
        /\ Queued("post_connect")' => Queued("post_connect")
    <3>1. queue' = queue \/ (Running("mapping") /\ queue' = Tail(queue))
      BY <1>7 DEF MappingTask, MappingTaskSkips, MappingTaskStarts, MappingPublishes,
                  MappingPublishFails, MappingTaskEnds
    <3> QED
      BY <1>7, <3>1, <1>q DEF MappingTask, outside, Queued
  <2>3. DownIsEarly'
    BY <2>2, <1>d, StaysEarly DEF Coming
  <2> QED
    BY <1>a, <2>1, <2>3 DEF Remembered
<1> QED
  BY <1>1, <1>2, <1>3, <1>4, <1>5, <1>6, <1>7 DEF WorkQueue

(* An event is taken: no other one is lost.                                 *)
LEMMA EventLoopRemembers ==
  ASSUME TypeOK, LockHeld, OneChain, Remembered, MaxRefusals <= MaxRetries, EventLoop
  PROVE  Remembered'
<1>t. queue \in Seq(Task) /\ evq \in Seq(EventRecord)
  BY DEF TypeOK
<1>d. DownIsEarly
  BY DEF Remembered
<1>a. UNCHANGED <<agent, net>> /\ link' \in {link, "off"}
  BY DEF EventLoop, OnConnected, OnDisconnected, OnConfigReported, OnPuback, OnMapping,
         OnFactoryReset, OnWifiReset, outside
<1>e. ASSUME NEW k, Pending(k), evq' = Tail(evq)
      PROVE  /\ Coming(k) /\ (Coming("connected")' => Coming("connected"))
             /\ k # "config_reported" =>
                  (Coming("config_reported") => Coming("config_reported")')
  <2>1. evq # <<>> /\ Head(evq).kind = k
    BY <1>e DEF Pending
  <2>2. Coming(k)
    BY <2>1, <1>t DEF Coming
  <2> QED
    BY <2>1, <2>2, <1>t, <1>e, ComingTail
<1>q. ASSUME NEW s \in Task, AddTask(s) \/ Refused
      PROVE  /\ Queued("mapping") => Queued("mapping")'
             /\ s # "post_connect" => (Queued("post_connect")' => Queued("post_connect"))
             /\ refusals' \in {refusals, refusals + 1}
  <2>1. CASE AddTask(s)
    <3>1. queue' = Append(queue, s) /\ refusals' = refusals
      BY <2>1 DEF AddTask
    <3>2. \A t : Queued(t)' <=> Queued(t) \/ t = s
      BY <3>1, <1>t, QueuedAppend
    <3> QED
      BY <3>1, <3>2
  <2>2. CASE Refused
    BY <2>2 DEF Refused, Queued
  <2> QED
    BY <1>q, <2>1, <2>2
<1>g. ASSUME RegistersInTime' /\ RetriesCounted' /\ NotForgotten', DownIsEarly'
      PROVE  Remembered'
  BY <1>a, <1>g DEF Remembered
<1>1. CASE OnConnected
  <2>1. /\ Pending("connected") /\ evq' = Tail(evq) /\ UNCHANGED mvars
        /\ "mapping_config" \in reg => "mapping_config" \in reg'
        /\ \/ UNCHANGED <<queue, refusals>>
           \/ AddTask("post_connect") \/ Refused
    BY <1>1 DEF OnConnected, TryTask
  <2>2. /\ Coming("connected")
        /\ Coming("config_reported") => Coming("config_reported")'
    BY <2>1, <1>e
  <2>3. /\ Queued("mapping") => Queued("mapping")'
        /\ refusals' \in {refusals, refusals + 1}
    <3>1. CASE UNCHANGED <<queue, refusals>>
      BY <3>1 DEF Queued
    <3> QED
      BY <2>1, <3>1, <1>q DEF Task
  <2>4. RegistersInTime' /\ RetriesCounted' /\ NotForgotten'
    BY <2>1, <2>2, <2>3, <1>a, OthersRemember DEF mvars, request, Unreported
  <2>5. DownIsEarly'
    BY <2>2, <1>a, <1>d DEF DownIsEarly
  <2> QED
    BY <2>4, <2>5, <1>g
<1>2. ASSUME NEW k \in {"mapping_done", "mapping_reset"},
             NEW h \in {"agent_done", "agent_reset"}, OnMapping(k, h)
      PROVE  Remembered'
  <2>1. /\ Pending(k) /\ evq' = Tail(evq) /\ UNCHANGED mvars
        /\ "mapping_config" \in reg => "mapping_config" \in reg'
        /\ \/ UNCHANGED <<queue, refusals>>
           \/ AddTask("params_init") \/ Refused
    BY <1>2 DEF OnMapping, TryTask
  <2>2. /\ Coming("connected")' => Coming("connected")
        /\ Coming("config_reported") => Coming("config_reported")'
    BY <2>1, <1>e
  <2>3. /\ Queued("mapping") => Queued("mapping")'
        /\ Queued("post_connect")' => Queued("post_connect")
        /\ refusals' \in {refusals, refusals + 1}
    <3>1. CASE UNCHANGED <<queue, refusals>>
      BY <3>1 DEF Queued
    <3> QED
      BY <2>1, <3>1, <1>q DEF Task
  <2>4. RegistersInTime' /\ RetriesCounted' /\ NotForgotten'
    BY <2>1, <2>2, <2>3, <1>a, OthersRemember DEF mvars, request, Unreported
  <2>5. DownIsEarly'
    BY <2>2, <2>3, <1>a, <1>d, StaysEarly
  <2> QED
    BY <2>4, <2>5, <1>g
<1>3. CASE OnConfigReported
  <2>1. /\ Pending("config_reported") /\ evq' = Tail(evq)
        /\ UNCHANGED <<data, lock, section, timer>>
        /\ \/ QueueOrRetry
           \/ "mapping_config" \notin reg /\ UNCHANGED <<reg, queue, refusals, retry>>
    BY <1>3 DEF OnConfigReported, ConfigReportedHandler, request
  <2>2. /\ Coming("connected")' => Coming("connected")
        /\ Coming("config_reported")
    BY <2>1, <1>e
  <2>3. Queued("post_connect")' => Queued("post_connect")
    <3>1. CASE UNCHANGED queue
      BY <3>1 DEF Queued
    <3> QED
      BY <2>1, <3>1, <1>q DEF QueueOrRetry, Task
  <2>4. DownIsEarly'
    BY <2>2, <2>3, <1>a, <1>d, StaysEarly
  <2>5. RegistersInTime'
    <3>1. lock # "event"
      BY <1>3, <2>1 DEF OnConfigReported, ConfigReportedHandler, EventLoop, StartFinish
    <3> QED
      BY <2>1, <3>1, <1>a DEF Remembered, RegistersInTime
  <2>6. CASE QueueOrRetry
    <3>1. RetriesCounted' /\ (Queued("mapping")' \/ retry'.armed)
      BY <2>6, IsQueued DEF Remembered
    <3> QED
      BY <2>4, <2>5, <3>1, <1>g DEF NotForgotten, SomebodyWillQueue, Queued
  <2>7. CASE "mapping_config" \notin reg /\ UNCHANGED <<reg, queue, refusals, retry>>
    <3>1. RetriesCounted' /\ NotForgotten'
      BY <2>1, <2>7
         DEF Remembered, RetriesCounted, NotForgotten, Waiting, SomebodyWillQueue
    <3> QED
      BY <2>4, <2>5, <3>1, <1>g
  <2> QED
    BY <2>1, <2>6, <2>7
<1>4. CASE OnPuback
  <2>1. CASE PubackAccepted
    <3>1. /\ evq # <<>> /\ data' = NoData /\ UNCHANGED <<lock, section, retry, refusals, queue>>
          /\ \E k \in {"mapping_reset", "mapping_done"} :
                evq' = Append(Tail(evq), Event(k, 0))
          /\ Head(evq).kind = "puback"
      BY <1>4, <2>1 DEF OnPuback, PubackAccepted, Pending
    <3>2. Tail(evq) \in Seq(EventRecord)
      BY <3>1, <1>t
    <3>3. \A k \in Kind : (\E j \in 1..Len(Tail(evq)) : Tail(evq)[j].kind = k)
                              => Coming(k)
      BY <3>1, <1>t DEF Coming
    <3>4. Coming("connected")' => Coming("connected")
      <4>1. PICK k \in {"mapping_reset", "mapping_done"} :
                evq' = Append(Tail(evq), Event(k, 0))
        BY <3>1
      <4>2. Coming("connected")' <=>
                \/ "connected" = k
                \/ \E j \in 1..Len(Tail(evq)) : Tail(evq)[j].kind = "connected"
        BY <3>2, <4>1, ComingPosted
      <4> QED
        BY <3>3, <4>1, <4>2 DEF Kind
    <3>5. lock # "event"
      BY <2>1 DEF PubackAccepted
    <3>6. RegistersInTime' /\ RetriesCounted' /\ NotForgotten'
      BY <3>1, <3>5, <1>a
         DEF Remembered, RegistersInTime, RetriesCounted, NotForgotten, Waiting
    <3>7. DownIsEarly'
      BY <3>1, <3>4, <1>a, <1>d, StaysEarly DEF Queued
    <3> QED
      BY <3>6, <3>7, <1>g
  <2>2. CASE PubackIgnored \/ PubackTimesOut
    <3>1. /\ Pending("puback") /\ evq' = Tail(evq) /\ UNCHANGED mvars
          /\ UNCHANGED <<reg, queue, refusals>>
      BY <1>4, <2>2 DEF OnPuback, PubackIgnored, PubackTimesOut
    <3>2. /\ Coming("connected")' => Coming("connected")
          /\ Coming("config_reported") => Coming("config_reported")'
      BY <3>1, <1>e
    <3>3. RegistersInTime' /\ RetriesCounted' /\ NotForgotten'
      BY <3>1, <3>2, <1>a, OthersRemember DEF mvars, request, Unreported, Queued
    <3>4. DownIsEarly'
      BY <3>1, <3>2, <1>a, <1>d, StaysEarly DEF Queued
    <3> QED
      BY <3>3, <3>4, <1>g
  <2> QED
    BY <1>4, <2>1, <2>2 DEF OnPuback
<1>5. CASE OnDisconnected \/ OnWifiReset \/ OnFactoryReset
  <2>1. /\ \E k \in {"disconnected", "wifi_reset", "factory_reset"} : Pending(k)
        /\ evq' = Tail(evq) /\ UNCHANGED <<reg, queue, refusals>>
        /\ UNCHANGED mvars \/ StartTake("event", ResetId)
    BY <1>5 DEF OnDisconnected, OnWifiReset, OnFactoryReset
  <2>2. /\ Coming("connected")' => Coming("connected")
        /\ Coming("config_reported") => Coming("config_reported")'
    BY <2>1, <1>e
  <2>3. RegistersInTime' /\ RetriesCounted' /\ NotForgotten'
    <3>1. CASE UNCHANGED mvars
      BY <2>1, <2>2, <3>1, <1>a, OthersRemember DEF mvars, request, Unreported, Queued
    <3>2. CASE StartTake("event", ResetId)
      BY <2>1, <3>2, <1>a, StartRemembers DEF Id
    <3> QED
      BY <2>1, <3>1, <3>2
  <2>4. DownIsEarly'
    BY <2>1, <2>2, <1>a, <1>d, StaysEarly DEF Queued
  <2> QED
    BY <2>3, <2>4, <1>g
<1>6. CASE StartFinish("event") /\ UNCHANGED <<agent, work, evq, outside>>
  <2>1. RegistersInTime' /\ RetriesCounted' /\ NotForgotten'
    BY <1>6, FinishRemembers
  <2>2. Queued("post_connect")' => Queued("post_connect")
    BY <1>6, <1>q DEF StartFinish, QueueOrRetry, Task, Queued
  <2>3. DownIsEarly'
    BY <1>6, <2>2, <1>a, <1>d, StaysEarly DEF Coming
  <2> QED
    BY <2>1, <2>3, <1>g
<1> QED
  BY <1>1, <1>2, <1>3, <1>4, <1>5, <1>6 DEF EventLoop

LEMMA StepRemembers ==
  ASSUME ProvisionFirst, ~PublishMayFail, ~AppMayStop, MaxRefusals <= MaxRetries,
         IInv, OneChain, Remembered, [Next]_vars
  PROVE  Remembered'
<1>t. TypeOK /\ LockHeld /\ queue \in Seq(Task) /\ evq \in Seq(EventRecord)
  BY DEF IInv, Confirmed, TypeOK
<1>d. DownIsEarly
  BY DEF Remembered
<1>g. ASSUME UNCHANGED agent, DownIsEarly',
             RegistersInTime' /\ RetriesCounted' /\ NotForgotten'
      PROVE  Remembered'
  BY <1>g DEF Remembered
<1>1. CASE Start \/ UNCHANGED vars
  <2>1. UNCHANGED <<platform, mvars, net, link>>
    BY <1>1 DEF Start, vars, outside
  <2>2. RegistersInTime' /\ RetriesCounted' /\ NotForgotten'
    BY <2>1, <1>t, OthersRemember DEF platform, mvars, request, Unreported, Queued, Coming
  <2>3. DownIsEarly'
    BY <2>1, <1>t, <1>d, StaysEarly DEF platform, Queued, Coming
  <2> QED
    BY <2>1, <2>2, <2>3, <1>g DEF platform
<1>2. CASE TimerTask
  <2>1. /\ UNCHANGED <<agent, evq, reg, data, lock, section, net, link>>
        /\ Queued("post_connect")' => Queued("post_connect")
    <3>1. CASE UNCHANGED queue
      BY <1>2, <3>1 DEF TimerTask, RetryExpires, RetryQueues, platform, request, outside,
                        Queued
    <3>2. CASE AddTask("mapping")
      <4>1. Queued("post_connect")' <=> Queued("post_connect") \/ "post_connect" = "mapping"
        BY <3>2, <1>t, QueuedAppend DEF AddTask
      <4> QED
        BY <1>2, <4>1 DEF TimerTask, RetryExpires, RetryQueues, platform, request, outside
    <3> QED
      BY <1>2, <3>1, <3>2 DEF TimerTask, RetryExpires, RetryQueues, Refused
  <2>2. DownIsEarly'
    BY <2>1, <1>t, <1>d, StaysEarly DEF Coming
  <2>3. RegistersInTime'
    BY <2>1 DEF Remembered, RegistersInTime, Unreported, Coming
  <2>4. RetriesCounted' /\ NotForgotten'
    <3>1. CASE RetryExpires /\ UNCHANGED platform
      BY <3>1, <1>t DEF RetryExpires, platform, Remembered, RetriesCounted, NotForgotten,
                        SomebodyWillQueue, TypeOK, MappingTypeOK, RetryState
    <3>2. CASE AddTask("mapping") /\ retry' = Idle
      <4>1. Queued("mapping")'
        BY <3>2, <1>t, QueuedAppend DEF AddTask
      <4>2. RetriesCounted'
        BY <3>2, <1>t, RefusalAssumption DEF AddTask, Idle, RetriesCounted, TypeOK
      <4> QED
        BY <4>1, <4>2 DEF NotForgotten, SomebodyWillQueue, Queued
    <3>3. CASE Refused /\ retry' = Scheduled(retry)
      <4>1. RetriesCounted' /\ retry'.armed
        BY <3>3, <1>t, RefusedIsRetried DEF Remembered
      <4> QED
        BY <4>1 DEF NotForgotten, SomebodyWillQueue
    <3> QED
      BY <1>2, <3>1, <3>2, <3>3 DEF TimerTask, RetryQueues
  <2> QED
    BY <2>1, <2>2, <2>3, <2>4, <1>g
<1>3. CASE RequestMapping
  <2>1. /\ UNCHANGED <<platform, outside>> /\ net = "down"
        /\ \E u \in Id : StartTake("prov", u)
    BY <1>3 DEF RequestMapping, Id
  <2>2. RegistersInTime' /\ RetriesCounted' /\ NotForgotten'
    BY <2>1, <1>t, StartRemembers DEF platform, outside
  <2>3. DownIsEarly'
    BY <2>1, <1>t, <1>d, StaysEarly DEF platform, outside, Queued, Coming
  <2> QED
    BY <2>1, <2>2, <2>3, <1>g DEF platform
<1>4. CASE FinishRequest
  <2>1. StartFinish("prov") /\ UNCHANGED <<agent, evq, net, link>>
    BY <1>4 DEF FinishRequest, outside
  <2>2. RegistersInTime' /\ RetriesCounted' /\ NotForgotten'
    BY <2>1, <1>t, FinishRemembers
  <2>3. Queued("post_connect")' => Queued("post_connect")
    <3>1. CASE UNCHANGED queue
      BY <3>1 DEF Queued
    <3>2. CASE AddTask("mapping")
      <4>1. Queued("post_connect")' <=> Queued("post_connect") \/ "post_connect" = "mapping"
        BY <3>2, <1>t, QueuedAppend DEF AddTask
      <4> QED
        BY <4>1
    <3> QED
      BY <2>1, <3>1, <3>2 DEF StartFinish, QueueOrRetry, Refused
  <2>4. DownIsEarly'
    BY <2>1, <2>3, <1>t, <1>d, StaysEarly DEF Coming
  <2> QED
    BY <2>1, <2>2, <2>4, <1>g
<1>5. CASE NetworkUp \/ BrokerConnects \/ LinkDrops \/ Delivery \/ UserResets
  <2>1. /\ UNCHANGED <<agent, queue, reg, refusals, data, lock, section, retry, timer>>
        /\ net' = net \/ (net' = "up" /\ lock # "prov")
        /\ net = "up" \/ link' = link
    BY <1>5, <1>t, <1>d DEF NetworkUp, BrokerConnects, LinkDrops, Delivery, UserResets,
       CloudReceives, platform, mvars, request, outside, DownIsEarly, TypeOK
  <2>2. /\ Coming("config_reported") => Coming("config_reported")'
        /\ Coming("connected")' => Coming("connected") \/ link # "off"
    <3>1. CASE UNCHANGED evq
      BY <3>1 DEF Coming
    <3>2. ASSUME NEW k \in Kind, NEW i, Posted(k, i), k = "connected" => link # "off"
          PROVE  /\ Coming("config_reported") => Coming("config_reported")'
                 /\ Coming("connected")' => Coming("connected") \/ link # "off"
      <4>1. evq' = Append(evq, Event(k, i))
        BY <3>2 DEF Posted
      <4>2. \A e : Coming(e)' <=> e = k \/ \E j \in 1..Len(evq) : evq[j].kind = e
        BY <4>1, <1>t, ComingPosted
      <4> QED
        BY <3>2, <4>2 DEF Coming
    <3> QED
      BY <1>5, <3>1, <3>2 DEF NetworkUp, BrokerConnects, LinkDrops, Delivery, UserResets,
         CloudReceives, platform, Kind
  <2>3. RegistersInTime' /\ RetriesCounted' /\ NotForgotten'
    BY <2>1, <2>2, <1>t, OthersRemember DEF Unreported, Queued
  <2>4. DownIsEarly'
    BY <2>1, <2>2, <1>t, <1>d, StaysEarly DEF Queued
  <2> QED
    BY <2>1, <2>3, <2>4, <1>g
<1>6. CASE Reboot
  <2>1. /\ agent' = "init_done" /\ queue' = <<"rmaker">> /\ evq' = <<>> /\ link' = "off"
        /\ data' = NoData /\ section' = "none" /\ retry' = Idle /\ refusals' = refusals
    BY <1>6 DEF Reboot, MappingReboot
  <2>2. DownIsEarly'
    BY <2>1 DEF DownIsEarly, Unreported, Queued, Coming
  <2>3. RetriesCounted'
    BY <2>1, <1>t, RefusalAssumption DEF RetriesCounted, Idle, TypeOK
  <2> QED
    BY <2>1, <2>2, <2>3 DEF Remembered, RegistersInTime, NotForgotten, Waiting
<1>7. CASE WorkQueue \/ EventLoop
  BY <1>7, <1>t, WorkQueueRemembers, EventLoopRemembers
<1> QED
  BY <1>1, <1>2, <1>3, <1>4, <1>5, <1>6, <1>7
     DEF Next, Environment, Stop, NodeDeinit

(* A request that waits to be sent always has somebody who will queue it,   *)
(* for as long as the four conditions hold which the code does not ensure:  *)
(* requests come before the network is up, what is published is taken (only *)
(* a full work queue is retried), nobody stops the agent, and the work      *)
(* queue refuses no more often than there are retries.                      *)
THEOREM RequestsAreNotForgotten ==
  ASSUME ProvisionFirst, ~PublishMayFail, ~AppMayStop, MaxRefusals <= MaxRetries
  PROVE  Spec => []NotForgotten
<1>1. Init => Remembered
  BY RefusalAssumption
     DEF Init, MappingInit, Remembered, DownIsEarly, Unreported, Queued, Coming,
         RegistersInTime, RetriesCounted, Idle, NotForgotten, Waiting
<1>2. IInv /\ OneChain /\ Remembered /\ [Next]_vars => Remembered'
  BY StepRemembers
<1>3. Remembered => NotForgotten
  BY DEF Remembered
<1>4. IInv => TypeOK
  BY DEF IInv
<1> QED
  BY <1>1, <1>2, <1>3, <1>4, InitChain, StepChain, Invariance, PTL DEF Spec
=============================================================================
