---------------------------- MODULE ScheduleProofs ----------------------------
(***************************************************************************)
(* The schedule service, for any finite set of ids, any number of places   *)
(* in the list and in the work queue, and any number of requests, reboots  *)
(* and work items that find the queue full.                                *)
(***************************************************************************)
EXTENDS Schedule, FiniteSetTheorems, FunctionTheorems, SequenceTheorems, TLAPS

-----------------------------------------------------------------------------
(* The inductive invariant.  A trigger says no more than an index, so that  *)
(* indexes must be used once; and a run is owed to a request only while     *)
(* what waits, what works and what is armed are counted together.           *)
Lists == [Id -> Entry \cup {Absent}]
Items == [id : Id \cup {Absent}, index : Nat]

Apart(copy) ==
    \A i, j \in Id : copy[i] # Absent /\ copy[j] # Absent
                       /\ copy[i].index = copy[j].index => i = j

Indexed ==
    /\ nextIndex <= Cardinality(Id) + requests
    /\ \A i \in Listed : list[i].index < nextIndex
    /\ Apart(list) /\ Apart(stored) /\ Apart(opCopy) /\ Apart(workCopy)
    /\ work \in {"act", "expire"} => item < nextIndex

(* What waits is for a schedule that is in the list, or for none that will  *)
(* ever be.                                                                 *)
Owned(w) ==
    /\ w.id \in Id /\ w.index < nextIndex
    /\ \A i \in Listed : list[i].index = w.index => i = w.id

Queued ==
    /\ queue \in Seq(Items)
    /\ \A k \in 1 .. Len(queue) : queue[k] = Look \/ Owned(queue[k])

(* The runs that are under way, and whether one more is to come.            *)
Places(q, w) == {k \in 1 .. Len(q) : q[k] = w}
Count(q, w)  == Cardinality(Places(q, w))
Working(i)   == IF work = "act" /\ item = list[i].index THEN 1 ELSE 0
Runs(i)      == Count(queue, Trigger(i)) + Working(i)
Due(s)       == IF s.enabled /\ ~Expired(s) THEN 1 ELSE 0

(* A schedule that repeats may fire often on one credit, but not again      *)
(* before the last run is over.                                             *)
Covered(i, s, runs) ==
    \/ runs + Due(s) <= credit[i]
    \/ s.kind = "repeat" /\ runs <= 1 /\ 1 <= credit[i]

Credited == \A i \in Listed : Covered(i, list[i], Runs(i))

ArmedIsDue ==
    \A i \in Listed : list[i].armed =>
        list[i].enabled /\ (list[i].kind = "once" => list[i].ts = "ahead")

Spent == \A i \in Id : credit[i] <= requests + reboots

IInv == TypeOK /\ Indexed /\ Queued /\ Credited /\ ArmedIsDue /\ Spent
          /\ OwnTrigger /\ OncePerRequest

-----------------------------------------------------------------------------
(* The operators.                                                           *)
LEMMA Numbers ==
  /\ MaxRequests \in Nat /\ MaxReboots \in Nat /\ QueueSize \in Nat /\ QueueSize >= 1
  /\ Cardinality(Id) \in Nat /\ IsFiniteSet(Id)
  /\ Absent \notin Id /\ Absent \notin Entry
BY ScheduleAssumption, FS_CardinalityType

LEMMA Types ==
  ASSUME TypeOK
  PROVE  /\ list \in Lists /\ stored \in Lists /\ opCopy \in Lists /\ workCopy \in Lists
         /\ nextIndex \in Nat /\ item \in Nat /\ item <= nextIndex
         /\ nextIndex <= MaxRequests + Cardinality(Id)
         /\ requests \in Nat /\ reboots \in Nat
         /\ overrun \in BOOLEAN /\ strayed \in BOOLEAN /\ raced \in BOOLEAN
         /\ credit \in [Id -> Nat]
<1>1. 0 .. MaxRequests + MaxReboots \subseteq Nat
  BY Numbers
<1>2. credit \in [Id -> Nat]
  BY <1>1 DEF TypeOK
<1> QED
  BY <1>2, Numbers DEF TypeOK, Lists

LEMMA EntryType ==
  ASSUME NEW s \in Entry
  PROVE  /\ s # Absent /\ s.index \in 0 .. MaxRequests + Cardinality(Id)
         /\ s.index \in Nat /\ s.kind \in Kind /\ s.enabled \in BOOLEAN
         /\ s.ts \in Time /\ s.armed \in BOOLEAN
BY Numbers DEF Entry

LEMMA ListedType ==
  ASSUME NEW copy \in Lists, NEW i \in Id, copy[i] # Absent
  PROVE  copy[i] \in Entry
BY DEF Lists

(* What enabling and disabling make of a schedule.                          *)
LEMMA Offed ==
  ASSUME NEW s \in Entry
  PROVE  /\ Off(s) \in Entry /\ Off(s).index = s.index /\ Off(s).kind = s.kind
         /\ ~Off(s).enabled /\ ~Off(s).armed /\ Off(s).ts = "none"
BY DEF Off, Entry, Time

LEMMA Oned ==
  ASSUME NEW s \in Entry, NEW known \in BOOLEAN
  PROVE  /\ On(s, known) \in Entry
         /\ On(s, known).index = s.index /\ On(s, known).kind = s.kind
         /\ known /\ Expired(s) => On(s, known) = Off(s)
         /\ known /\ ~Expired(s) =>
               /\ On(s, known).enabled /\ On(s, known).armed
               /\ s.kind = "once" => On(s, known).ts = "ahead"
         /\ ~known => /\ On(s, known).enabled /\ On(s, known).armed = s.armed
                      /\ On(s, known).ts = s.ts
<1>1. CASE ~known
  BY <1>1 DEF On, Entry
<1>2. CASE known /\ Expired(s)
  BY <1>2, Offed DEF On
<1>3. CASE known /\ ~Expired(s)
  BY <1>3 DEF On, Armed, Entry, Time, Kind
<1> QED
  BY <1>1, <1>2, <1>3

LEMMA DueIs == \A s : Due(s) \in {0, 1}
BY DEF Due

(* How often an item waits.                                                 *)
LEMMA CountType ==
  ASSUME NEW q \in Seq(Items), NEW w
  PROVE  IsFiniteSet(Places(q, w)) /\ Count(q, w) \in Nat
<1>1. Len(q) \in Nat
  OBVIOUS
<1>2. IsFiniteSet(1 .. Len(q))
  BY <1>1, FS_Interval
<1>3. IsFiniteSet(Places(q, w))
  BY <1>2, FS_Subset DEF Places
<1> QED
  BY <1>3, FS_CardinalityType DEF Count

LEMMA CountNone ==
  ASSUME NEW q \in Seq(Items), NEW w, \A k \in 1 .. Len(q) : q[k] # w
  PROVE  Count(q, w) = 0
<1>1. Places(q, w) = {}
  BY DEF Places
<1> QED
  BY <1>1, FS_EmptySet DEF Count

LEMMA CountAppend ==
  ASSUME NEW q \in Seq(Items), NEW v \in Items, NEW w
  PROVE  Count(Append(q, v), w) = Count(q, w) + (IF v = w THEN 1 ELSE 0)
<1>1. /\ Len(Append(q, v)) = Len(q) + 1 /\ Len(q) \in Nat
      /\ Append(q, v)[Len(q) + 1] = v
      /\ \A k \in 1 .. Len(q) : Append(q, v)[k] = q[k]
  BY AppendProperties
<1>2. Len(q) + 1 \notin Places(q, w)
  BY <1>1 DEF Places
<1>3. CASE v = w
  <2>1. Places(Append(q, v), w) = Places(q, w) \cup {Len(q) + 1}
    BY <1>1, <1>3 DEF Places
  <2> QED
    BY <2>1, <1>2, <1>3, CountType, FS_AddElement DEF Count
<1>4. CASE v # w
  <2>1. Places(Append(q, v), w) = Places(q, w)
    BY <1>1, <1>4 DEF Places
  <2> QED
    BY <2>1, <1>4, CountType DEF Count
<1> QED
  BY <1>3, <1>4

LEMMA CountOther ==
  ASSUME NEW q \in Seq(Items), NEW v \in Items, NEW w, v # w
  PROVE  Count(Append(q, v), w) = Count(q, w)
<1>1. Count(Append(q, v), w) = Count(q, w) + 0
  BY CountAppend
<1>2. Count(q, w) \in Nat
  BY CountType
<1> QED
  BY <1>1, <1>2

LEMMA CountTail ==
  ASSUME NEW q \in Seq(Items), q # <<>>, NEW w
  PROVE  Count(q, w) = Count(Tail(q), w) + (IF Head(q) = w THEN 1 ELSE 0)
<1>1. /\ Tail(q) \in Seq(Items) /\ Len(q) \in Nat /\ Len(q) >= 1
      /\ Len(Tail(q)) = Len(q) - 1 /\ Head(q) = q[1]
      /\ \A k \in 1 .. Len(Tail(q)) : Tail(q)[k] = q[k + 1]
  BY HeadTailProperties, EmptySeq
<1> DEFINE f == [k \in Places(Tail(q), w) |-> k + 1]
           T == Places(q, w) \ {1}
<1>2. f \in Bijection(Places(Tail(q), w), T)
  <2>1. \A k \in Places(Tail(q), w) : k \in 1 .. Len(q) - 1 /\ q[k + 1] = w
    BY <1>1 DEF Places
  <2>2. f \in [Places(Tail(q), w) -> T]
    BY <2>1, <1>1 DEF Places
  <2>3. \A a, b \in Places(Tail(q), w) : f[a] = f[b] => a = b
    BY <2>1
  <2>4. \A t \in T : \E a \in Places(Tail(q), w) : f[a] = t
    <3> SUFFICES ASSUME NEW t \in T PROVE t - 1 \in Places(Tail(q), w) /\ f[t - 1] = t
      OBVIOUS
    <3>1. t \in 2 .. Len(q) /\ q[t] = w
      BY <1>1 DEF Places
    <3>2. t - 1 \in 1 .. Len(Tail(q)) /\ (t - 1) + 1 = t
      BY <3>1, <1>1
    <3>3. Tail(q)[t - 1] = w
      BY <3>1, <3>2, <1>1
    <3> QED
      BY <3>2, <3>3 DEF Places
  <2> QED
    BY <2>2, <2>3, <2>4, Fun_IsBij
<1>3. Cardinality(T) = Cardinality(Places(Tail(q), w))
  <2>1. IsFiniteSet(Places(Tail(q), w))
    BY <1>1, CountType
  <2>2. ExistsBijection(Places(Tail(q), w), T)
    BY <1>2 DEF ExistsBijection
  <2> QED
    BY <2>1, <2>2, FS_Bijection
<1>4. Cardinality(Places(q, w)) = Cardinality(T) + (IF 1 \in Places(q, w) THEN 1 ELSE 0)
  <2>1. /\ IsFiniteSet(Places(q, w)) /\ Cardinality(Places(q, w)) \in Nat
        /\ Cardinality(T) = IF 1 \in Places(q, w) THEN Cardinality(Places(q, w)) - 1
                                                  ELSE Cardinality(Places(q, w))
    BY CountType, FS_RemoveElement DEF Count
  <2> QED
    BY <2>1
<1>5. 1 \in Places(q, w) <=> Head(q) = w
  BY <1>1 DEF Places
<1> QED
  BY <1>3, <1>4, <1>5 DEF Count
-----------------------------------------------------------------------------
(* What a step leaves alone.                                                *)
LEMMA Affordable ==
  ASSUME IInv, NEW i \in Listed
  PROVE  /\ Runs(i) \in Nat /\ credit[i] \in Nat /\ Runs(i) <= credit[i]
         /\ Working(i) \in {0, 1} /\ Count(queue, Trigger(i)) \in Nat
<1>1. i \in Id
  BY DEF Listed
<1>2. /\ Count(queue, Trigger(i)) \in Nat /\ Working(i) \in {0, 1}
      /\ credit[i] \in Nat /\ Due(list[i]) \in {0, 1}
  BY <1>1, CountType, Types, DueIs DEF IInv, Queued, Working
<1>3. Runs(i) \in Nat
  BY <1>2 DEF Runs
<1>4. Covered(i, list[i], Runs(i))
  BY DEF IInv, Credited
<1> QED
  BY <1>2, <1>3, <1>4 DEF Covered

LEMMA RunsKept ==
  ASSUME NEW i, UNCHANGED <<queue, work, item>>, list'[i].index = list[i].index
  PROVE  Runs(i)' = Runs(i)
BY DEF Runs, Count, Places, Working, Trigger

LEMMA QueuedKept ==
  ASSUME TypeOK, Queued, queue' = queue, nextIndex' \in Nat, nextIndex <= nextIndex',
         list' \in Lists,
         \A i \in Listed' : \/ i \in Listed /\ list'[i].index = list[i].index
                            \/ nextIndex <= list'[i].index
  PROVE  Queued'
<1> SUFFICES ASSUME NEW w \in Items, Owned(w) PROVE Owned(w)'
  <2>1. \A k \in 1 .. Len(queue) : queue[k] \in Items
    BY DEF Queued
  <2> QED
    BY <2>1 DEF Queued, Look
<1>1. w.index \in Nat /\ nextIndex \in Nat /\ w.index < nextIndex
  BY Types DEF Items, Owned
<1>2. ASSUME NEW i \in Listed', list'[i].index = w.index PROVE i = w.id
  <2>1. list'[i].index \in Nat
    BY EntryType DEF Listed, Lists
  <2>2. ~(nextIndex <= list'[i].index)
    BY <1>1, <1>2
  <2>3. i \in Listed /\ list'[i].index = list[i].index
    BY <2>2
  <2> QED
    BY <1>2, <2>3 DEF Owned
<1> QED
  BY <1>1, <1>2 DEF Owned

LEMMA CreditBound ==
  ASSUME credit' \in [Id -> Nat], Spent',
         requests' \in 0 .. MaxRequests, reboots' \in 0 .. MaxReboots
  PROVE  credit' \in [Id -> 0 .. MaxRequests + MaxReboots]
<1>1. ASSUME NEW i \in Id PROVE credit'[i] \in 0 .. MaxRequests + MaxReboots
  <2>1. credit'[i] \in Nat /\ credit'[i] <= requests' + reboots'
    BY DEF Spent
  <2> QED
    BY <2>1, Numbers
<1> QED
  BY <1>1

(* The copies, and the list after one schedule of it changed.               *)
LEMMA NoCopy == [i \in Id |-> Absent] \in Lists /\ Apart([i \in Id |-> Absent])
BY DEF Lists, Apart

LEMMA Elapsed ==
  ASSUME NEW copy \in Lists, Apart(copy), NEW i \in Id
  PROVE  Elapse(copy, i) \in Lists /\ Apart(Elapse(copy, i))
<1>1. CASE copy[i] # Absent /\ copy[i].ts = "ahead"
  <2>1. copy[i] \in Entry
    BY <1>1, ListedType
  <2>2. Elapse(copy, i) = [copy EXCEPT ![i] = [copy[i] EXCEPT !.ts = "past"]]
    BY <1>1 DEF Elapse
  <2>3. /\ [copy[i] EXCEPT !.ts = "past"] \in Entry
        /\ [copy[i] EXCEPT !.ts = "past"].index = copy[i].index
    BY <2>1 DEF Entry, Time
  <2>4. Elapse(copy, i) \in Lists
    BY <2>2, <2>3 DEF Lists
  <2>5. \A j \in Id : /\ Elapse(copy, i)[j] = Absent <=> copy[j] = Absent
                      /\ copy[j] # Absent => Elapse(copy, i)[j].index = copy[j].index
    BY <2>2, <2>3, <1>1, Numbers DEF Lists
  <2> QED
    BY <2>4, <2>5 DEF Apart
<1>2. CASE ~(copy[i] # Absent /\ copy[i].ts = "ahead")
  BY <1>2 DEF Elapse
<1> QED
  BY <1>1, <1>2

LEMMA ListAfter ==
  ASSUME TypeOK, Indexed, NEW i \in Listed, NEW s \in Entry, s.index = list[i].index,
         list' = [list EXCEPT ![i] = s], nextIndex' \in Nat, nextIndex <= nextIndex'
  PROVE  /\ list' \in Lists /\ Listed' = Listed /\ Apart(list')
         /\ list'[i] = s /\ \A j \in Id : j # i => list'[j] = list[j]
         /\ \A j \in Listed : list'[j].index = list[j].index
         /\ \A j \in Listed : list'[j].index < nextIndex'
<1>1. /\ list \in Lists /\ i \in Id /\ list[i] # Absent /\ s # Absent
      /\ Apart(list) /\ \A j \in Listed : list[j].index < nextIndex
  BY Types, EntryType DEF Listed, Indexed
<1>2. /\ list' \in Lists /\ list'[i] = s /\ \A j \in Id : j # i => list'[j] = list[j]
  BY <1>1 DEF Lists
<1>3. Listed' = Listed
  BY <1>1, <1>2 DEF Listed
<1>4. \A j \in Listed : list'[j].index = list[j].index
  BY <1>2 DEF Listed
<1>5. Apart(list')
  BY <1>1, <1>3, <1>4 DEF Apart, Listed
<1>6. ASSUME NEW j \in Listed PROVE list'[j].index < nextIndex'
  <2>1. list[j].index \in Nat /\ list[j].index < nextIndex /\ nextIndex \in Nat
    BY <1>1, ListedType, EntryType, Types DEF Listed
  <2> QED
    BY <1>4, <2>1
<1> QED
  BY <1>2, <1>3, <1>4, <1>5, <1>6
-----------------------------------------------------------------------------
(* The requests.                                                            *)
LEMMA Handled ==
  ASSUME TypeOK, Handle
  PROVE  /\ op' = "report" /\ requests' = requests + 1 /\ requests' \in 0 .. MaxRequests
         /\ nextIndex + 1 <= MaxRequests + Cardinality(Id) \/ ~Indexed
         /\ UNCHANGED <<clockSet, stored, opCopy, queue, work, item, workCopy, overrun,
                        strayed, raced, lost, reboots>>
<1>1. requests \in Nat /\ requests < MaxRequests /\ requests' = requests + 1
  BY Types DEF Handle
<1>2. Indexed => nextIndex + 1 <= MaxRequests + Cardinality(Id)
  BY <1>1, Types, Numbers DEF Indexed
<1> QED
  BY <1>1, <1>2, Numbers DEF Handle, worker

(* A request that changes one schedule, and turns it on or leaves it off.   *)
LEMMA OneSchedule ==
  ASSUME IInv, Handle, NEW i \in Listed, NEW s \in Entry, s.index = list[i].index,
         list' = [list EXCEPT ![i] = s], nextIndex' = nextIndex,
         NEW gain \in {0, 1}, credit' \in [Id -> Nat], credit'[i] = credit[i] + gain,
         \A j \in Id : j # i => credit'[j] = credit[j],
         s.armed => s.enabled /\ (s.kind = "once" => s.ts = "ahead"),
         gain = 0 => ~s.enabled,
         sync' \in {"none", "started", "done"}, syncTimer' \in BOOLEAN
  PROVE  IInv'
<1>t. /\ TypeOK /\ Indexed /\ Queued /\ Credited /\ ArmedIsDue /\ Spent
      /\ i \in Id /\ nextIndex \in Nat /\ requests \in Nat /\ reboots \in Nat
  BY Types DEF IInv, Listed
<1>h. /\ op' = "report" /\ requests' = requests + 1 /\ requests' \in 0 .. MaxRequests
      /\ UNCHANGED <<clockSet, stored, opCopy, queue, work, item, workCopy, overrun,
                     strayed, raced, lost, reboots>>
  BY <1>t, Handled
<1>l. /\ list' \in Lists /\ Listed' = Listed /\ Apart(list')
      /\ list'[i] = s /\ \A j \in Id : j # i => list'[j] = list[j]
      /\ \A j \in Listed : list'[j].index = list[j].index
      /\ \A j \in Listed : list'[j].index < nextIndex'
  <2>1. nextIndex' \in Nat /\ nextIndex <= nextIndex'
    BY <1>t
  <2> QED
    BY <2>1, <1>t, ListAfter
<1>1. Spent'
  <2>1. ASSUME NEW j \in Id PROVE credit'[j] <= requests' + reboots'
    <3>1. /\ credit[j] \in Nat /\ credit[j] <= requests + reboots
          /\ credit'[j] \in {credit[j], credit[j] + gain}
      BY <1>t, Types DEF Spent
    <3> QED
      BY <3>1, <1>t, <1>h
  <2> QED
    BY <2>1 DEF Spent
<1>2. credit' \in [Id -> 0 .. MaxRequests + MaxReboots]
  <2>1. reboots' \in 0 .. MaxReboots
    BY <1>t, <1>h DEF TypeOK
  <2> QED
    BY <1>1, <2>1, <1>h, CreditBound
<1>3. TypeOK'
  BY <1>2, <1>h, <1>l, <1>t DEF TypeOK, Lists
<1>4. Indexed'
  <2>1. nextIndex' <= Cardinality(Id) + requests'
    BY <1>t, <1>h, Numbers DEF Indexed
  <2> QED
    BY <2>1, <1>l, <1>h, <1>t DEF Indexed
<1>5. Queued'
  BY <1>l, <1>h, <1>t, QueuedKept
<1>6. Credited'
  <2>1. ASSUME NEW j \in Listed PROVE Covered(j, list[j], Runs(j))'
    <3>1. Runs(j)' = Runs(j) /\ j \in Id
      BY <2>1, <1>h, <1>l, RunsKept DEF Listed
    <3>2. CASE j # i
      BY <3>1, <3>2, <1>l, <1>t DEF Covered, Credited, Due, Expired
    <3>3. CASE j = i
      <4>1. /\ Runs(i) \in Nat /\ credit[i] \in Nat /\ Runs(i) <= credit[i]
            /\ Due(s) \in {0, 1} /\ (gain = 0 => Due(s) = 0)
        BY Affordable, DueIs DEF Due
      <4>2. Runs(i) + Due(s) <= credit'[i]
        BY <4>1
      <4> QED
        BY <3>1, <3>3, <4>2, <1>l DEF Covered, Due, Expired
    <3> QED
      BY <3>2, <3>3
  <2> QED
    BY <2>1, <1>l DEF Credited
<1>7. ArmedIsDue'
  BY <1>l, <1>t DEF ArmedIsDue, Listed
<1>8. OwnTrigger' /\ OncePerRequest'
  BY <1>h DEF IInv, OwnTrigger, OncePerRequest
<1> QED
  BY <1>1, <1>3, <1>4, <1>5, <1>6, <1>7, <1>8 DEF IInv

LEMMA SyncType ==
  ASSUME TypeOK, SyncOnce
  PROVE  sync' \in {"none", "started", "done"} /\ syncTimer' \in BOOLEAN
BY DEF TypeOK, SyncOnce

LEMMA KnownType == TypeOK => Known(sync, clockSet) \in BOOLEAN
BY DEF Known, TypeOK

(* What is turned on anew is armed only with a time that is ahead.          *)
LEMMA OnArmed ==
  ASSUME NEW s \in Entry, NEW known \in BOOLEAN,
         s.armed => (s.kind = "once" => s.ts = "ahead")
  PROVE  LET on == On(s, known)
         IN  on.armed => on.enabled /\ (on.kind = "once" => on.ts = "ahead")
<1>1. CASE known /\ Expired(s)
  <2>1. On(s, known) = Off(s)
    BY <1>1, Oned
  <2>2. ~Off(s).armed
    BY Offed
  <2> QED
    BY <2>1, <2>2
<1>2. CASE known /\ ~Expired(s)
  BY <1>2, Oned, ZenonT(40)
<1>3. CASE ~known
  BY <1>3, Oned
<1> QED
  BY <1>1, <1>2, <1>3

LEMMA EnableKeeps ==
  ASSUME IInv, NEW i \in Id, OperationEnable(i)
  PROVE  IInv'
<1> DEFINE s == On(list[i], Known(sync, clockSet))
<1>1. i \in Listed /\ list[i] \in Entry /\ TypeOK /\ credit \in [Id -> Nat]
  BY ListedType, Types DEF IInv, OperationEnable, Listed
<1>2. list[i].armed => (list[i].kind = "once" => list[i].ts = "ahead")
  BY <1>1 DEF IInv, ArmedIsDue
<1>3. /\ s \in Entry /\ s.index = list[i].index
      /\ s.armed => s.enabled /\ (s.kind = "once" => s.ts = "ahead")
  BY <1>1, <1>2, Oned, OnArmed, KnownType
<1>4. /\ credit' \in [Id -> Nat] /\ credit'[i] = credit[i] + 1
      /\ \A j \in Id : j # i => credit'[j] = credit[j]
  BY <1>1 DEF OperationEnable
<1>5. sync' \in {"none", "started", "done"} /\ syncTimer' \in BOOLEAN
  BY <1>1, SyncType DEF OperationEnable
<1>6. Handle /\ list' = [list EXCEPT ![i] = s] /\ nextIndex' = nextIndex
  BY DEF OperationEnable
<1>7. 1 \in {0, 1} /\ (1 = 0 => ~s.enabled)
  OBVIOUS
<1> HIDE DEF s
<1> QED
  BY <1>1, <1>3, <1>4, <1>5, <1>6, <1>7, OneSchedule

LEMMA DisableKeeps ==
  ASSUME IInv, NEW i \in Id, OperationDisable(i)
  PROVE  IInv'
<1> DEFINE s == Off(list[i])
<1>1. i \in Listed /\ list[i] \in Entry /\ TypeOK /\ credit \in [Id -> Nat]
  BY ListedType, Types DEF IInv, OperationDisable, Listed
<1>2. s \in Entry /\ s.index = list[i].index /\ ~s.enabled /\ ~s.armed
  BY <1>1, Offed
<1>3. /\ credit' \in [Id -> Nat] /\ credit'[i] = credit[i] + 0
      /\ \A j \in Id : j # i => credit'[j] = credit[j]
  BY <1>1 DEF OperationDisable
<1>4. sync' \in {"none", "started", "done"} /\ syncTimer' \in BOOLEAN
  BY <1>1 DEF OperationDisable, TypeOK
<1>5. Handle /\ list' = [list EXCEPT ![i] = s] /\ nextIndex' = nextIndex
  BY DEF OperationDisable
<1> HIDE DEF s
<1> QED
  BY <1>1, <1>2, <1>3, <1>4, <1>5, OneSchedule

LEMMA EditKeeps ==
  ASSUME IInv, NEW i \in Id, NEW kind \in Kind, OperationEdit(i, kind)
  PROVE  IInv'
<1> DEFINE new == [list[i] EXCEPT !.kind = kind, !.ts = "none"]
           s   == On(Off(new), Known(sync, clockSet))
<1>1. i \in Listed /\ list[i] \in Entry /\ TypeOK /\ credit \in [Id -> Nat]
  BY ListedType, Types DEF IInv, OperationEdit, Listed
<1>2. /\ new \in Entry /\ new.index = list[i].index
      /\ new.enabled = list[i].enabled /\ new.armed = list[i].armed
  BY <1>1 DEF Entry, Time
<1>3. Handle /\ nextIndex' = nextIndex
  BY DEF OperationEdit
<1>4. CASE new.enabled
  <2>1. /\ list' = [list EXCEPT ![i] = s]
        /\ credit' = [credit EXCEPT ![i] = @ + 1] /\ SyncOnce
    BY <1>4 DEF OperationEdit
  <2>2. Off(new) \in Entry /\ Off(new).index = list[i].index /\ ~Off(new).armed
    BY <1>2, Offed
  <2>3. /\ s \in Entry /\ s.index = list[i].index
        /\ s.armed => s.enabled /\ (s.kind = "once" => s.ts = "ahead")
    BY <1>1, <2>2, Oned, OnArmed, KnownType
  <2>4. /\ credit' \in [Id -> Nat] /\ credit'[i] = credit[i] + 1
        /\ \A j \in Id : j # i => credit'[j] = credit[j]
    BY <1>1, <2>1
  <2>5. sync' \in {"none", "started", "done"} /\ syncTimer' \in BOOLEAN
    BY <1>1, <2>1, SyncType
  <2>6. 1 \in {0, 1} /\ (1 = 0 => ~s.enabled)
    OBVIOUS
  <2> HIDE DEF s
  <2> QED
    BY <1>1, <1>3, <2>1, <2>3, <2>4, <2>5, <2>6, OneSchedule
<1>5. CASE ~new.enabled
  <2>1. /\ list' = [list EXCEPT ![i] = new]
        /\ UNCHANGED <<credit, sync, syncTimer>>
    BY <1>5 DEF OperationEdit
  <2>2. ~new.armed
    BY <1>1, <1>2, <1>5 DEF IInv, ArmedIsDue
  <2>3. /\ credit' \in [Id -> Nat] /\ credit'[i] = credit[i] + 0
        /\ \A j \in Id : j # i => credit'[j] = credit[j]
    BY <1>1, <2>1
  <2>4. sync' \in {"none", "started", "done"} /\ syncTimer' \in BOOLEAN
    BY <1>1, <2>1 DEF TypeOK
  <2> HIDE DEF new
  <2> QED
    BY <1>1, <1>2, <1>3, <1>5, <2>1, <2>2, <2>3, <2>4, OneSchedule
<1> QED
  BY <1>4, <1>5

LEMMA RemoveKeeps ==
  ASSUME IInv, NEW i \in Id, OperationRemove(i)
  PROVE  IInv'
<1>t. /\ TypeOK /\ Indexed /\ Queued /\ Credited /\ ArmedIsDue /\ Spent
      /\ list \in Lists /\ nextIndex \in Nat /\ requests \in Nat /\ reboots \in Nat
  BY Types DEF IInv
<1>h. /\ op' = "report" /\ requests' = requests + 1 /\ requests' \in 0 .. MaxRequests
      /\ UNCHANGED <<clockSet, stored, opCopy, queue, work, item, workCopy, overrun,
                     strayed, raced, lost, reboots, nextIndex, sync, syncTimer, credit>>
  BY <1>t, Handled DEF OperationRemove
<1>l. /\ list' \in Lists /\ Listed' = Listed \ {i}
      /\ \A j \in Id : j # i => list'[j] = list[j]
      /\ \A j \in Listed' : j \in Listed /\ list'[j] = list[j] /\ j \in Id
  BY <1>t DEF OperationRemove, Lists, Listed
<1>1. TypeOK'
  BY <1>h, <1>l, <1>t DEF TypeOK, Lists
<1>2. Indexed'
  <2>1. nextIndex' <= Cardinality(Id) + requests'
    BY <1>t, <1>h, Numbers DEF Indexed
  <2>2. Apart(list')
    BY <1>l, <1>t DEF Apart, Indexed, Listed
  <2> QED
    BY <2>1, <2>2, <1>l, <1>h, <1>t DEF Indexed
<1>3. Queued'
  BY <1>l, <1>h, <1>t, QueuedKept
<1>4. Credited'
  <2>1. ASSUME NEW j \in Listed' PROVE Covered(j, list[j], Runs(j))'
    <3>1. Runs(j)' = Runs(j)
      BY <1>h, <1>l, RunsKept
    <3> QED
      BY <3>1, <1>h, <1>l, <1>t DEF Covered, Credited, Due, Expired
  <2> QED
    BY <2>1 DEF Credited
<1>5. ArmedIsDue' /\ OwnTrigger' /\ OncePerRequest'
  BY <1>l, <1>h, <1>t DEF ArmedIsDue, IInv, OwnTrigger, OncePerRequest
<1>6. Spent'
  <2>1. ASSUME NEW j \in Id PROVE credit'[j] <= requests' + reboots'
    <3>1. credit[j] \in Nat /\ credit[j] <= requests + reboots
      BY <1>t, Types DEF Spent
    <3> QED
      BY <3>1, <1>t, <1>h
  <2> QED
    BY <2>1 DEF Spent
<1> QED
  BY <1>1, <1>2, <1>3, <1>4, <1>5, <1>6 DEF IInv
LEMMA AddKeeps ==
  ASSUME IInv, NEW i \in Id, NEW kind \in Kind, OperationAdd(i, kind)
  PROVE  IInv'
<1> DEFINE s == On(NewSchedule(kind), Known(sync, clockSet))
<1>t. /\ TypeOK /\ Indexed /\ Queued /\ Credited /\ ArmedIsDue /\ Spent
      /\ list \in Lists /\ nextIndex \in Nat /\ requests \in Nat /\ reboots \in Nat
      /\ credit \in [Id -> Nat] /\ list[i] = Absent
      /\ nextIndex' = nextIndex + 1
  BY Types DEF IInv, OperationAdd
<1>h. /\ op' = "report" /\ requests' = requests + 1 /\ requests' \in 0 .. MaxRequests
      /\ nextIndex + 1 <= MaxRequests + Cardinality(Id)
      /\ UNCHANGED <<clockSet, stored, opCopy, queue, work, item, workCopy, overrun,
                     strayed, raced, lost, reboots>>
  BY <1>t, Handled DEF OperationAdd
<1>n. nextIndex' \in 0 .. MaxRequests + Cardinality(Id) /\ nextIndex' \in Nat
      /\ nextIndex <= nextIndex' /\ item \in 0 .. nextIndex'
  BY <1>t, <1>h, Types, Numbers
<1>y. sync' \in {"none", "started", "done"} /\ syncTimer' \in BOOLEAN
  <2>1. SyncOnce \/ UNCHANGED <<sync, syncTimer>>
    BY DEF OperationAdd
  <2> QED
    BY <2>1, <1>t, SyncType DEF TypeOK
<1>1. CASE UNCHANGED <<list, credit>>
  <2>0. Listed' = Listed /\ \A j \in Listed : j \in Id
    BY <1>1 DEF Listed
  <2>1. Spent'
    <3>1. ASSUME NEW j \in Id PROVE credit'[j] <= requests' + reboots'
      <4>1. credit[j] \in Nat /\ credit[j] <= requests + reboots
        BY <1>t DEF Spent
      <4> QED
        BY <4>1, <1>1, <1>t, <1>h
    <3> QED
      BY <3>1 DEF Spent
  <2>2. TypeOK'
    BY <1>1, <1>h, <1>n, <1>y, <1>t DEF TypeOK, Lists
  <2>3. Indexed'
    <3>1. nextIndex' <= Cardinality(Id) + requests'
      BY <1>t, <1>h, Numbers DEF Indexed
    <3>2. ASSUME NEW j \in Listed PROVE list'[j].index < nextIndex'
      <4>1. list[j].index \in Nat /\ list[j].index < nextIndex
        BY <2>0, <1>t, ListedType, EntryType DEF Listed, Indexed
      <4> QED
        BY <4>1, <1>1, <1>t
    <3>3. work \in {"act", "expire"} => item < nextIndex'
      BY <1>t, Types DEF Indexed
    <3> QED
      BY <3>1, <3>2, <3>3, <2>0, <1>1, <1>h, <1>t DEF Indexed
  <2>4. Queued'
    BY <2>0, <1>1, <1>n, <1>h, <1>t, QueuedKept
  <2>5. Credited'
    <3>1. ASSUME NEW j \in Listed PROVE Covered(j, list[j], Runs(j))'
      <4>1. Runs(j)' = Runs(j)
        BY <1>1, <1>h, RunsKept
      <4> QED
        BY <4>1, <1>1, <1>t DEF Covered, Credited, Due, Expired
    <3> QED
      BY <3>1, <2>0 DEF Credited
  <2>6. ArmedIsDue' /\ OwnTrigger' /\ OncePerRequest'
    BY <2>0, <1>1, <1>h DEF ArmedIsDue, IInv, OwnTrigger, OncePerRequest
  <2> QED
    BY <2>1, <2>2, <2>3, <2>4, <2>5, <2>6 DEF IInv
<1>2. CASE /\ list' = [list EXCEPT ![i] = s]
           /\ credit' = [credit EXCEPT ![i] = @ + 1]
  <2>n. /\ NewSchedule(kind) \in Entry /\ ~NewSchedule(kind).armed
        /\ NewSchedule(kind).index = nextIndex
    BY <1>t, <1>h, Numbers DEF NewSchedule, Entry, Time
  <2>s. /\ s \in Entry /\ s # Absent /\ s.index = nextIndex
        /\ s.armed => s.enabled /\ (s.kind = "once" => s.ts = "ahead")
    <3>1. Known(sync, clockSet) \in BOOLEAN
      BY <1>t, KnownType
    <3>2. s \in Entry /\ s.index = NewSchedule(kind).index
      BY <2>n, <3>1, Oned
    <3>3. s.armed => s.enabled /\ (s.kind = "once" => s.ts = "ahead")
      BY <2>n, <3>1, OnArmed
    <3> QED
      BY <3>2, <3>3, <2>n, EntryType
  <2> HIDE DEF s
  <2>l. /\ list' \in Lists /\ list'[i] = s /\ Listed' = Listed \cup {i} /\ i \notin Listed
        /\ \A j \in Id : j # i => list'[j] = list[j]
        /\ \A j \in Listed : j \in Id /\ j # i
    BY <2>s, <1>2, <1>t DEF Lists, Listed
  <2>c. /\ credit' \in [Id -> Nat] /\ credit'[i] = credit[i] + 1
        /\ \A j \in Id : j # i => credit'[j] = credit[j]
    BY <1>2, <1>t
  <2>1. Spent'
    <3>1. ASSUME NEW j \in Id PROVE credit'[j] <= requests' + reboots'
      <4>1. /\ credit[j] \in Nat /\ credit[j] <= requests + reboots
            /\ credit'[j] \in {credit[j], credit[j] + 1}
        BY <2>c, <1>t DEF Spent
      <4> QED
        BY <4>1, <1>t, <1>h
    <3> QED
      BY <3>1 DEF Spent
  <2>2. TypeOK'
    <3>1. reboots' \in 0 .. MaxReboots
      BY <1>t, <1>h DEF TypeOK
    <3>2. credit' \in [Id -> 0 .. MaxRequests + MaxReboots]
      BY <3>1, <2>1, <2>c, <1>h, CreditBound
    <3> QED
      BY <3>2, <2>l, <1>h, <1>n, <1>y, <1>t DEF TypeOK, Lists
  <2>i. \A j \in Listed : list'[j] = list[j] /\ list[j].index \in Nat /\ list[j].index < nextIndex
    BY <2>l, <1>t, ListedType, EntryType DEF Listed, Indexed
  <2>3. Indexed'
    <3>1. nextIndex' <= Cardinality(Id) + requests'
      BY <1>t, <1>h, Numbers DEF Indexed
    <3>2. ASSUME NEW j \in Listed' PROVE list'[j].index < nextIndex'
      BY <2>i, <2>l, <2>s, <1>t
    <3>3. work \in {"act", "expire"} => item < nextIndex'
      BY <1>t, Types DEF Indexed
    <3>4. Apart(list')
      <4>1. ASSUME NEW j \in Listed', NEW k \in Listed', list'[j].index = list'[k].index
            PROVE  j = k
        <5>1. CASE j \in Listed /\ k \in Listed
          BY <4>1, <5>1, <2>i, <2>l, <1>t DEF Indexed, Apart, Listed
        <5>2. CASE ~(j \in Listed /\ k \in Listed)
          BY <4>1, <5>2, <2>i, <2>l, <2>s, <1>t
        <5> QED
          BY <5>1, <5>2
      <4> QED
        BY <4>1 DEF Apart, Listed
    <3> QED
      BY <3>1, <3>2, <3>3, <3>4, <1>h, <1>t DEF Indexed
  <2>4. Queued'
    BY <2>i, <2>l, <2>s, <1>n, <1>h, <1>t, QueuedKept
  <2>5. Credited'
    <3>1. ASSUME NEW j \in Listed PROVE Covered(j, list[j], Runs(j))'
      <4>1. Runs(j)' = Runs(j)
        BY <2>i, <1>h, RunsKept
      <4> QED
        BY <4>1, <2>i, <2>l, <2>c, <1>t DEF Covered, Credited, Due, Expired
    <3>2. Covered(i, list[i], Runs(i))'
      <4>1. Count(queue', [id |-> i, index |-> nextIndex]) = 0
        <5>1. ASSUME NEW k \in 1 .. Len(queue)
              PROVE  queue[k] # [id |-> i, index |-> nextIndex]
          <6>1. queue[k] = Look \/ queue[k].index < nextIndex
            BY <1>t DEF Queued, Owned
          <6> QED
            BY <6>1, <1>t, Numbers DEF Look
        <5> QED
          BY <5>1, <1>t, <1>h, CountNone DEF Queued
      <4>2. Working(i)' = 0
        <5>1. ~(work = "act" /\ item = nextIndex)
          BY <1>t, Types DEF Indexed
        <5> QED
          BY <5>1, <2>l, <2>s, <1>h DEF Working
      <4>3. Trigger(i)' = [id |-> i, index |-> nextIndex]
        BY <2>l, <2>s DEF Trigger
      <4>4. Runs(i)' = 0
        BY <4>1, <4>2, <4>3 DEF Runs
      <4>5. Due(list[i])' \in {0, 1}
        BY DEF Due
      <4>6. credit'[i] \in Nat /\ 1 <= credit'[i]
        BY <2>c, <1>t
      <4> QED
        BY <4>4, <4>5, <4>6 DEF Covered
    <3> QED
      BY <3>1, <3>2, <2>l DEF Credited
  <2>6. ArmedIsDue' /\ OwnTrigger' /\ OncePerRequest'
    BY <2>i, <2>l, <2>s, <1>h DEF ArmedIsDue, IInv, OwnTrigger, OncePerRequest
  <2> QED
    BY <2>1, <2>2, <2>3, <2>4, <2>5, <2>6 DEF IInv
<1> QED
  BY <1>1, <1>2 DEF OperationAdd
-----------------------------------------------------------------------------
(* Steps that turn nothing on and begin no run.                             *)
LEMMA Changes ==
  ASSUME IInv, TypeOK', Queued', Listed' = Listed,
         \A j \in Listed : /\ list'[j].index = list[j].index
                           /\ list'[j].kind = list[j].kind
                           /\ Due(list[j])' <= Due(list[j])
                           /\ list'[j].armed => list'[j].enabled /\
                                 (list'[j].kind = "once" => list'[j].ts = "ahead")
                           /\ Runs(j)' = Runs(j),
         UNCHANGED <<nextIndex, credit, requests, reboots, overrun, strayed>>,
         Apart(stored'), Apart(opCopy'), Apart(workCopy'),
         work' \in {"act", "expire"} => item' < nextIndex
  PROVE  IInv'
<1>t. /\ Indexed /\ Credited /\ ArmedIsDue /\ Spent /\ TypeOK
      /\ \A j \in Listed : j \in Id /\ list[j] # Absent
  BY DEF IInv, Listed
<1>1. Indexed'
  <2>1. Apart(list')
    BY <1>t DEF Apart, Indexed, Listed
  <2> QED
    BY <2>1, <1>t DEF Indexed
<1>2. Credited'
  <2>1. ASSUME NEW j \in Listed PROVE Covered(j, list[j], Runs(j))'
    <3>1. /\ Runs(j) \in Nat /\ credit[j] \in Nat /\ Runs(j)' = Runs(j)
          /\ Covered(j, list[j], Runs(j)) /\ credit'[j] = credit[j]
          /\ list'[j].kind = list[j].kind
      BY <1>t, Affordable DEF Credited
    <3>2. Due(list[j]) \in {0, 1} /\ Due(list[j])' \in {0, 1}
          /\ Due(list[j])' <= Due(list[j])
      BY DEF Due
    <3> QED
      BY <3>1, <3>2 DEF Covered
  <2> QED
    BY <2>1 DEF Credited
<1>3. ArmedIsDue' /\ Spent' /\ OwnTrigger' /\ OncePerRequest'
  BY <1>t DEF ArmedIsDue, Spent, OwnTrigger, OncePerRequest, IInv
<1> QED
  BY <1>1, <1>2, <1>3 DEF IInv

(* ... and leave the list and the queue as they are.                        *)
LEMMA Quiet ==
  ASSUME IInv, TypeOK',
         UNCHANGED <<list, queue, nextIndex, credit, requests, reboots, overrun, strayed>>,
         Apart(stored'), Apart(opCopy'), Apart(workCopy'),
         \/ UNCHANGED <<work, item>>
         \/ {work, work'} \cap {"act", "expire"} = {}
  PROVE  IInv'
<1>1. Listed' = Listed
  BY DEF Listed
<1>2. Queued'
  BY DEF IInv, Queued, Owned, Listed
<1>3. ASSUME NEW j \in Listed
      PROVE  /\ Due(list[j])' <= Due(list[j]) /\ Runs(j)' = Runs(j)
             /\ list'[j].armed => list'[j].enabled /\
                   (list'[j].kind = "once" => list'[j].ts = "ahead")
  <2>1. Due(list[j])' = Due(list[j]) /\ Due(list[j]) \in {0, 1}
    BY DEF Due, Expired
  <2>2. Runs(j)' = Runs(j)
    BY DEF Runs, Count, Places, Working, Trigger
  <2> QED
    BY <2>1, <2>2 DEF IInv, ArmedIsDue
<1>4. work' \in {"act", "expire"} => item' < nextIndex
  BY DEF IInv, Indexed
<1> QED
  BY <1>1, <1>2, <1>3, <1>4, Changes

LEMMA ReportKeeps ==
  ASSUME IInv, Report \/ WorkReport \/ SetClock
  PROVE  IInv'
<1>t. /\ TypeOK /\ Apart(list) /\ Apart(stored) /\ Apart(opCopy) /\ Apart(workCopy)
      /\ list \in Lists /\ stored \in Lists /\ opCopy \in Lists /\ workCopy \in Lists
  BY Types DEF IInv, Indexed
<1>c. /\ UNCHANGED <<list, queue, nextIndex, credit, requests, reboots, overrun, strayed,
                     sync, syncTimer, lost, item>>
      /\ \/ UNCHANGED work
         \/ {work, work'} \cap {"act", "expire"} = {}
  BY DEF Report, WorkReport, SetClock, ram, worker, history, bounds
<1>1. /\ stored' \in Lists /\ opCopy' \in Lists /\ workCopy' \in Lists
      /\ Apart(stored') /\ Apart(opCopy') /\ Apart(workCopy')
  <2>1. \/ stored' = stored
        \/ stored' = opCopy
        \/ stored' = workCopy
    BY DEF Report, WorkReport, SetClock
  <2>2. opCopy' \in {list, opCopy, [i \in Id |-> Absent]}
    BY DEF Report, WorkReport, SetClock, mqtt
  <2>3. workCopy' \in {list, workCopy, [i \in Id |-> Absent]}
    BY DEF Report, WorkReport, SetClock, worker
  <2> QED
    BY <2>1, <2>2, <2>3, <1>t, NoCopy
<1>2. /\ clockSet' \in BOOLEAN /\ raced' \in BOOLEAN
      /\ op' \in {"idle", "report", "store"}
      /\ work' \in {"idle", "act", "expire", "walk", "report", "store"}
  BY <1>t DEF Report, WorkReport, SetClock, worker, mqtt, history, TypeOK
<1>3. TypeOK'
  BY <1>c, <1>1, <1>2, <1>t DEF TypeOK, Lists
<1> QED
  BY <1>c, <1>1, <1>3, Quiet

LEMMA MissKeeps ==
  ASSUME IInv, NEW i \in Id, Miss(i)
  PROVE  IInv'
<1> DEFINE s == [list[i] EXCEPT !.ts = "past"]
<1>t. /\ TypeOK /\ Indexed /\ Queued /\ ArmedIsDue /\ list[i] \in Entry /\ i \in Listed
      /\ ~list[i].armed /\ list[i].ts = "ahead" /\ nextIndex \in Nat
      /\ stored \in Lists /\ opCopy \in Lists /\ workCopy \in Lists
  BY Types, ListedType DEF IInv, Miss, Listed
<1>c. UNCHANGED <<nextIndex, sync, syncTimer, clockSet, op, queue, work, item,
                  credit, overrun, strayed, raced, lost, requests, reboots>>
  BY DEF Miss, history, bounds
<1>s. /\ s \in Entry /\ s.index = list[i].index /\ s.kind = list[i].kind
      /\ s.enabled = list[i].enabled /\ ~s.armed /\ list' = [list EXCEPT ![i] = s]
      /\ Expired(list[i]) => Expired(s)
  BY <1>t DEF Entry, Time, Miss, Expired
<1> HIDE DEF s
<1>l. /\ list' \in Lists /\ Listed' = Listed
      /\ list'[i] = s /\ \A j \in Id : j # i => list'[j] = list[j]
      /\ \A j \in Listed : list'[j].index = list[j].index
  <2>1. nextIndex' \in Nat /\ nextIndex <= nextIndex'
    BY <1>t, <1>c
  <2> QED
    BY <2>1, <1>s, <1>t, ListAfter
<1>1. /\ stored' \in Lists /\ opCopy' \in Lists /\ workCopy' \in Lists
      /\ Apart(stored') /\ Apart(opCopy') /\ Apart(workCopy')
  BY <1>t, Elapsed DEF Miss, TimePasses, Indexed
<1>2. TypeOK'
  BY <1>c, <1>l, <1>1, <1>t DEF TypeOK, Lists
<1>3. Queued'
  <2>1. nextIndex' \in Nat /\ nextIndex <= nextIndex'
    BY <1>t, <1>c
  <2> QED
    BY <2>1, <1>l, <1>c, <1>t, QueuedKept
<1>4. ASSUME NEW j \in Listed
      PROVE  /\ list'[j].kind = list[j].kind
             /\ Due(list[j])' <= Due(list[j])
             /\ list'[j].armed => list'[j].enabled /\
                   (list'[j].kind = "once" => list'[j].ts = "ahead")
             /\ Runs(j)' = Runs(j)
  <2>1. Runs(j)' = Runs(j)
    BY <1>c, <1>l, RunsKept
  <2>2. Due(list[j])' \in {0, 1} /\ Due(list[j]) \in {0, 1}
        /\ (Due(list[j]) = 0 => Due(list[j])' = 0)
    BY <1>l, <1>s DEF Due, Expired, Listed
  <2> QED
    BY <2>1, <2>2, <1>l, <1>s, <1>t DEF ArmedIsDue, Listed
<1>5. work' \in {"act", "expire"} => item' < nextIndex
  BY <1>c, <1>t DEF Indexed
<1> QED
  BY <1>c, <1>l, <1>1, <1>2, <1>3, <1>4, <1>5, Changes
-----------------------------------------------------------------------------
(* The timers.                                                              *)
LEMMA OwnedKept ==
  ASSUME NEW w, Owned(w), Listed' = Listed, nextIndex' = nextIndex,
         \A j \in Listed : list'[j].index = list[j].index
  PROVE  Owned(w)'
BY DEF Owned

LEMMA QueuedAppend ==
  ASSUME Queued, NEW w \in Items, w = Look \/ Owned(w),
         queue' = queue \/ queue' = Append(queue, w),
         Listed' = Listed, nextIndex' = nextIndex,
         \A j \in Listed : list'[j].index = list[j].index
  PROVE  Queued'
<1>q. queue \in Seq(Items) /\ \A k \in 1 .. Len(queue) : queue[k] = Look \/ Owned(queue[k])
  BY DEF Queued
<1>1. CASE queue' = queue
  BY <1>1, <1>q, OwnedKept DEF Queued, Look
<1>2. CASE queue' = Append(queue, w)
  <2>1. /\ queue' \in Seq(Items) /\ Len(queue') = Len(queue) + 1 /\ Len(queue) \in Nat
        /\ queue'[Len(queue) + 1] = w
        /\ \A k \in 1 .. Len(queue) : queue'[k] = queue[k]
    BY <1>2, <1>q, AppendProperties
  <2>2. ASSUME NEW k \in 1 .. Len(queue') PROVE queue'[k] = Look \/ Owned(queue'[k])
    <3>1. CASE k \in 1 .. Len(queue)
      BY <3>1, <2>1, <1>q
    <3>2. CASE k = Len(queue) + 1
      BY <3>2, <2>1
    <3> QED
      BY <3>1, <3>2, <2>1
  <2>3. ASSUME NEW v, Owned(v) PROVE Owned(v)'
    BY <2>3, OwnedKept
  <2> QED
    BY <2>1, <2>2, <2>3 DEF Queued, Look, Owned
<1> QED
  BY <1>1, <1>2

LEMMA TriggerType ==
  ASSUME IInv, NEW i \in Listed
  PROVE  /\ Trigger(i) \in Items /\ Trigger(i) # Look /\ Owned(Trigger(i))
         /\ \A j : j # i => Trigger(j) # Trigger(i)
<1>1. /\ i \in Id /\ i # Absent /\ list[i].index \in Nat /\ list[i].index < nextIndex
      /\ Apart(list)
  BY Types, ListedType, EntryType, Numbers DEF IInv, Listed, Indexed
<1> QED
  BY <1>1 DEF Trigger, Items, Look, Owned, Apart, Listed

LEMMA SyncTimerKeeps ==
  ASSUME IInv, SyncTimerFires
  PROVE  IInv'
<1>t. /\ TypeOK /\ Queued /\ Indexed /\ ArmedIsDue /\ queue \in Seq(Items)
      /\ UNCHANGED <<list, nextIndex, sync, clockSet, stored, op, opCopy, work, item,
                     workCopy, credit, overrun, strayed, raced, requests, reboots>>
  BY DEF IInv, SyncTimerFires, Queued, mqtt, bounds
<1>1. Look \in Items /\ \A i \in Listed : Look # Trigger(i)
  BY TriggerType DEF Look, Items
<1>2. /\ \/ queue' = queue
         \/ queue' = Append(queue, Look) /\ Len(queue) < QueueSize
      /\ lost' \subseteq Id \cup {"sync"} /\ syncTimer' \in BOOLEAN
  BY <1>t DEF SyncTimerFires, AddTask, TypeOK
<1>3. Len(queue') <= QueueSize
  <2>1. queue' # queue => Len(queue') = Len(queue) + 1
    BY <1>t, <1>1, <1>2, AppendProperties
  <2>2. Len(queue) \in Nat
    BY <1>t
  <2> QED
    BY <2>1, <2>2, <1>2, <1>t, Numbers DEF TypeOK
<1>4. TypeOK'
  BY <1>2, <1>3, <1>t DEF TypeOK
<1>5. Queued'
  BY <1>1, <1>2, <1>t, QueuedAppend DEF Listed
<1>6. ASSUME NEW j \in Listed
      PROVE  /\ list'[j].index = list[j].index /\ list'[j].kind = list[j].kind
             /\ Due(list[j])' <= Due(list[j])
             /\ list'[j].armed => list'[j].enabled /\
                   (list'[j].kind = "once" => list'[j].ts = "ahead")
             /\ Runs(j)' = Runs(j)
  <2>1. Due(list[j])' = Due(list[j]) /\ Due(list[j]) \in {0, 1}
    BY <1>t DEF Due, Expired
  <2>2. Count(queue', Trigger(j)) = Count(queue, Trigger(j))
    <3>1. Look \in Items /\ Look # Trigger(j)
      BY <1>1
    <3> QED
      BY <3>1, <1>2, <1>t, CountOther
  <2>3. Trigger(j)' = Trigger(j) /\ Working(j)' = Working(j)
    BY <1>t DEF Trigger, Working
  <2>4. Runs(j)' = Runs(j)
    BY <2>2, <2>3 DEF Runs
  <2> QED
    BY <2>1, <2>4, <1>t DEF ArmedIsDue
<1> QED
  BY <1>4, <1>5, <1>6, <1>t, Changes DEF Listed, Indexed

(* A timer that fires: the run that was due is now one that waits.          *)
LEMMA FireKeeps ==
  ASSUME IInv, NEW i \in Id, Fire(i)
  PROVE  IInv'
<1> DEFINE s == [list[i] EXCEPT !.ts = "past", !.armed = FALSE]
           n == IF list[i].kind = "once" THEN s ELSE list[i]
<1>t. /\ TypeOK /\ Indexed /\ Queued /\ Credited /\ ArmedIsDue /\ Spent
      /\ list[i] \in Entry /\ i \in Listed /\ list[i].armed /\ list[i].enabled
      /\ list[i].kind = "once" => list[i].ts = "ahead"
      /\ nextIndex \in Nat /\ queue \in Seq(Items) /\ list \in Lists
      /\ stored \in Lists /\ opCopy \in Lists /\ workCopy \in Lists
      /\ requests \in Nat /\ reboots \in Nat
  BY Types, ListedType DEF IInv, Fire, Listed, ArmedIsDue, Queued
<1>c. UNCHANGED <<nextIndex, sync, syncTimer, clockSet, op, work, item, credit, overrun,
                  strayed, raced, requests, reboots>>
  BY DEF Fire, bounds
<1>k. list[i].kind \in Kind
  BY <1>t, EntryType
<1>s. /\ n \in Entry /\ n.index = list[i].index /\ n.kind = list[i].kind
      /\ n.armed => n.enabled /\ (n.kind = "once" => n.ts = "ahead")
      /\ list' = [list EXCEPT ![i] = n]
      /\ Due(n) = IF list[i].kind = "once" THEN 0 ELSE 1
      /\ Due(list[i]) = 1
  <2>1. CASE list[i].kind = "once"
    <3>1. s \in Entry /\ s.index = list[i].index /\ s.kind = "once" /\ ~s.armed /\ s.ts = "past"
      BY <2>1, <1>t DEF Entry, Time
    <3>2. list' = [list EXCEPT ![i] = s]
      BY <2>1, <1>t DEF Fire, Lists
    <3> QED
      BY <2>1, <3>1, <3>2, <1>t DEF Due, Expired
  <2>2. CASE list[i].kind # "once"
    <3>1. list' = [list EXCEPT ![i] = list[i]]
      BY <2>2, <1>t DEF Fire, Lists
    <3> QED
      BY <2>2, <3>1, <1>t DEF Due, Expired
  <2> QED
    BY <2>1, <2>2
<1> HIDE DEF n
<1>l. /\ list' \in Lists /\ Listed' = Listed /\ Apart(list')
      /\ list'[i] = n /\ \A j \in Id : j # i => list'[j] = list[j]
      /\ \A j \in Listed : list'[j].index = list[j].index
      /\ \A j \in Listed : list'[j].index < nextIndex'
  <2>1. nextIndex' \in Nat /\ nextIndex <= nextIndex'
    BY <1>t, <1>c
  <2> QED
    BY <2>1, <1>s, <1>t, ListAfter
<1>g. /\ Trigger(i) \in Items /\ Trigger(i) # Look /\ Owned(Trigger(i))
      /\ \A j : j # i => Trigger(j) # Trigger(i)
  BY <1>t, TriggerType
<1>q. /\ \/ queue' = queue
         \/ queue' = Append(queue, Trigger(i)) /\ Len(queue) < QueueSize
      /\ lost' \subseteq Id \cup {"sync"}
  BY <1>t DEF Fire, AddTask, TypeOK
<1>1. Len(queue') <= QueueSize
  <2>1. queue' # queue => Len(queue') = Len(queue) + 1
    BY <1>t, <1>g, <1>q, AppendProperties
  <2>2. Len(queue) \in Nat
    BY <1>t
  <2> QED
    BY <2>1, <2>2, <1>q, <1>t, Numbers DEF TypeOK
<1>2. /\ stored' \in Lists /\ opCopy' \in Lists /\ workCopy' \in Lists
      /\ Apart(stored') /\ Apart(opCopy') /\ Apart(workCopy')
  <2>1. TimePasses(i) \/ UNCHANGED <<stored, opCopy, workCopy>>
    BY DEF Fire
  <2> QED
    BY <2>1, <1>t, Elapsed DEF TimePasses, Indexed
<1>3. TypeOK'
  BY <1>c, <1>l, <1>q, <1>1, <1>2, <1>t DEF TypeOK, Lists
<1>4. Indexed'
  BY <1>c, <1>l, <1>2, <1>t DEF Indexed
<1>5. Queued'
  BY <1>c, <1>l, <1>g, <1>q, <1>t, QueuedAppend
<1>6. Credited'
  <2>1. ASSUME NEW j \in Listed PROVE Covered(j, list[j], Runs(j))'
    <3>0. j \in Id /\ credit'[j] = credit[j]
      BY <1>c DEF Listed
    <3>1. Trigger(j)' = Trigger(j) /\ Working(j)' = Working(j)
      BY <1>c, <1>l DEF Trigger, Working
    <3>2. /\ Runs(j) \in Nat /\ credit[j] \in Nat /\ Runs(j) <= credit[j]
          /\ Count(queue, Trigger(j)) \in Nat /\ Working(j) \in {0, 1}
          /\ Covered(j, list[j], Runs(j))
      BY <1>t, Affordable DEF Credited
    <3>3. CASE j # i
      <4>1. Count(queue', Trigger(j)) = Count(queue, Trigger(j))
        <5>1. Trigger(i) \in Items /\ Trigger(i) # Trigger(j)
          BY <3>3, <1>g
        <5> QED
          BY <5>1, <1>q, <1>t, CountOther
      <4>2. Runs(j)' = Runs(j)
        BY <3>1, <4>1 DEF Runs
      <4>3. list'[j] = list[j] /\ Due(list[j])' = Due(list[j])
        BY <3>0, <3>3, <1>l DEF Due, Expired
      <4> QED
        BY <3>0, <3>2, <4>2, <4>3 DEF Covered
    <3>4. CASE j = i
      <4>1. Count(queue', Trigger(i)) <= Count(queue, Trigger(i)) + 1
            /\ Count(queue', Trigger(i)) \in Nat
        <5>1. Count(queue, Trigger(i)) \in Nat
          BY <3>2, <3>4
        <5>2. Count(queue', Trigger(i))
                \in {Count(queue, Trigger(i)), Count(queue, Trigger(i)) + 1}
          BY <1>g, <1>q, <1>t, CountAppend
        <5> QED
          BY <5>1, <5>2
      <4>2. Runs(i)' <= Runs(i) + 1 /\ Runs(i)' \in Nat
        BY <3>1, <3>2, <3>4, <4>1 DEF Runs
      <4>3. Due(list[i])' = Due(n) /\ list'[i].kind = list[i].kind
        BY <1>l, <1>s DEF Due, Expired
      <4>4. CASE list[i].kind = "once"
        <5>1. Runs(i) + 1 <= credit[i]
          BY <3>2, <3>4, <4>4, <1>s DEF Covered
        <5>2. Runs(i)' + Due(list[i])' <= credit'[i]
          BY <3>0, <3>2, <3>4, <4>2, <4>3, <4>4, <5>1, <1>s
        <5> QED
          BY <3>4, <5>2 DEF Covered
      <4>5. CASE list[i].kind # "once"
        <5>1. list[i].kind = "repeat"
          BY <4>5, <1>k DEF Kind
        <5>2. Count(queue, Trigger(i)) = 0 /\ Working(i) = 0
          <6>1. /\ ~Contains(queue, Trigger(i))
                /\ ~(work \in {"act", "expire"} /\ item = list[i].index)
            BY <4>5 DEF Fire
          <6>2. Count(queue, Trigger(i)) = 0
            BY <6>1, <1>t, CountNone DEF Contains
          <6> QED
            BY <6>1, <6>2 DEF Working
        <5>3. Runs(i) = 0
          BY <5>2 DEF Runs
        <5>4. 1 <= credit[i]
          BY <3>2, <3>4, <5>3, <1>s DEF Covered
        <5>5. Runs(i)' <= 1 /\ 1 <= credit'[i] /\ list'[i].kind = "repeat"
          BY <3>0, <3>4, <4>2, <4>3, <5>1, <5>3, <5>4
        <5> QED
          BY <3>4, <5>5 DEF Covered
      <4> QED
        BY <4>4, <4>5
    <3> QED
      BY <3>3, <3>4
  <2> QED
    BY <2>1, <1>l DEF Credited
<1>7. ArmedIsDue'
  BY <1>l, <1>s, <1>t DEF ArmedIsDue, Listed
<1>8. Spent' /\ OwnTrigger' /\ OncePerRequest'
  BY <1>c, <1>t DEF Spent, IInv, OwnTrigger, OncePerRequest
<1> QED
  BY <1>3, <1>4, <1>5, <1>6, <1>7, <1>8 DEF IInv
-----------------------------------------------------------------------------
(* The work queue.                                                          *)
LEMMA Taken ==
  ASSUME IInv, queue # <<>>, queue' = Tail(queue), UNCHANGED <<list, nextIndex>>
  PROVE  /\ Queued' /\ Len(queue') <= QueueSize /\ Head(queue) \in Items
         /\ Head(queue) = Look \/ Owned(Head(queue))
         /\ \A w : Count(queue, w) = Count(queue', w) + (IF Head(queue) = w THEN 1 ELSE 0)
         /\ \A w : Count(queue', w) \in Nat
<1>q. /\ queue \in Seq(Items) /\ Len(queue) <= QueueSize
      /\ \A k \in 1 .. Len(queue) : queue[k] = Look \/ Owned(queue[k])
  BY DEF IInv, Queued, TypeOK
<1>1. /\ queue' \in Seq(Items) /\ Head(queue) \in Items
      /\ Len(queue) \in Nat /\ Len(queue) >= 1 /\ Head(queue) = queue[1]
      /\ Len(queue') = Len(queue) - 1
      /\ \A k \in 1 .. Len(queue') : queue'[k] = queue[k + 1]
  BY <1>q, HeadTailProperties, EmptySeq
<1>2. Queued'
  <2>1. ASSUME NEW k \in 1 .. Len(queue') PROVE queue'[k] = Look \/ Owned(queue'[k])
    <3>1. k + 1 \in 1 .. Len(queue) /\ queue'[k] = queue[k + 1]
      BY <1>1
    <3> QED
      BY <3>1, <1>q
  <2>2. Listed' = Listed /\ \A j \in Listed : list'[j].index = list[j].index
    BY DEF Listed
  <2>3. ASSUME NEW v, Owned(v) PROVE Owned(v)'
    BY <2>2, <2>3, OwnedKept
  <2> QED
    BY <2>1, <2>3, <1>1 DEF Queued, Look, Owned
<1>3. Len(queue') <= QueueSize
  BY <1>q, <1>1, Numbers
<1>4. \A w : Count(queue, w) = Count(queue', w) + (IF Head(queue) = w THEN 1 ELSE 0)
  BY <1>q, CountTail
<1>5. \A w : Count(queue', w) \in Nat
  BY <1>1, CountType
<1>6. Head(queue) = Look \/ Owned(Head(queue))
  BY <1>q, <1>1
<1> QED
  BY <1>1, <1>2, <1>3, <1>4, <1>5, <1>6

LEMMA TakeSyncKeeps ==
  ASSUME IInv, TakeSync
  PROVE  IInv'
<1>t. /\ TypeOK /\ Indexed /\ ArmedIsDue /\ work = "idle" /\ queue # <<>>
      /\ queue' = Tail(queue) /\ Head(queue) = Look
      /\ sync' \in {"none", "started", "done"} /\ syncTimer' \in BOOLEAN
      /\ work' \in {"idle", "walk"}
      /\ UNCHANGED <<list, nextIndex, clockSet, stored, op, opCopy, workCopy, credit,
                     overrun, strayed, raced, lost, requests, reboots, item>>
  BY DEF IInv, TakeSync, Take, TypeOK, mqtt, bounds
<1>1. /\ Queued' /\ Len(queue') <= QueueSize
      /\ \A w : Count(queue, w) = Count(queue', w) + (IF Head(queue) = w THEN 1 ELSE 0)
      /\ \A w : Count(queue', w) \in Nat
  BY <1>t, Taken
<1>2. TypeOK'
  BY <1>1, <1>t DEF TypeOK
<1>3. ASSUME NEW j \in Listed
      PROVE  /\ Due(list[j])' <= Due(list[j]) /\ Runs(j)' = Runs(j)
             /\ list'[j].armed => list'[j].enabled /\
                   (list'[j].kind = "once" => list'[j].ts = "ahead")
  <2>1. Due(list[j])' = Due(list[j]) /\ Due(list[j]) \in {0, 1}
    BY <1>t DEF Due, Expired
  <2>2. Head(queue) # Trigger(j)
    BY <1>t, TriggerType
  <2>3. Count(queue', Trigger(j)) = Count(queue, Trigger(j))
    <3>1. Count(queue, Trigger(j)) = Count(queue', Trigger(j)) + 0
      BY <1>1, <2>2
    <3> QED
      BY <3>1, <1>1
  <2>4. Trigger(j)' = Trigger(j) /\ Working(j)' = 0 /\ Working(j) = 0
    BY <1>t DEF Trigger, Working
  <2>5. Runs(j)' = Runs(j)
    BY <2>3, <2>4 DEF Runs
  <2> QED
    BY <2>1, <2>5, <1>t DEF ArmedIsDue
<1> QED
  BY <1>1, <1>2, <1>3, <1>t, Changes DEF Listed, Indexed

(* The trigger finds its own schedule or none: the run that waited is now   *)
(* the one at work.                                                         *)
LEMMA TakeTriggerKeeps ==
  ASSUME IInv, TakeTrigger
  PROVE  IInv'
<1> DEFINE h == Head(queue)
<1>t. /\ TypeOK /\ Indexed /\ ArmedIsDue /\ work = "idle" /\ queue # <<>>
      /\ queue' = Tail(queue) /\ h # Look /\ nextIndex \in Nat
      /\ UNCHANGED <<list, nextIndex, sync, syncTimer, clockSet, stored, op, opCopy,
                     workCopy, credit, overrun, raced, lost, requests, reboots>>
  BY Types DEF IInv, TakeTrigger, Take, mqtt, bounds
<1>1. /\ Queued' /\ Len(queue') <= QueueSize /\ h \in Items /\ Owned(h)
      /\ \A w : Count(queue, w) = Count(queue', w) + (IF h = w THEN 1 ELSE 0)
      /\ \A w : Count(queue', w) \in Nat
  BY <1>t, Taken
<1>o. /\ h.id \in Id /\ h.index \in Nat /\ h.index < nextIndex
      /\ h = [id |-> h.id, index |-> h.index]
      /\ \A j \in Listed : list[j].index = h.index => j = h.id
  BY <1>1 DEF Owned, Items
<1>2. strayed' = strayed
  <2>1. At(h.index) \subseteq {h.id}
    BY <1>o DEF At
  <2>2. strayed \in BOOLEAN
    BY <1>t, Types
  <2> QED
    BY <2>1, <2>2 DEF TakeTrigger
<1>3. \/ UNCHANGED <<work, item>> /\ \A j \in Listed : list[j].index # h.index
      \/ work' = "act" /\ item' = h.index
  BY DEF TakeTrigger, At
<1>4. TypeOK'
  <2>1. item' \in 0 .. nextIndex
    BY <1>3, <1>o, <1>t DEF TypeOK
  <2> QED
    BY <2>1, <1>1, <1>2, <1>3, <1>t DEF TypeOK
<1> HIDE DEF h
<1>5. ASSUME NEW j \in Listed
      PROVE  /\ Due(list[j])' <= Due(list[j]) /\ Runs(j)' = Runs(j)
             /\ list'[j].armed => list'[j].enabled /\
                   (list'[j].kind = "once" => list'[j].ts = "ahead")
  <2>1. Due(list[j])' = Due(list[j]) /\ Due(list[j]) \in {0, 1}
    BY <1>t DEF Due, Expired
  <2>2. Trigger(j)' = Trigger(j) /\ Working(j) = 0
    BY <1>t DEF Trigger, Working
  <2>3. Count(queue, Trigger(j)) = Count(queue', Trigger(j))
                                     + (IF h = Trigger(j) THEN 1 ELSE 0)
        /\ Count(queue', Trigger(j)) \in Nat
    BY <1>1
  <2>4. Working(j)' = IF h = Trigger(j) THEN 1 ELSE 0
    <3>1. CASE list[j].index = h.index
      <4>1. h = Trigger(j)
        BY <3>1, <1>o DEF Trigger
      <4>2. work' = "act" /\ item' = list'[j].index
        BY <3>1, <1>3, <1>t
      <4> QED
        BY <4>1, <4>2 DEF Working
    <3>2. CASE list[j].index # h.index
      <4>1. h # Trigger(j)
        BY <3>2 DEF Trigger
      <4>2. ~(work' = "act" /\ item' = list'[j].index)
        BY <3>2, <1>3, <1>t
      <4> QED
        BY <4>1, <4>2 DEF Working
    <3> QED
      BY <3>1, <3>2
  <2>5. Runs(j)' = Runs(j)
    <3>1. Runs(j)' = Count(queue', Trigger(j)) + Working(j)'
      BY <2>2 DEF Runs
    <3>2. Runs(j) = Count(queue, Trigger(j)) + 0
      BY <2>2 DEF Runs
    <3> QED
      BY <3>1, <3>2, <2>3, <2>4
  <2> QED
    BY <2>1, <2>5, <1>t DEF ArmedIsDue
<1>6. work' \in {"act", "expire"} => item' < nextIndex
  BY <1>3, <1>o, <1>t
<1> QED
  BY <1>1, <1>2, <1>4, <1>5, <1>6, <1>t, Changes DEF Listed, Indexed

(* The run that is at work was owed.                                        *)
LEMMA ActKeeps ==
  ASSUME IInv, Act
  PROVE  IInv'
<1>t. /\ TypeOK /\ Indexed /\ Queued /\ Credited /\ ArmedIsDue /\ Spent
      /\ work = "act" /\ work' = "expire" /\ credit \in [Id -> Nat]
      /\ requests \in Nat /\ reboots \in Nat
      /\ UNCHANGED <<list, nextIndex, sync, syncTimer, clockSet, stored, op, opCopy, queue,
                     item, workCopy, strayed, raced, lost, requests, reboots>>
  BY Types DEF IInv, Act, ram, mqtt, bounds
<1>1. PICK i \in At(item) :
           IF list[i].kind = "repeat" THEN UNCHANGED <<credit, overrun>>
           ELSE IF credit[i] = 0 THEN overrun' = TRUE /\ UNCHANGED credit
           ELSE credit' = [credit EXCEPT ![i] = @ - 1] /\ UNCHANGED overrun
  BY DEF Act
<1>2. /\ i \in Listed /\ i \in Id /\ list[i].index = item /\ list[i] \in Entry
      /\ \A j \in Listed : j # i => list[j].index # item
  BY <1>1, <1>t, Types, ListedType DEF At, Listed, Indexed, Apart
<1>3. /\ Working(i) = 1 /\ Working(i)' = 0
      /\ \A j \in Listed : j # i => Working(j) = 0 /\ Working(j)' = 0
  BY <1>2, <1>t DEF Working
<1>4. \A j \in Listed : /\ Count(queue, Trigger(j)) \in Nat
                        /\ Count(queue, Trigger(j))' = Count(queue, Trigger(j))
  BY <1>t, Affordable DEF Count, Places, Trigger
<1>5. /\ Runs(i) = Runs(i)' + 1 /\ Runs(i)' \in Nat
      /\ \A j \in Listed : j # i => Runs(j)' = Runs(j)
  BY <1>2, <1>3, <1>4 DEF Runs
<1>6. /\ credit[i] \in Nat /\ Runs(i) <= credit[i] /\ credit[i] # 0
      /\ Covered(i, list[i], Runs(i))
  BY <1>2, <1>5, <1>t, Affordable DEF Credited
<1>7. /\ overrun' = overrun /\ credit' \in [Id -> Nat]
      /\ \A j \in Id : j # i => credit'[j] = credit[j]
      /\ IF list[i].kind = "repeat" THEN credit'[i] = credit[i]
                                    ELSE credit'[i] = credit[i] - 1
  <2>1. CASE list[i].kind = "repeat"
    BY <2>1, <1>1, <1>t
  <2>2. CASE list[i].kind # "repeat"
    <3>1. credit' = [credit EXCEPT ![i] = credit[i] - 1] /\ credit[i] - 1 \in Nat
      BY <2>2, <1>1, <1>6
    <3> QED
      BY <2>2, <3>1, <1>1, <1>2, <1>6, <1>t
  <2> QED
    BY <2>1, <2>2
<1>8. Spent'
  <2>1. ASSUME NEW j \in Id PROVE credit'[j] <= requests' + reboots'
    <3>1. /\ credit[j] \in Nat /\ credit[j] <= requests + reboots
          /\ credit'[j] \in Nat /\ credit'[j] <= credit[j]
      BY <1>2, <1>6, <1>7, <1>t DEF Spent
    <3> QED
      BY <3>1, <1>t
  <2> QED
    BY <2>1 DEF Spent
<1>9. TypeOK'
  <2>1. credit' \in [Id -> 0 .. MaxRequests + MaxReboots]
    BY <1>7, <1>8, <1>t, CreditBound DEF TypeOK
  <2> QED
    BY <2>1, <1>7, <1>t DEF TypeOK
<1>10. Credited'
  <2>1. ASSUME NEW j \in Listed PROVE Covered(j, list[j], Runs(j))'
    <3>1. Due(list[j])' = Due(list[j]) /\ Due(list[j]) \in {0, 1} /\ j \in Id
      BY <1>t DEF Due, Expired, Listed
    <3>2. CASE j # i
      BY <3>1, <3>2, <1>5, <1>7, <1>t DEF Covered, Credited
    <3>3. CASE j = i
      BY <3>1, <3>3, <1>5, <1>6, <1>7, <1>t DEF Covered
    <3> QED
      BY <3>2, <3>3
  <2> QED
    BY <2>1, <1>t DEF Credited, Listed
<1>11. Indexed' /\ Queued' /\ ArmedIsDue' /\ OwnTrigger' /\ OncePerRequest'
  BY <1>7, <1>t DEF Indexed, Queued, Owned, Listed, ArmedIsDue, IInv, OwnTrigger,
                    OncePerRequest
<1> QED
  BY <1>8, <1>9, <1>10, <1>11 DEF IInv
(* A step of the work queue that changes one schedule and begins no run.    *)
LEMMA OneQuiet ==
  ASSUME IInv, NEW i \in Listed, NEW s \in Entry,
         s.index = list[i].index, s.kind = list[i].kind, Due(s) <= Due(list[i]),
         s.armed => s.enabled /\ (s.kind = "once" => s.ts = "ahead"),
         list' = [list EXCEPT ![i] = s],
         work # "act", work' \in {"idle", "walk", "report"}, item' \in 0 .. nextIndex,
         stored' = stored \/ stored' = list', raced' \in BOOLEAN,
         UNCHANGED <<nextIndex, sync, syncTimer, clockSet, op, opCopy, queue, workCopy,
                     credit, overrun, strayed, lost, requests, reboots>>
  PROVE  IInv'
<1>t. /\ TypeOK /\ Indexed /\ Queued /\ ArmedIsDue /\ nextIndex \in Nat
  BY Types DEF IInv
<1>l. /\ list' \in Lists /\ Listed' = Listed /\ Apart(list')
      /\ list'[i] = s /\ \A j \in Id : j # i => list'[j] = list[j]
      /\ \A j \in Listed : list'[j].index = list[j].index
  <2>1. nextIndex' \in Nat /\ nextIndex <= nextIndex'
    BY <1>t
  <2> QED
    BY <2>1, <1>t, ListAfter
<1>1. stored' \in Lists /\ Apart(stored')
  BY <1>l, <1>t, Types DEF Indexed
<1>2. TypeOK'
  BY <1>l, <1>1, <1>t DEF TypeOK, Lists
<1>3. Queued'
  BY <1>l, <1>t, QueuedKept
<1>4. ASSUME NEW j \in Listed
      PROVE  /\ list'[j].kind = list[j].kind
             /\ Due(list[j])' <= Due(list[j])
             /\ list'[j].armed => list'[j].enabled /\
                   (list'[j].kind = "once" => list'[j].ts = "ahead")
             /\ Runs(j)' = Runs(j)
  <2>1. Trigger(j)' = Trigger(j) /\ Working(j)' = Working(j)
    BY <1>l DEF Trigger, Working
  <2>2. Runs(j)' = Runs(j)
    BY <2>1 DEF Runs
  <2>3. CASE j = i
    <3>1. Due(list[j])' = Due(s)
      BY <2>3, <1>l DEF Due, Expired
    <3> QED
      BY <2>2, <2>3, <3>1, <1>l
  <2>4. CASE j # i
    <3>1. list'[j] = list[j]
      BY <2>4, <1>l DEF Listed
    <3>2. Due(list[j])' = Due(list[j]) /\ Due(list[j]) \in {0, 1}
      BY <3>1 DEF Due, Expired
    <3> QED
      BY <2>2, <3>1, <3>2, <1>t DEF ArmedIsDue
  <2> QED
    BY <2>3, <2>4
<1>5. Apart(opCopy') /\ Apart(workCopy')
  BY <1>t DEF Indexed
<1> QED
  BY <1>l, <1>1, <1>2, <1>3, <1>4, <1>5, Changes

LEMMA ExpireKeeps ==
  ASSUME IInv, Expire
  PROVE  IInv'
<1>t. /\ TypeOK /\ Indexed /\ Queued /\ ArmedIsDue /\ work = "expire" /\ item' = 0
      /\ nextIndex \in Nat
      /\ UNCHANGED <<nextIndex, sync, syncTimer, clockSet, stored, op, opCopy, queue,
                     workCopy, credit, overrun, strayed, raced, lost, requests, reboots>>
      /\ item' \in 0 .. nextIndex /\ raced' \in BOOLEAN
  BY Types DEF IInv, Expire, mqtt, history, bounds
<1>1. PICK i \in At(item) :
        IF Expired(list[i])
        THEN list' = [list EXCEPT ![i] = Off(@)] /\ work' = "report"
        ELSE work' = "idle" /\ UNCHANGED list
  BY DEF Expire
<1>2. i \in Listed /\ i \in Id /\ list[i] \in Entry /\ list \in Lists
  BY <1>t, ListedType, Types DEF At, Listed
<1>3. CASE Expired(list[i])
  <2> DEFINE s == Off(list[i])
  <2>1. s \in Entry /\ s.index = list[i].index /\ s.kind = list[i].kind /\ ~s.enabled /\ ~s.armed
    BY <1>2, Offed
  <2>2. Due(s) <= Due(list[i])
    <3>1. Due(s) = 0 /\ Due(list[i]) \in {0, 1}
      BY <2>1 DEF Due
    <3> QED
      BY <3>1
  <2>3. list' = [list EXCEPT ![i] = s] /\ work' = "report"
    BY <1>1, <1>3
  <2> HIDE DEF s
  <2> QED
    BY <1>t, <1>2, <2>1, <2>2, <2>3, OneQuiet
<1>4. CASE ~Expired(list[i])
  <2>1. list' = [list EXCEPT ![i] = list[i]] /\ work' = "idle"
    BY <1>1, <1>2, <1>4 DEF Lists
  <2>2. /\ Due(list[i]) <= Due(list[i])
        /\ list[i].armed => list[i].enabled /\ (list[i].kind = "once" => list[i].ts = "ahead")
    BY <1>2, <1>t DEF Due, ArmedIsDue
  <2> QED
    BY <1>t, <1>2, <2>1, <2>2, OneQuiet
<1> QED
  BY <1>3, <1>4

LEMMA WalkKeeps ==
  ASSUME IInv, Walk
  PROVE  IInv'
<1>t. /\ TypeOK /\ Indexed /\ Queued /\ ArmedIsDue /\ work = "walk"
      /\ nextIndex \in Nat /\ raced \in BOOLEAN /\ item \in Nat
      /\ UNCHANGED <<nextIndex, sync, syncTimer, clockSet, op, opCopy, queue,
                     workCopy, credit, overrun, strayed, lost, requests, reboots>>
  BY Types DEF IInv, Walk, mqtt, bounds
<1>1. CASE /\ work' = "idle" /\ item' = 0
           /\ UNCHANGED <<list, stored, raced>>
  <2>1. TypeOK'
    BY <1>1, <1>t DEF TypeOK
  <2>2. Apart(stored') /\ Apart(opCopy') /\ Apart(workCopy')
    BY <1>1, <1>t DEF Indexed
  <2>3. {work, work'} \cap {"act", "expire"} = {}
    BY <1>1, <1>t
  <2> QED
    BY <1>1, <1>t, <2>1, <2>2, <2>3, Quiet
<1>2. ASSUME NEW next \in Listed,
             item' = list[next].index + 1, UNCHANGED work,
             IF list[next].enabled
             THEN /\ list' = [list EXCEPT ![next] = On(@, TRUE)]
                  /\ IF Expired(list[next])
                     THEN stored' = list' /\ raced' = (raced \/ op = "store")
                     ELSE UNCHANGED <<stored, raced>>
             ELSE UNCHANGED <<list, stored, raced>>
      PROVE  IInv'
  <2>1. /\ next \in Id /\ list[next] \in Entry /\ list \in Lists
        /\ list[next].index \in Nat /\ list[next].index < nextIndex
    BY <1>t, ListedType, EntryType, Types DEF Indexed, Listed
  <2>2. item' \in 0 .. nextIndex /\ raced' \in BOOLEAN /\ work' = "walk"
        /\ (stored' = stored \/ stored' = list')
    <3>1. item' \in 0 .. nextIndex
      BY <1>t, <1>2, <2>1
    <3>2. raced' \in BOOLEAN
      BY <1>t, <1>2
    <3>3. work' = "walk"
      BY <1>t, <1>2
    <3>4. stored' = stored \/ stored' = list'
      BY <1>2
    <3> QED
      BY <3>1, <3>2, <3>3, <3>4
  <2>3. CASE list[next].enabled
    <3> DEFINE s == On(list[next], TRUE)
    <3>1. s \in Entry /\ s.index = list[next].index /\ s.kind = list[next].kind
      BY <2>1, Oned
    <3>2. s.armed => s.enabled /\ (s.kind = "once" => s.ts = "ahead")
      BY <2>1, <1>t, OnArmed DEF ArmedIsDue
    <3>3. Due(s) <= Due(list[next])
      <4>1. ASSUME Expired(list[next]) PROVE Due(s) = 0
        <5>1. s = Off(list[next])
          BY <4>1 DEF On
        <5>2. ~Off(list[next]).enabled
          BY <2>1, Offed
        <5> QED
          BY <5>1, <5>2 DEF Due
      <4>2. ASSUME ~Expired(list[next]) PROVE Due(list[next]) = 1
        BY <4>2, <2>3 DEF Due
      <4>3. Due(s) \in {0, 1} /\ Due(list[next]) \in {0, 1}
        BY DueIs
      <4> HIDE DEF s
      <4>4. CASE Expired(list[next])
        BY <4>1, <4>3, <4>4
      <4>5. CASE ~Expired(list[next])
        BY <4>2, <4>3, <4>5
      <4> QED
        BY <4>4, <4>5
    <3>4. list' = [list EXCEPT ![next] = s]
      BY <1>2, <2>3
    <3> HIDE DEF s
    <3> QED
      BY <1>t, <2>1, <2>2, <3>1, <3>2, <3>3, <3>4, OneQuiet
  <2>4. CASE ~list[next].enabled
    <3>1. list' = [list EXCEPT ![next] = list[next]]
      BY <1>2, <2>1, <2>4 DEF Lists
    <3>2. /\ Due(list[next]) <= Due(list[next])
          /\ list[next].armed => list[next].enabled /\
                (list[next].kind = "once" => list[next].ts = "ahead")
      BY <1>t DEF Due, ArmedIsDue
    <3> QED
      BY <1>t, <2>1, <2>2, <3>1, <3>2, OneQuiet
  <2> QED
    BY <2>3, <2>4
<1> QED
  BY <1>1, <1>2 DEF Walk-----------------------------------------------------------------------------
(* The reboot.  The schedules that were stored are numbered anew in their   *)
(* order: two of them have different numbers, below the number of them all. *)
Below(copy, kept, i) == {j \in kept : copy[j].index < copy[i].index}

LEMMA Ranks ==
  ASSUME NEW copy \in Lists, Apart(copy),
         NEW kept, kept = {i \in Id : copy[i] # Absent}
  PROVE  /\ IsFiniteSet(kept) /\ Cardinality(kept) \in Nat
         /\ Cardinality(kept) <= Cardinality(Id)
         /\ \A i \in kept : /\ Cardinality(Below(copy, kept, i)) \in Nat
                            /\ Cardinality(Below(copy, kept, i)) < Cardinality(kept)
         /\ \A i, j \in kept : Cardinality(Below(copy, kept, i))
                                 = Cardinality(Below(copy, kept, j)) => i = j
<1>1. /\ IsFiniteSet(kept) /\ Cardinality(kept) \in Nat
      /\ Cardinality(kept) <= Cardinality(Id)
  <2>1. kept \subseteq Id
    OBVIOUS
  <2> QED
    BY <2>1, Numbers, FS_Subset, FS_CardinalityType
<1>2. \A i \in kept : i \in Id /\ copy[i] # Absent /\ copy[i].index \in Nat
  BY ListedType, EntryType
<1>3. ASSUME NEW i \in kept
      PROVE  /\ IsFiniteSet(Below(copy, kept, i))
             /\ Cardinality(Below(copy, kept, i)) \in Nat
             /\ Cardinality(Below(copy, kept, i)) < Cardinality(kept)
  <2>1. Below(copy, kept, i) \subseteq kept /\ i \notin Below(copy, kept, i)
    BY <1>2 DEF Below
  <2>2. Below(copy, kept, i) # kept
    BY <2>1
  <2>3. /\ IsFiniteSet(Below(copy, kept, i))
        /\ Cardinality(Below(copy, kept, i)) <= Cardinality(kept)
        /\ Cardinality(Below(copy, kept, i)) = Cardinality(kept)
             => Below(copy, kept, i) = kept
    BY <2>1, <1>1, FS_Subset
  <2>4. Cardinality(Below(copy, kept, i)) \in Nat
    BY <2>3, FS_CardinalityType
  <2> QED
    BY <2>2, <2>3, <2>4, <1>1
<1>4. ASSUME NEW i \in kept, NEW j \in kept, copy[i].index < copy[j].index
      PROVE  Cardinality(Below(copy, kept, i)) < Cardinality(Below(copy, kept, j))
  <2>1. /\ Below(copy, kept, i) \subseteq Below(copy, kept, j)
        /\ i \in Below(copy, kept, j) /\ i \notin Below(copy, kept, i)
    BY <1>2, <1>4 DEF Below
  <2>2. /\ Cardinality(Below(copy, kept, i)) <= Cardinality(Below(copy, kept, j))
        /\ Cardinality(Below(copy, kept, i)) = Cardinality(Below(copy, kept, j))
             => Below(copy, kept, i) = Below(copy, kept, j)
    BY <2>1, <1>3, FS_Subset
  <2> QED
    BY <2>1, <2>2, <1>3
<1>5. ASSUME NEW i \in kept, NEW j \in kept,
             Cardinality(Below(copy, kept, i)) = Cardinality(Below(copy, kept, j))
      PROVE  i = j
  <2>1. ~(copy[i].index < copy[j].index) /\ ~(copy[j].index < copy[i].index)
    BY <1>3, <1>4, <1>5
  <2>2. copy[i].index = copy[j].index
    BY <2>1, <1>2
  <2> QED
    BY <2>2, <1>2 DEF Apart
<1> QED
  BY <1>1, <1>3, <1>5

(* What becomes of one schedule that was stored.                            *)
Restore(old, r, known) ==
    LET s == [old EXCEPT !.index = r, !.armed = FALSE]
    IN  IF s.enabled THEN On(s, known) ELSE s

LEMMA Restored ==
  ASSUME NEW old \in Entry, NEW r \in 0 .. MaxRequests + Cardinality(Id),
         NEW known \in BOOLEAN, NEW new, new = Restore(old, r, known)
  PROVE  /\ new \in Entry /\ new.index = r
         /\ new.armed => new.enabled /\ (new.kind = "once" => new.ts = "ahead")
         /\ Due(new) = 1 => old.enabled /\ ~Expired(old)
<1> DEFINE s == [old EXCEPT !.index = r, !.armed = FALSE]
<1>1. /\ s \in Entry /\ s.index = r /\ ~s.armed /\ s.enabled = old.enabled
      /\ (Expired(s) <=> Expired(old))
  BY DEF Entry, Expired
<1>2. CASE ~s.enabled
  <2>1. new = s
    BY <1>2 DEF Restore
  <2> QED
    BY <1>1, <1>2, <2>1 DEF Due
<1>3. CASE s.enabled
  <2>1. new = On(s, known)
    BY <1>3 DEF Restore
  <2> HIDE DEF s
  <2>2. /\ On(s, known) \in Entry
        /\ On(s, known).index = s.index /\ On(s, known).kind = s.kind
        /\ known /\ Expired(s) => On(s, known) = Off(s)
        /\ ~known => On(s, known).ts = s.ts
    BY <1>1, Oned
  <2>3. s.armed => (s.kind = "once" => s.ts = "ahead")
    BY <1>1
  <2>4. On(s, known).armed => /\ On(s, known).enabled
                              /\ On(s, known).kind = "once" => On(s, known).ts = "ahead"
    BY <1>1, <2>3, OnArmed
  <2>5. ASSUME Expired(s) PROVE Due(new) = 0
    <3>1. CASE known
      <4>1. new = Off(s) /\ ~Off(s).enabled
        BY <1>1, <2>1, <2>2, <2>5, <3>1, Offed
      <4> QED
        BY <4>1 DEF Due
    <3>2. CASE ~known
      <4>1. new.ts = s.ts /\ new.kind = s.kind
        BY <2>1, <2>2, <3>2
      <4> QED
        BY <4>1, <2>5 DEF Due, Expired
    <3> QED
      BY <3>1, <3>2
  <2> QED
    BY <1>1, <1>3, <2>1, <2>2, <2>4, <2>5
<1> QED
  BY <1>2, <1>3
LEMMA RebootKeeps ==
  ASSUME IInv, Reboot
  PROVE  IInv'
<1> DEFINE kept == {i \in Id : stored[i] # Absent}
           rank(i) == Cardinality({j \in kept : stored[j].index < stored[i].index})
           on   == {i \in kept : stored[i].enabled}
           new(i) == LET s == [stored[i] EXCEPT !.index = rank(i), !.armed = FALSE]
                     IN  IF s.enabled THEN On(s, clockSet') ELSE s
<1>t. /\ TypeOK /\ Indexed /\ Spent /\ stored \in Lists /\ Apart(stored)
      /\ requests \in Nat /\ reboots \in Nat /\ credit \in [Id -> Nat]
      /\ reboots' = reboots + 1 /\ reboots' \in 0 .. MaxReboots
      /\ UNCHANGED <<stored, overrun, strayed, raced, requests>>
  <2>1. TypeOK /\ Indexed /\ Spent
    BY DEF IInv
  <2>2. reboots \in Nat /\ reboots < MaxReboots /\ reboots' = reboots + 1
    BY <2>1, Types DEF Reboot
  <2>3. reboots' \in 0 .. MaxReboots
    BY <2>2, Numbers
  <2>4. UNCHANGED <<stored, overrun, strayed, raced, requests>>
    BY DEF Reboot
  <2> QED
    BY <2>1, <2>2, <2>3, <2>4, Types DEF Indexed
<1>r. /\ op' = "idle" /\ opCopy' = [i \in Id |-> Absent]
      /\ queue' = <<>> /\ work' = "idle" /\ item' = 0
      /\ workCopy' = [i \in Id |-> Absent] /\ lost' = {}
      /\ clockSet' \in BOOLEAN /\ nextIndex' = Cardinality(kept)
      /\ sync' \in {"none", "started", "done"} /\ syncTimer' \in BOOLEAN
  BY <1>t DEF Reboot, TypeOK
<1>l. list' = [i \in Id |-> IF i \notin kept THEN Absent ELSE new(i)]
  BY DEF Reboot
<1>c. credit' = [i \in Id |-> IF i \in on /\ ~Expired(stored[i])
                              THEN credit[i] + 1 ELSE credit[i]]
  BY DEF Reboot
<1>k. /\ Cardinality(kept) \in Nat /\ Cardinality(kept) <= Cardinality(Id)
      /\ \A i \in kept : /\ i \in Id /\ stored[i] \in Entry
                         /\ rank(i) \in Nat /\ rank(i) < Cardinality(kept)
      /\ \A i, j \in kept : rank(i) = rank(j) => i = j
  <2>1. \A i : rank(i) = Cardinality(Below(stored, kept, i))
    BY DEF Below
  <2>2. \A i \in kept : i \in Id /\ stored[i] \in Entry
    BY <1>t, ListedType
  <2> HIDE DEF rank
  <2>3. kept = {i \in Id : stored[i] # Absent}
    OBVIOUS
  <2> HIDE DEF kept
  <2>4. /\ Cardinality(kept) \in Nat /\ Cardinality(kept) <= Cardinality(Id)
        /\ \A i \in kept : /\ Cardinality(Below(stored, kept, i)) \in Nat
                           /\ Cardinality(Below(stored, kept, i)) < Cardinality(kept)
        /\ \A i, j \in kept : Cardinality(Below(stored, kept, i))
                                = Cardinality(Below(stored, kept, j)) => i = j
    BY <1>t, <2>3, Ranks
  <2> QED
    BY <2>1, <2>2, <2>4
<1>n. \A i \in kept :
        /\ new(i) \in Entry /\ new(i).index = rank(i)
        /\ new(i).armed => new(i).enabled /\ (new(i).kind = "once" => new(i).ts = "ahead")
        /\ Due(new(i)) = 1 => stored[i].enabled /\ ~Expired(stored[i])
  <2> SUFFICES ASSUME NEW i \in kept
      PROVE /\ new(i) \in Entry /\ new(i).index = rank(i)
            /\ new(i).armed => new(i).enabled /\ (new(i).kind = "once" => new(i).ts = "ahead")
            /\ Due(new(i)) = 1 => stored[i].enabled /\ ~Expired(stored[i])
    OBVIOUS
  <2> HIDE DEF kept, rank
  <2>1. stored[i] \in Entry /\ rank(i) \in 0 .. MaxRequests + Cardinality(Id)
    BY <1>k, Numbers
  <2>2. new(i) = Restore(stored[i], rank(i), clockSet')
    BY DEF Restore
  <2> HIDE DEF new
  <2> QED
    BY <2>1, <2>2, <1>r, Restored
<1>m. \A i \in Id : i \in on => i \in kept /\ stored[i].enabled
  OBVIOUS
<1>o. \A i \in kept : stored[i].enabled => i \in on
  OBVIOUS
<1>i. kept \subseteq Id
  OBVIOUS
<1> HIDE DEF new, rank, on, kept
<1>d. /\ list' \in Lists /\ Listed' = kept
      /\ \A i \in kept : list'[i] = new(i)
  BY <1>l, <1>n, <1>i, Numbers DEF Lists, Listed
<1>1. Spent' /\ credit' \in [Id -> Nat]
  <2>1. ASSUME NEW i \in Id
        PROVE  credit'[i] \in Nat /\ credit'[i] <= requests' + reboots'
    <3>1. /\ credit[i] \in Nat /\ credit[i] <= requests + reboots
          /\ credit'[i] \in {credit[i], credit[i] + 1}
      BY <1>t, <1>c DEF Spent
    <3> QED
      BY <3>1, <1>t
  <2>2. credit' = [i \in Id |-> credit'[i]]
    BY <1>c
  <2> QED
    BY <2>1, <2>2 DEF Spent
<1>2. TypeOK'
  <2>1. requests' \in 0 .. MaxRequests
    BY <1>t DEF TypeOK
  <2>2. credit' \in [Id -> 0 .. MaxRequests + MaxReboots]
    BY <2>1, <1>1, <1>t, CreditBound
  <2>3. /\ nextIndex' \in 0 .. MaxRequests + Cardinality(Id)
        /\ item' \in 0 .. nextIndex' /\ Len(queue') <= QueueSize
    BY <1>r, <1>k, Numbers
  <2> QED
    BY <2>1, <2>2, <2>3, <1>d, <1>r, <1>t, NoCopy DEF TypeOK, Lists
<1>3. Indexed'
  <2>1. nextIndex' <= Cardinality(Id) + requests'
    BY <1>r, <1>k, <1>t, Numbers
  <2>2. Apart(list')
    <3>1. \A i \in Id : list'[i] # Absent => i \in kept /\ list'[i].index = rank(i)
      BY <1>d, <1>n DEF Listed
    <3> QED
      BY <3>1, <1>k DEF Apart
  <2>3. \A i \in Listed' : list'[i].index < nextIndex'
    BY <1>d, <1>n, <1>k, <1>r
  <2> QED
    BY <2>1, <2>2, <2>3, <1>r, <1>t, NoCopy DEF Indexed
<1>4. Queued'
  <2>1. queue' = <<>> /\ <<>> \in Seq(Items) /\ Len(<<>>) = 0
    BY <1>r
  <2> QED
    BY <2>1 DEF Queued, Items
<1>5. Credited'
  <2>1. ASSUME NEW i \in kept PROVE Covered(i, list[i], Runs(i))'
    <3>1. Count(queue', Trigger(i)') = 0
      <4>1. queue' \in Seq(Items) /\ Len(queue') = 0
        BY <1>r
      <4>2. \A k \in 1 .. Len(queue') : queue'[k] # Trigger(i)'
        BY <4>1
      <4> QED
        BY <4>1, <4>2, CountNone
    <3>2. Runs(i)' = 0
      BY <3>1, <1>r DEF Runs, Working
    <3>3. Due(list[i])' = Due(new(i)) /\ Due(new(i)) \in {0, 1}
      BY <1>d DEF Due, Expired
    <3>4. credit[i] \in Nat /\ credit'[i] \in Nat
      BY <1>t, <1>1, <1>i
    <3>5. Due(new(i)) = 1 => credit'[i] = credit[i] + 1
      BY <1>n, <1>o, <1>c, <1>i
    <3>6. Runs(i)' + Due(list[i])' <= credit'[i]
      BY <3>2, <3>3, <3>4, <3>5
    <3> QED
      BY <3>6 DEF Covered
  <2> QED
    BY <2>1, <1>d DEF Credited
<1>6. ArmedIsDue'
  BY <1>d, <1>n DEF ArmedIsDue
<1>7. OwnTrigger' /\ OncePerRequest'
  BY <1>t DEF OwnTrigger, OncePerRequest, IInv
<1> QED
  BY <1>1, <1>2, <1>3, <1>4, <1>5, <1>6, <1>7 DEF IInv
-----------------------------------------------------------------------------
(* The invariant holds at the start, and every step keeps it.               *)
LEMMA InitHolds == Init => IInv
<1> SUFFICES ASSUME Init PROVE IInv
  OBVIOUS
<1>1. /\ list \in Lists /\ stored \in Lists /\ opCopy \in Lists /\ workCopy \in Lists
      /\ Apart(list) /\ Apart(stored) /\ Apart(opCopy) /\ Apart(workCopy)
      /\ Listed = {}
  BY NoCopy DEF Init, Listed
<1>2. queue = <<>> /\ queue \in Seq(Items) /\ Len(queue) = 0
  BY DEF Init
<1>3. TypeOK
  <2>1. /\ nextIndex \in 0 .. MaxRequests + Cardinality(Id) /\ item \in 0 .. nextIndex
        /\ credit \in [Id -> 0 .. MaxRequests + MaxReboots]
        /\ requests \in 0 .. MaxRequests /\ reboots \in 0 .. MaxReboots
        /\ Len(queue) <= QueueSize
    BY <1>2, Numbers, ScheduleAssumption DEF Init
  <2> QED
    BY <2>1, <1>1 DEF Init, TypeOK, Lists
<1>4. Indexed
  BY <1>1, Numbers DEF Init, Indexed
<1>5. Queued /\ Credited /\ ArmedIsDue
  BY <1>1, <1>2 DEF Queued, Credited, ArmedIsDue, Items
<1>6. Spent /\ OwnTrigger /\ OncePerRequest
  BY DEF Init, Spent, OwnTrigger, OncePerRequest
<1> QED
  BY <1>3, <1>4, <1>5, <1>6 DEF IInv

LEMMA StepKeeps == IInv /\ [Next]_vars => IInv'
<1> SUFFICES ASSUME IInv, [Next]_vars PROVE IInv'
  OBVIOUS
<1>1. CASE Request
  BY <1>1, AddKeeps, EditKeeps, RemoveKeeps, EnableKeeps, DisableKeeps DEF Request
<1>2. CASE Report \/ WorkReport \/ SetClock
  BY <1>2, ReportKeeps
<1>3. CASE \E i \in Id : Fire(i) \/ Miss(i)
  BY <1>3, FireKeeps, MissKeeps
<1>4. CASE SyncTimerFires
  BY <1>4, SyncTimerKeeps
<1>5. CASE WorkQueue
  BY <1>5, TakeTriggerKeeps, TakeSyncKeeps, ActKeeps, ExpireKeeps, WalkKeeps, ReportKeeps
     DEF WorkQueue
<1>6. CASE Reboot
  BY <1>6, RebootKeeps
<1>7. CASE UNCHANGED vars
  <2>1. UNCHANGED <<list, nextIndex, sync, syncTimer, clockSet, stored, op, opCopy, queue,
                    work, item, workCopy, credit, overrun, strayed, raced, lost,
                    requests, reboots>>
    BY <1>7 DEF vars, ram, mqtt, worker, history, bounds
  <2>2. TypeOK'
    BY <2>1 DEF IInv, TypeOK
  <2>3. Apart(stored') /\ Apart(opCopy') /\ Apart(workCopy')
    BY <2>1 DEF IInv, Indexed
  <2> QED
    BY <2>1, <2>2, <2>3, Quiet
<1> QED
  BY <1>1, <1>2, <1>3, <1>4, <1>5, <1>6, <1>7 DEF Next

(* Whatever is edited, disabled, removed and added while triggers wait in   *)
(* the work queue, and whenever the node reboots, a trigger runs the action *)
(* of the schedule whose timer fired and of no other, and a one-time        *)
(* schedule runs at most once for each time it was turned on.               *)
THEOREM TriggersRunWhatTheyAreSetFor == Spec => []TriggersAreOwed
<1>1. Init => IInv
  BY InitHolds
<1>2. IInv /\ [Next]_vars => IInv'
  BY StepKeeps
<1>3. IInv => TriggersAreOwed
  BY DEF IInv, TriggersAreOwed
<1> QED
  BY <1>1, <1>2, <1>3, PTL DEF Spec
-----------------------------------------------------------------------------
(* The stored parameter.  While a task has yet to report, nothing is        *)
(* claimed; between its two steps it is the task's JSON that agrees with    *)
(* the list, and at rest what is stored.                                    *)
Agree(now, copy) ==
    \A i \in Id :
        \/ now[i] = Absent /\ copy[i] = Absent
        \/ /\ now[i] # Absent /\ copy[i] # Absent
           /\ now[i].kind = copy[i].kind
           /\ \/ now[i].enabled = copy[i].enabled
              \/ ~now[i].enabled /\ Expired(copy[i])

Reported ==
    ~raced =>
        /\ op = "store" => work # "store"
        /\ op = "idle" /\ work \notin {"report", "store"} => Agree(list, stored)
        /\ op = "idle" /\ work = "store" => Agree(list, workCopy)
        /\ op = "store" /\ work \notin {"report", "store"} => Agree(list, opCopy)

(* Time has passed, and no more than that, from one list to the other.      *)
Alike(before, after) ==
    \A i \in Id :
        \/ before[i] = Absent /\ after[i] = Absent
        \/ /\ before[i] # Absent /\ after[i] # Absent
           /\ before[i].kind = after[i].kind /\ before[i].enabled = after[i].enabled
           /\ Expired(before[i]) => Expired(after[i])

LEMMA AgreeSelf == \A copy : Agree(copy, copy)
BY DEF Agree

LEMMA AlikeSelf == \A copy : Alike(copy, copy)
BY DEF Alike

LEMMA AgreeAlike ==
  ASSUME NEW now, NEW copy, NEW now2, NEW copy2,
         Agree(now, copy), Alike(now, now2), Alike(copy, copy2)
  PROVE  Agree(now2, copy2)
BY DEF Agree, Alike

LEMMA AlikeElapse ==
  ASSUME NEW copy \in Lists, NEW i \in Id
  PROVE  Alike(copy, Elapse(copy, i))
<1>1. CASE copy[i] # Absent /\ copy[i].ts = "ahead"
  <2>1. copy[i] \in Entry
    BY <1>1, ListedType
  <2> DEFINE s == [copy[i] EXCEPT !.ts = "past"]
  <2>2. /\ s # Absent /\ s.kind = copy[i].kind /\ s.enabled = copy[i].enabled
        /\ Expired(copy[i]) => Expired(s)
    BY <2>1, EntryType DEF Entry, Time, Expired
  <2>3. Elapse(copy, i) = [copy EXCEPT ![i] = s]
    BY <1>1 DEF Elapse
  <2> HIDE DEF s
  <2> QED
    BY <1>1, <2>2, <2>3 DEF Alike, Lists
<1>2. CASE ~(copy[i] # Absent /\ copy[i].ts = "ahead")
  BY <1>2, AlikeSelf DEF Elapse
<1> QED
  BY <1>1, <1>2

(* One schedule of the list is another one now, alike to what it was.       *)
LEMMA AlikeOne ==
  ASSUME NEW copy \in Lists, NEW i \in Id, copy[i] # Absent, NEW s \in Entry,
         s.kind = copy[i].kind, s.enabled = copy[i].enabled,
         Expired(copy[i]) => Expired(s)
  PROVE  Alike(copy, [copy EXCEPT ![i] = s])
BY EntryType DEF Alike, Lists

(* A step that only lets time pass.                                         *)
LEMMA ReportedAlike ==
  ASSUME Reported, UNCHANGED <<op, work, raced>>,
         Alike(list, list'), Alike(stored, stored'), Alike(opCopy, opCopy'),
         Alike(workCopy, workCopy')
  PROVE  Reported'
BY AgreeAlike DEF Reported

LEMMA ReportedByTimer ==
  ASSUME IInv, Reported, NEW i \in Id, Fire(i) \/ Miss(i)
  PROVE  Reported'
<1>t. /\ list \in Lists /\ stored \in Lists /\ opCopy \in Lists /\ workCopy \in Lists
      /\ list[i] # Absent /\ list[i] \in Entry
      /\ UNCHANGED <<op, work, raced>>
  BY Types, ListedType DEF IInv, Fire, Miss, history
<1>1. Alike(list, list')
  <2>1. CASE list' = list
    BY <2>1, AlikeSelf
  <2>2. CASE list' = [list EXCEPT ![i].ts = "past"]
    <3> DEFINE s == [list[i] EXCEPT !.ts = "past"]
    <3>1. /\ s \in Entry /\ s.kind = list[i].kind /\ s.enabled = list[i].enabled
          /\ Expired(list[i]) => Expired(s)
      BY <1>t DEF Entry, Time, Expired
    <3>2. list' = [list EXCEPT ![i] = s]
      BY <2>2
    <3> HIDE DEF s
    <3> QED
      BY <1>t, <3>1, <3>2, AlikeOne
  <2>3. CASE list' = [list EXCEPT ![i].ts = "past", ![i].armed = FALSE]
    <3> DEFINE s == [list[i] EXCEPT !.ts = "past", !.armed = FALSE]
    <3>1. /\ s \in Entry /\ s.kind = list[i].kind /\ s.enabled = list[i].enabled
          /\ Expired(list[i]) => Expired(s)
      BY <1>t DEF Entry, Time, Expired
    <3>2. list' = [list EXCEPT ![i] = s]
      BY <2>3, <1>t DEF Lists
    <3> HIDE DEF s
    <3> QED
      BY <1>t, <3>1, <3>2, AlikeOne
  <2> QED
    BY <2>1, <2>2, <2>3 DEF Fire, Miss
<1>2. /\ Alike(stored, stored') /\ Alike(opCopy, opCopy')
      /\ Alike(workCopy, workCopy')
  <2>1. TimePasses(i) \/ UNCHANGED <<stored, opCopy, workCopy>>
    BY DEF Fire, Miss
  <2> QED
    BY <2>1, <1>t, AlikeElapse, AlikeSelf DEF TimePasses
<1> QED
  BY <1>t, <1>1, <1>2, ReportedAlike

LEMMA ReportedByTask ==
  ASSUME IInv, Reported, Report \/ WorkReport
  PROVE  Reported'
<1>1. list' = list /\ raced \in BOOLEAN
  BY Types DEF IInv, Report, WorkReport, ram
<1>2. CASE Report
  BY <1>1, <1>2, AgreeSelf DEF Report, Reported, worker
<1>3. CASE WorkReport
  BY <1>1, <1>3, AgreeSelf DEF WorkReport, Reported, mqtt
<1> QED
  BY <1>2, <1>3

(* The work queue reports what it turns off, and turns nothing else off.    *)
LEMMA ReportedByWork ==
  ASSUME IInv, Reported, TakeTrigger \/ TakeSync \/ Act \/ Expire \/ Walk
  PROVE  Reported'
<1>t. /\ list \in Lists /\ raced \in BOOLEAN
      /\ UNCHANGED <<op, opCopy, workCopy>>
  BY Types DEF IInv, TakeTrigger, TakeSync, Take, Act, Expire, Walk, mqtt
<1>1. CASE TakeTrigger \/ TakeSync \/ Act
  <2>1. /\ UNCHANGED <<list, stored, raced>>
        /\ work \notin {"report", "store"} /\ work' \notin {"report", "store"}
    BY <1>1 DEF TakeTrigger, TakeSync, Take, Act, ram
  <2> QED
    BY <1>t, <2>1 DEF Reported
<1>2. CASE Expire
  <2>1. work = "expire" /\ UNCHANGED <<stored, raced>>
    BY <1>2 DEF Expire, history
  <2>2. CASE work' = "report"
    BY <2>2 DEF Reported
  <2>3. CASE work' = "idle" /\ UNCHANGED list
    BY <1>t, <2>1, <2>3 DEF Reported
  <2> QED
    BY <1>2, <2>2, <2>3 DEF Expire
<1>3. CASE Walk
  <2>1. CASE UNCHANGED <<list, stored, raced>> /\ work' \in {"idle", "walk"}
    BY <1>3, <1>t, <2>1 DEF Reported, Walk
  <2>2. ASSUME NEW next \in Listed, list[next].enabled, UNCHANGED work,
               list' = [list EXCEPT ![next] = On(@, TRUE)],
               IF Expired(list[next])
               THEN stored' = list' /\ raced' = (raced \/ op = "store")
               ELSE UNCHANGED <<stored, raced>>
        PROVE  Reported'
    <3>1. work = "walk" /\ work' = "walk"
      BY <1>3, <2>2 DEF Walk
    <3>2. CASE Expired(list[next])
      BY <1>t, <2>2, <3>1, <3>2, AgreeSelf DEF Reported
    <3>3. CASE ~Expired(list[next])
      <4> DEFINE s == On(list[next], TRUE)
      <4>0. next \in Id /\ list[next] # Absent /\ list[next] \in Entry
        BY <1>t, ListedType DEF Listed
      <4>1. s \in Entry /\ s.kind = list[next].kind /\ s.enabled
        BY <4>0, <3>3, Oned
      <4>2. list[next].enabled = s.enabled
        BY <4>0, <4>1, <2>2, EntryType
      <4>3. list' = [list EXCEPT ![next] = s]
        BY <2>2
      <4> HIDE DEF s
      <4>4. Alike(list, list')
        BY <4>0, <4>1, <4>2, <4>3, <1>t, <3>3, AlikeOne
      <4> QED
        BY <1>t, <2>2, <3>1, <3>3, <4>4, AlikeSelf, ReportedAlike
    <3> QED
      BY <3>2, <3>3
  <2> QED
    BY <1>3, <2>1, <2>2 DEF Walk
<1> QED
  BY <1>1, <1>2, <1>3

(* A boot turns off what expired while the node was down, and nothing else. *)
LEMMA ReportedByReboot ==
  ASSUME IInv, Reported, Reboot
  PROVE  Reported'
<1>t. stored \in Lists /\ raced \in BOOLEAN /\ clockSet' \in BOOLEAN
  BY Types DEF IInv, Reboot, TypeOK
<1>1. op' = "idle" /\ work' = "idle" /\ stored' = stored
  BY DEF Reboot
<1> DEFINE kept == {i \in Id : stored[i] # Absent}
           rank(i) == Cardinality({j \in kept : stored[j].index < stored[i].index})
<1>2. list' = [i \in Id |-> IF i \notin kept THEN Absent
                            ELSE Restore(stored[i], rank(i), clockSet')]
  BY DEF Reboot, Restore
<1>3. ASSUME NEW i \in kept
      PROVE  rank(i) \in 0 .. MaxRequests + Cardinality(Id)
  <2>1. rank(i) = Cardinality(Below(stored, kept, i))
    BY DEF Below
  <2> HIDE DEF rank
  <2>2. kept = {j \in Id : stored[j] # Absent}
    OBVIOUS
  <2> HIDE DEF kept
  <2>3. /\ Cardinality(kept) \in Nat /\ Cardinality(kept) <= Cardinality(Id)
        /\ Cardinality(Below(stored, kept, i)) \in Nat
        /\ Cardinality(Below(stored, kept, i)) < Cardinality(kept)
    BY <1>t, <2>2, Ranks DEF IInv, Indexed
  <2> QED
    BY <2>1, <2>3, Numbers
<1> HIDE DEF rank
<1>4. ASSUME NEW i \in kept
      PROVE  /\ list'[i] # Absent /\ list'[i].kind = stored[i].kind
             /\ \/ list'[i].enabled = stored[i].enabled
                \/ ~list'[i].enabled /\ Expired(stored[i])
  <2> DEFINE s == [stored[i] EXCEPT !.index = rank(i), !.armed = FALSE]
  <2>1. stored[i] \in Entry /\ i \in Id
    BY <1>t, ListedType
  <2>2. /\ s \in Entry /\ s.kind = stored[i].kind /\ s.enabled = stored[i].enabled
        /\ (Expired(s) <=> Expired(stored[i])) /\ s.enabled \in BOOLEAN
    BY <2>1, <1>3 DEF Entry, Expired
  <2>3. list'[i] = IF s.enabled THEN On(s, clockSet') ELSE s
    BY <1>2, <2>1 DEF Restore
  <2> HIDE DEF s
  <2>4. CASE ~s.enabled
    BY <2>2, <2>3, <2>4, EntryType
  <2>5. CASE s.enabled
    <3>1. /\ On(s, clockSet') \in Entry /\ On(s, clockSet').kind = s.kind
          /\ clockSet' /\ Expired(s) => On(s, clockSet') = Off(s)
          /\ ~(clockSet' /\ Expired(s)) => On(s, clockSet').enabled
      BY <1>t, <2>2, Oned
    <3>2. On(s, clockSet').enabled \in BOOLEAN /\ On(s, clockSet') # Absent
          /\ ~Off(s).enabled
      BY <2>2, <3>1, EntryType, Offed
    <3> QED
      BY <2>2, <2>3, <2>5, <3>1, <3>2
  <2> QED
    BY <2>4, <2>5
<1>5. Agree(list', stored)
  BY <1>2, <1>4 DEF Agree
<1> QED
  BY <1>1, <1>5 DEF Reported

LEMMA ReportedKept == IInv /\ Reported /\ [Next]_vars => Reported'
<1> SUFFICES ASSUME IInv, Reported, [Next]_vars PROVE Reported'
  OBVIOUS
<1>1. CASE Request
  <2>1. op' = "report"
    BY <1>1 DEF Request, OperationAdd, OperationEdit, OperationRemove, OperationEnable,
               OperationDisable, Handle
  <2> QED
    BY <2>1 DEF Reported
<1>2. CASE Report \/ WorkReport
  BY <1>2, ReportedByTask
<1>3. CASE \E i \in Id : Fire(i) \/ Miss(i)
  BY <1>3, ReportedByTimer
<1>4. CASE SyncTimerFires \/ SetClock \/ UNCHANGED vars
  <2>1. UNCHANGED <<list, stored, op, opCopy, work, workCopy, raced>>
    BY <1>4 DEF SyncTimerFires, SetClock, vars, ram, mqtt, worker, history
  <2> QED
    BY <2>1 DEF Reported
<1>5. CASE TakeTrigger \/ TakeSync \/ Act \/ Expire \/ Walk
  BY <1>5, ReportedByWork
<1>6. CASE Reboot
  BY <1>6, ReportedByReboot
<1> QED
  BY <1>1, <1>2, <1>3, <1>4, <1>5, <1>6 DEF Next, WorkQueue

(* Whatever requests, timers and work items do in whatever order, once both *)
(* tasks rest and have never reported at the same time, the parameter that  *)
(* was stored has the schedules of the list, each in the state it is in: a  *)
(* reboot then loses none, and turns off only what expired meanwhile.       *)
THEOREM StoredIsTheList == Spec => []SurvivesReboot
<1>1. Init => IInv /\ Reported
  <2>1. Init => Reported
    BY AgreeSelf DEF Init, Reported
  <2> QED
    BY <2>1, InitHolds
<1>2. IInv /\ Reported /\ [Next]_vars => IInv' /\ Reported'
  BY StepKeeps, ReportedKept
<1>3. Reported => SurvivesReboot
  BY DEF Reported, SurvivesReboot, Agree
<1> QED
  BY <1>1, <1>2, <1>3, PTL DEF Spec
-----------------------------------------------------------------------------
(* What is enabled is watched.  The look at the clock that is under way     *)
(* stands for every schedule that was enabled before it, and the walk that  *)
(* follows starts at the first of them.                                     *)
Coming == sync = "started" /\ (syncTimer \/ Contains(queue, Look))

Watched(i) ==
    \/ list[i].armed
    \/ Expired(list[i]) /\ \/ Contains(queue, Trigger(i))
                           \/ work \in {"act", "expire"} /\ item = list[i].index
    \/ Coming
    \/ work = "walk" /\ list[i].index >= item
    \/ lost \cap {i, "sync"} # {}

Watch ==
    /\ \A i \in Listed : list[i].enabled => Watched(i)
    /\ sync = "started" => syncTimer \/ Contains(queue, Look) \/ "sync" \in lost
    /\ work \notin {"act", "expire", "walk"} => item = 0

LEMMA ContainsAppend ==
  ASSUME NEW q \in Seq(Items), NEW v \in Items, NEW w
  PROVE  Contains(Append(q, v), w) <=> Contains(q, w) \/ v = w
<1>1. /\ Len(Append(q, v)) = Len(q) + 1 /\ Len(q) \in Nat
      /\ Append(q, v)[Len(q) + 1] = v
      /\ \A k \in 1 .. Len(q) : Append(q, v)[k] = q[k]
  BY AppendProperties
<1> QED
  BY <1>1 DEF Contains

LEMMA ContainsTail ==
  ASSUME NEW q \in Seq(Items), q # <<>>, NEW w, Contains(q, w), Head(q) # w
  PROVE  Contains(Tail(q), w)
<1>1. /\ Len(q) \in Nat /\ Len(Tail(q)) = Len(q) - 1 /\ Head(q) = q[1]
      /\ \A k \in 1 .. Len(Tail(q)) : Tail(q)[k] = q[k + 1]
  BY HeadTailProperties, EmptySeq
<1>2. PICK k \in 1 .. Len(q) : q[k] = w
  BY DEF Contains
<1>3. k - 1 \in 1 .. Len(Tail(q)) /\ (k - 1) + 1 = k
  BY <1>1, <1>2
<1>4. Tail(q)[k - 1] = w
  BY <1>1, <1>2, <1>3
<1> QED
  BY <1>3, <1>4 DEF Contains

(* A request that turns a schedule on arms it, or there is a look at the    *)
(* clock to come.                                                           *)
LEMMA TurnedOn ==
  ASSUME TypeOK, Watch, NEW s \in Entry, SyncOnce, UNCHANGED <<queue, lost>>,
         On(s, Known(sync, clockSet)).enabled
  PROVE  \/ On(s, Known(sync, clockSet)).armed
         \/ Coming' \/ "sync" \in lost'
<1> DEFINE known == Known(sync, clockSet)
<1>1. known \in BOOLEAN
  BY KnownType
<1>2. CASE known
  <2>1. Expired(s) => On(s, known) = Off(s) /\ ~Off(s).enabled
    BY <1>1, <1>2, Oned, Offed
  <2>2. ~Expired(s) => On(s, known).armed
    BY <1>1, <1>2, Oned
  <2> QED
    BY <2>1, <2>2
<1>3. CASE ~known
  <2>1. sync = "started" \/ (sync = "none" /\ ~clockSet)
    BY <1>3 DEF Known, TypeOK
  <2> QED
    BY <2>1 DEF SyncOnce, Watch, Coming
<1> QED
  BY <1>2, <1>3

(* What watches a schedule that a request does not touch watches it still.  *)
LEMMA SyncKept ==
  ASSUME Watch, SyncOnce \/ UNCHANGED <<sync, syncTimer>>, UNCHANGED <<queue, lost>>
  PROVE  /\ Coming => Coming'
         /\ sync' = "started" => syncTimer' \/ Contains(queue', Look) \/ "sync" \in lost'
BY DEF Watch, SyncOnce, Coming

LEMMA WatchedKept ==
  ASSUME NEW i, Watched(i), list'[i] = list[i], Coming => Coming',
         UNCHANGED <<queue, work, item, lost>>
  PROVE  Watched(i)'
BY DEF Watched, Trigger

LEMMA WatchByRequest ==
  ASSUME IInv, Watch, NEW i \in Id, Handle, NEW s \in Entry \cup {Absent},
         list' = [list EXCEPT ![i] = s],
         SyncOnce \/ UNCHANGED <<sync, syncTimer>>,
         s = Absent \/ ~s.enabled \/ s.armed \/ Coming' \/ "sync" \in lost'
  PROVE  Watch'
<1>t. list \in Lists /\ UNCHANGED <<queue, work, item, lost>>
  BY Types DEF IInv, Handle, worker
<1>1. /\ Coming => Coming'
      /\ sync' = "started" => syncTimer' \/ Contains(queue', Look) \/ "sync" \in lost'
  BY <1>t, SyncKept
<1>2. ASSUME NEW j \in Listed', list'[j].enabled PROVE Watched(j)'
  <2>1. CASE j = i
    <3>1. list'[i] = s /\ s # Absent
      BY <2>1, <1>t DEF Lists, Listed
    <3> QED
      BY <2>1, <3>1, <1>2 DEF Watched
  <2>2. CASE j # i
    <3>1. list'[j] = list[j] /\ j \in Listed
      BY <2>2, <1>t DEF Lists, Listed
    <3>2. Watched(j)
      BY <3>1, <1>2 DEF Watch
    <3> QED
      BY <3>1, <3>2, <1>1, <1>t, WatchedKept
  <2> QED
    BY <2>1, <2>2
<1>3. work' \notin {"act", "expire", "walk"} => item' = 0
  BY <1>t DEF Watch
<1> QED
  BY <1>1, <1>2, <1>3 DEF Watch

LEMMA WatchByAdd ==
  ASSUME IInv, Watch, NEW i \in Id, NEW kind \in Kind, OperationAdd(i, kind)
  PROVE  Watch'
<1>t. /\ TypeOK /\ Handle /\ list \in Lists /\ list[i] = Absent
      /\ nextIndex \in 0 .. MaxRequests + Cardinality(Id)
      /\ UNCHANGED <<queue, lost>>
  BY Types DEF IInv, OperationAdd, TypeOK, Handle, worker
<1>1. CASE UNCHANGED list
  <2>1. list' = [list EXCEPT ![i] = Absent]
    BY <1>1, <1>t DEF Lists
  <2>2. SyncOnce \/ UNCHANGED <<sync, syncTimer>>
    BY DEF OperationAdd
  <2> QED
    BY <2>1, <2>2, <1>t, WatchByRequest
<1>2. CASE /\ list' = [list EXCEPT ![i] = On(NewSchedule(kind), Known(sync, clockSet))]
           /\ SyncOnce
  <2> DEFINE s == On(NewSchedule(kind), Known(sync, clockSet))
  <2>1. NewSchedule(kind) \in Entry
    BY <1>t, Numbers DEF NewSchedule, Entry, Time
  <2>2. s \in Entry
    BY <2>1, <1>t, KnownType, Oned
  <2>3. s.enabled => s.armed \/ Coming' \/ "sync" \in lost'
    BY <2>1, <1>2, <1>t, TurnedOn
  <2> HIDE DEF s
  <2> QED
    BY <2>2, <2>3, <1>2, <1>t, WatchByRequest DEF s
<1> QED
  BY <1>1, <1>2 DEF OperationAdd

LEMMA WatchByEdit ==
  ASSUME IInv, Watch, NEW i \in Id, NEW kind \in Kind, OperationEdit(i, kind)
  PROVE  Watch'
<1> DEFINE new == [list[i] EXCEPT !.kind = kind, !.ts = "none"]
           s   == On(Off(new), Known(sync, clockSet))
<1>t. /\ TypeOK /\ Handle /\ list[i] \in Entry /\ UNCHANGED <<queue, lost>>
  BY Types, ListedType DEF IInv, OperationEdit, Handle, worker
<1>1. new \in Entry
  BY <1>t DEF Entry, Time
<1>2. CASE new.enabled
  <2>1. list' = [list EXCEPT ![i] = s] /\ SyncOnce
    BY <1>2 DEF OperationEdit
  <2>2. Off(new) \in Entry
    BY <1>1, Offed
  <2>3. s \in Entry
    BY <2>2, <1>t, KnownType, Oned
  <2>4. s.enabled => s.armed \/ Coming' \/ "sync" \in lost'
    BY <2>1, <2>2, <1>t, TurnedOn
  <2> HIDE DEF s
  <2> QED
    BY <2>1, <2>3, <2>4, <1>t, WatchByRequest
<1>3. CASE ~new.enabled
  <2>1. list' = [list EXCEPT ![i] = new] /\ UNCHANGED <<sync, syncTimer>>
    BY <1>3 DEF OperationEdit
  <2> HIDE DEF new
  <2> QED
    BY <2>1, <1>1, <1>3, <1>t, WatchByRequest
<1> QED
  BY <1>2, <1>3

LEMMA WatchByOther ==
  ASSUME IInv, Watch, NEW i \in Id,
         OperationRemove(i) \/ OperationEnable(i) \/ OperationDisable(i)
  PROVE  Watch'
<1>t. /\ TypeOK /\ Handle /\ list[i] \in Entry /\ UNCHANGED <<queue, lost>>
  BY Types, ListedType DEF IInv, OperationRemove, OperationEnable, OperationDisable,
                           Handle, worker
<1>1. CASE OperationRemove(i)
  <2>1. list' = [list EXCEPT ![i] = Absent] /\ UNCHANGED <<sync, syncTimer>>
    BY <1>1 DEF OperationRemove
  <2> QED
    BY <2>1, <1>t, WatchByRequest
<1>2. CASE OperationEnable(i)
  <2> DEFINE s == On(list[i], Known(sync, clockSet))
  <2>1. list' = [list EXCEPT ![i] = s] /\ SyncOnce
    BY <1>2 DEF OperationEnable
  <2>2. s \in Entry
    BY <1>t, KnownType, Oned
  <2>3. s.enabled => s.armed \/ Coming' \/ "sync" \in lost'
    BY <2>1, <1>t, TurnedOn
  <2> HIDE DEF s
  <2> QED
    BY <2>1, <2>2, <2>3, <1>t, WatchByRequest
<1>3. CASE OperationDisable(i)
  <2> DEFINE s == Off(list[i])
  <2>1. list' = [list EXCEPT ![i] = s] /\ UNCHANGED <<sync, syncTimer>>
    BY <1>3 DEF OperationDisable
  <2>2. s \in Entry /\ ~s.enabled
    BY <1>t, Offed
  <2> HIDE DEF s
  <2> QED
    BY <2>1, <2>2, <1>t, WatchByRequest
<1> QED
  BY <1>1, <1>2, <1>3
(* The timers.  What fires is queued, or the queue was full.                *)
LEMMA AddedOrLost ==
  ASSUME queue \in Seq(Items), NEW w \in Items, NEW name, AddTask(w, name)
  PROVE  /\ lost \subseteq lost' /\ (Contains(queue', w) \/ name \in lost')
         /\ \A v : Contains(queue, v) => Contains(queue', v)
<1>1. CASE queue' = Append(queue, w) /\ UNCHANGED lost
  BY <1>1, ContainsAppend
<1>2. CASE lost' = lost \cup {name} /\ UNCHANGED queue
  BY <1>2
<1> QED
  BY <1>1, <1>2 DEF AddTask

LEMMA WatchBySyncTimer ==
  ASSUME IInv, Watch, SyncTimerFires
  PROVE  Watch'
<1>t. queue \in Seq(Items) /\ Look \in Items /\ UNCHANGED <<list, sync, work, item>>
  BY DEF IInv, Queued, SyncTimerFires, Look, Items
<1>1. /\ lost \subseteq lost' /\ (Contains(queue', Look) \/ "sync" \in lost')
      /\ \A v : Contains(queue, v) => Contains(queue', v)
  BY <1>t, AddedOrLost DEF SyncTimerFires
<1>2. ASSUME NEW j \in Listed', list'[j].enabled PROVE Watched(j)'
  <2>1. Watched(j) /\ Trigger(j)' = Trigger(j)
    BY <1>2, <1>t DEF Watch, Listed, Trigger
  <2> QED
    BY <2>1, <1>1, <1>t DEF Watched, Coming
<1> QED
  BY <1>1, <1>2, <1>t DEF Watch

LEMMA WatchByFire ==
  ASSUME IInv, Watch, NEW i \in Id, Fire(i)
  PROVE  Watch'
<1>t. /\ queue \in Seq(Items) /\ i \in Listed /\ list \in Lists /\ list[i] \in Entry
      /\ list[i].armed /\ Trigger(i) \in Items
      /\ UNCHANGED <<sync, syncTimer, work, item>>
  <2>1. queue \in Seq(Items) /\ i \in Listed /\ list \in Lists /\ list[i] \in Entry
    BY Types, ListedType DEF IInv, Queued, Fire, Listed
  <2> QED
    BY <2>1, TriggerType DEF Fire
<1>1. /\ lost \subseteq lost' /\ (Contains(queue', Trigger(i)) \/ i \in lost')
      /\ \A v : Contains(queue, v) => Contains(queue', v)
  BY <1>t, AddedOrLost DEF Fire
<1>2. /\ \A j \in Id : j # i => list'[j] = list[j]
      /\ list'[i].index = list[i].index
      /\ list'[i] # Absent
      /\ list'[i].armed \/ Expired(list'[i])
  <2>1. CASE list[i].kind = "once"
    <3> DEFINE s == [list[i] EXCEPT !.ts = "past", !.armed = FALSE]
    <3>1. s \in Entry /\ s.index = list[i].index /\ Expired(s)
      BY <2>1, <1>t DEF Entry, Time, Expired
    <3>2. list' = [list EXCEPT ![i] = s]
      BY <2>1, <1>t DEF Fire, Lists
    <3> HIDE DEF s
    <3> QED
      BY <3>1, <3>2, <1>t, EntryType DEF Lists, Listed
  <2>2. CASE list[i].kind # "once"
    BY <2>2, <1>t, EntryType DEF Fire
  <2> QED
    BY <2>1, <2>2
<1>3. ASSUME NEW j \in Listed', list'[j].enabled PROVE Watched(j)'
  <2>1. CASE j = i
    <3>1. Trigger(i)' = Trigger(i)
      BY <1>2 DEF Trigger
    <3>2. list'[i].armed \/ (Expired(list'[i]) /\ Contains(queue', Trigger(i)'))
            \/ i \in lost'
      BY <3>1, <1>1, <1>2
    <3> QED
      BY <2>1, <3>2 DEF Watched
  <2>2. CASE j # i
    <3>1. j \in Listed /\ list'[j] = list[j]
      BY <2>2, <1>2 DEF Listed
    <3>2. Watched(j) /\ Trigger(j)' = Trigger(j)
      BY <3>1, <1>3 DEF Watch, Trigger
    <3> QED
      BY <3>1, <3>2, <1>1, <1>t DEF Watched, Coming
  <2> QED
    BY <2>1, <2>2
<1>4. sync' = "started" => syncTimer' \/ Contains(queue', Look) \/ "sync" \in lost'
  BY <1>1, <1>t DEF Watch
<1> QED
  BY <1>3, <1>4, <1>t DEF Watch

LEMMA WatchByMiss ==
  ASSUME IInv, Watch, NEW i \in Id, Miss(i)
  PROVE  Watch'
<1> DEFINE s == [list[i] EXCEPT !.ts = "past"]
<1>t. /\ list \in Lists /\ list[i] # Absent /\ list[i] \in Entry /\ list[i].ts = "ahead"
      /\ UNCHANGED <<sync, syncTimer, queue, work, item, lost>>
  BY Types, ListedType DEF IInv, Miss, history
<1>s. /\ s.index = list[i].index /\ s.enabled = list[i].enabled /\ s.armed = list[i].armed
      /\ list' = [list EXCEPT ![i] = s] /\ ~Expired(list[i])
  BY <1>t DEF Entry, Miss, Expired
<1> HIDE DEF s
<1>1. ASSUME NEW j \in Listed', list'[j].enabled PROVE Watched(j)'
  <2>1. CASE j = i
    <3>1. list'[i] = s
      BY <1>s, <1>t DEF Lists
    <3>2. Watched(i) /\ ~Expired(list[i])
      BY <1>1, <1>s, <1>t, <2>1, <3>1 DEF Watch, Listed
    <3> QED
      BY <2>1, <3>1, <3>2, <1>s, <1>t DEF Watched, Coming
  <2>2. CASE j # i
    <3>1. j \in Listed /\ list'[j] = list[j]
      BY <2>2, <1>s, <1>t DEF Listed, Lists
    <3>2. Watched(j) /\ (Coming => Coming')
      BY <3>1, <1>1, <1>t DEF Watch, Coming
    <3> QED
      BY <3>1, <3>2, <1>t, WatchedKept
  <2> QED
    BY <2>1, <2>2
<1> QED
  BY <1>1, <1>t DEF Watch

(* The work queue.  A trigger that is taken is worked on, and a look that   *)
(* finds the clock set hands all it stood for to the walk.                  *)
LEMMA WatchByTrigger ==
  ASSUME IInv, Watch, TakeTrigger
  PROVE  Watch'
<1>t. /\ queue \in Seq(Items) /\ queue # <<>> /\ queue' = Tail(queue)
      /\ Head(queue) # Look /\ work = "idle"
      /\ UNCHANGED <<list, sync, syncTimer, lost>>
  BY DEF IInv, Queued, TakeTrigger, Take
<1>1. Coming => Coming'
  BY <1>t, ContainsTail DEF Coming
<1>2. ASSUME NEW j \in Listed', list'[j].enabled PROVE Watched(j)'
  <2>1. j \in Listed /\ Watched(j) /\ Trigger(j)' = Trigger(j)
    BY <1>2, <1>t DEF Watch, Listed, Trigger
  <2>2. CASE Head(queue) = Trigger(j) /\ Expired(list[j])
    <3>1. j \in At(Head(queue).index)
      BY <2>1, <2>2 DEF At, Trigger
    <3>2. work' = "act" /\ item' = list[j].index
      BY <2>2, <3>1 DEF TakeTrigger, Trigger
    <3> QED
      BY <2>2, <3>2, <1>t DEF Watched
  <2>3. CASE Head(queue) # Trigger(j)
    BY <2>1, <2>3, <1>1, <1>t, ContainsTail DEF Watched
  <2>4. CASE ~Expired(list[j])
    BY <2>1, <2>4, <1>1, <1>t DEF Watched
  <2> QED
    BY <2>2, <2>3, <2>4
<1>3. sync' = "started" => syncTimer' \/ Contains(queue', Look) \/ "sync" \in lost'
  BY <1>t, ContainsTail DEF Watch
<1>4. work' \notin {"act", "expire", "walk"} => item' = 0
  BY <1>t DEF Watch, TakeTrigger
<1> QED
  BY <1>2, <1>3, <1>4 DEF Watch

LEMMA WatchBySync ==
  ASSUME IInv, Watch, TakeSync
  PROVE  Watch'
<1>t. /\ queue \in Seq(Items) /\ queue # <<>> /\ queue' = Tail(queue)
      /\ Head(queue) = Look /\ work = "idle" /\ item = 0
      /\ UNCHANGED <<list, lost, item>>
  BY DEF IInv, Queued, TakeSync, Take, Watch
<1>1. \A j \in Listed : list[j].index \in Nat /\ Trigger(j) # Look
  BY TriggerType, Types, ListedType, EntryType DEF IInv, Listed
<1>2. ASSUME NEW j \in Listed', list'[j].enabled PROVE Watched(j)'
  <2>1. /\ j \in Listed /\ Watched(j) /\ Trigger(j)' = Trigger(j)
        /\ list[j].index \in Nat /\ Trigger(j) # Look
    BY <1>1, <1>2, <1>t DEF Watch, Listed, Trigger
  <2>2. Contains(queue, Trigger(j)) => Contains(queue', Trigger(j))
    BY <2>1, <1>t, ContainsTail
  <2>3. CASE clockSet
    <3>1. work' = "walk" /\ item' = 0 /\ list'[j].index \in Nat
      BY <2>1, <2>3, <1>t DEF TakeSync
    <3> QED
      BY <3>1 DEF Watched
  <2>4. CASE ~clockSet
    <3>1. syncTimer' /\ UNCHANGED <<sync, work>>
      BY <2>4 DEF TakeSync
    <3> QED
      BY <2>1, <2>2, <3>1, <1>t DEF Watched, Coming
  <2> QED
    BY <2>3, <2>4
<1>3. /\ sync' = "started" => syncTimer' \/ Contains(queue', Look) \/ "sync" \in lost'
      /\ work' \notin {"act", "expire", "walk"} => item' = 0
  BY <1>t DEF Watch, TakeSync
<1> QED
  BY <1>2, <1>3 DEF Watch

LEMMA WatchByAct ==
  ASSUME IInv, Watch, Act
  PROVE  Watch'
<1>t. /\ work = "act" /\ work' = "expire"
      /\ UNCHANGED <<list, sync, syncTimer, queue, item, lost>>
  BY DEF Act, ram
<1>1. ASSUME NEW j \in Listed', list'[j].enabled PROVE Watched(j)'
  <2>1. Watched(j) /\ Trigger(j)' = Trigger(j)
    BY <1>1, <1>t DEF Watch, Listed, Trigger
  <2> QED
    BY <2>1, <1>t DEF Watched, Coming
<1> QED
  BY <1>1, <1>t DEF Watch

LEMMA WatchByExpire ==
  ASSUME IInv, Watch, Expire
  PROVE  Watch'
<1>t. /\ work = "expire" /\ item' = 0 /\ work' \in {"report", "idle"} /\ list \in Lists
      /\ UNCHANGED <<sync, syncTimer, queue, lost>> /\ Apart(list)
  BY Types DEF IInv, Indexed, Expire, history
<1>1. PICK i \in At(item) :
        IF Expired(list[i])
        THEN list' = [list EXCEPT ![i] = Off(@)] /\ work' = "report"
        ELSE work' = "idle" /\ UNCHANGED list
  BY DEF Expire
<1>2. i \in Id /\ list[i] # Absent /\ list[i].index = item /\ list[i] \in Entry
  BY <1>t, ListedType DEF At, Listed
<1>3. ASSUME NEW j \in Listed', list'[j].enabled PROVE Watched(j)'
  <2>1. CASE j = i
    <3>1. ~Expired(list[i]) /\ list' = list
      <4>1. list'[i] = Off(list[i]) => ~list'[i].enabled
        BY <1>2, Offed
      <4> QED
        BY <4>1, <1>1, <1>2, <1>3, <1>t, <2>1 DEF Lists
    <3>2. Watched(i)
      BY <2>1, <3>1, <1>3 DEF Watch, Listed
    <3> QED
      BY <2>1, <3>1, <3>2, <1>t DEF Watched, Coming
  <2>2. CASE j # i
    <3>1. j \in Listed /\ list'[j] = list[j]
      BY <2>2, <1>1, <1>t DEF Lists, Listed
    <3>2. Watched(j) /\ Trigger(j)' = Trigger(j) /\ list[j].index # item
      BY <2>2, <3>1, <1>2, <1>3, <1>t DEF Watch, Trigger, Apart, Listed
    <3> QED
      BY <3>1, <3>2, <1>t DEF Watched, Coming
  <2> QED
    BY <2>1, <2>2
<1> QED
  BY <1>3, <1>t DEF Watch

LEMMA WatchByWalk ==
  ASSUME IInv, Watch, Walk
  PROVE  Watch'
<1>t. /\ work = "walk" /\ list \in Lists /\ item \in Nat /\ Apart(list)
      /\ UNCHANGED <<sync, syncTimer, queue, lost>>
      /\ \A j \in Listed : j \in Id /\ list[j] \in Entry /\ list[j].index \in Nat
  <2>1. list \in Lists /\ item \in Nat /\ Apart(list)
    BY Types DEF IInv, Indexed
  <2> QED
    BY <2>1, ListedType, EntryType DEF Walk, Listed
<1>1. CASE /\ \A i \in Listed : list[i].index < item
           /\ work' = "idle" /\ item' = 0 /\ UNCHANGED list
  <2>1. ASSUME NEW j \in Listed', list'[j].enabled PROVE Watched(j)'
    <3>1. j \in Listed /\ Watched(j) /\ Trigger(j)' = Trigger(j)
      BY <1>1, <2>1 DEF Watch, Listed, Trigger
    <3>2. ~(list[j].index >= item)
      BY <3>1, <1>1, <1>t
    <3> QED
      BY <3>1, <3>2, <1>1, <1>t DEF Watched, Coming
  <2> QED
    BY <2>1, <1>1, <1>t DEF Watch
<1>2. ASSUME NEW next \in Listed,
             item <= list[next].index,
             \A i \in Listed : item <= list[i].index => list[next].index <= list[i].index,
             item' = list[next].index + 1, UNCHANGED work,
             IF list[next].enabled THEN list' = [list EXCEPT ![next] = On(@, TRUE)]
                                   ELSE UNCHANGED list
      PROVE  Watch'
  <2>1. ASSUME NEW j \in Listed', list'[j].enabled PROVE Watched(j)'
    <3>1. CASE j = next
      <4>1. list[next].enabled /\ list'[next] = On(list[next], TRUE)
        BY <1>2, <1>t, <2>1, <3>1 DEF Lists
      <4>2. ~Expired(list[next])
        BY <4>1, <1>t, <2>1, <3>1, Offed DEF On
      <4>3. list'[next].armed
        BY <4>1, <4>2, <1>t, Oned
      <4> QED
        BY <3>1, <4>3 DEF Watched
    <3>2. CASE j # next
      <4>1. j \in Listed /\ list'[j] = list[j]
        BY <3>2, <1>2, <1>t DEF Lists, Listed
      <4>2. Watched(j) /\ Trigger(j)' = Trigger(j)
        BY <4>1, <2>1 DEF Watch, Trigger
      <4>3. list[j].index >= item => list[j].index >= item'
        <5>1. list[j].index # list[next].index
          BY <3>2, <4>1, <1>t DEF Apart, Listed
        <5>2. /\ list[j].index \in Nat /\ list[next].index \in Nat
              /\ item <= list[j].index => list[next].index <= list[j].index
          BY <4>1, <1>2, <1>t
        <5> QED
          BY <5>1, <5>2, <1>2, <1>t
      <4> QED
        BY <4>1, <4>2, <4>3, <1>2, <1>t DEF Watched, Coming
    <3> QED
      BY <3>1, <3>2
  <2> QED
    BY <2>1, <1>2, <1>t DEF Watch
<1> QED
  BY <1>1, <1>2 DEF Walk

(* A boot arms what it enables, or starts to look at the clock.             *)
LEMMA WatchByReboot ==
  ASSUME IInv, Reboot
  PROVE  Watch'
<1> DEFINE kept == {i \in Id : stored[i] # Absent}
           rank(i) == Cardinality({j \in kept : stored[j].index < stored[i].index})
           on   == {i \in kept : stored[i].enabled}
<1>t. stored \in Lists /\ clockSet' \in BOOLEAN /\ work' = "idle" /\ item' = 0
  BY Types DEF IInv, Reboot, TypeOK
<1>1. /\ list' = [i \in Id |-> IF i \notin kept THEN Absent
                               ELSE Restore(stored[i], rank(i), clockSet')]
      /\ sync' = IF on = {} THEN "none" ELSE IF clockSet' THEN "done" ELSE "started"
      /\ syncTimer' = (on # {} /\ ~clockSet')
  BY DEF Reboot, Restore
<1>2. sync' = "started" => syncTimer'
  BY <1>1
<1>3. ASSUME NEW i \in Listed', list'[i].enabled
      PROVE  list'[i].armed \/ (sync' = "started" /\ syncTimer')
  <2>1. i \in kept /\ list'[i] = Restore(stored[i], rank(i), clockSet')
    BY <1>1 DEF Listed
  <2>2. stored[i] \in Entry
    BY <2>1, <1>t, ListedType
  <2> DEFINE s == [stored[i] EXCEPT !.index = rank(i), !.armed = FALSE]
  <2>3. s.enabled = stored[i].enabled
    BY <2>2 DEF Entry
  <2>4. s.enabled /\ list'[i] = On(s, clockSet')
    BY <1>3, <2>1 DEF Restore
  <2>5. on # {}
    BY <2>1, <2>3, <2>4, EntryType, <2>2
  <2>6. CASE clockSet'
    <3>1. list'[i] = IF Expired(s) THEN Off(s) ELSE Armed([s EXCEPT !.enabled = TRUE])
      BY <2>4, <2>6 DEF On
    <3>2. ~Off(s).enabled
      BY <2>2 DEF Off, Entry
    <3>3. Armed([s EXCEPT !.enabled = TRUE]).armed
      BY <2>2 DEF Armed, Entry
    <3> QED
      BY <3>1, <3>2, <3>3, <1>3
  <2>7. CASE ~clockSet'
    BY <2>5, <2>7, <1>1
  <2> QED
    BY <2>6, <2>7, <1>t
<1> QED
  BY <1>2, <1>3, <1>t DEF Watch, Watched, Coming

LEMMA WatchKept == IInv /\ Watch /\ [Next]_vars => Watch'
<1> SUFFICES ASSUME IInv, Watch, [Next]_vars PROVE Watch'
  OBVIOUS
<1>1. CASE Request
  BY <1>1, WatchByAdd, WatchByEdit, WatchByOther DEF Request
<1>2. CASE Report \/ WorkReport \/ SetClock \/ UNCHANGED vars
  <2>1. /\ UNCHANGED <<list, sync, syncTimer, queue, item, lost>>
        /\ \/ UNCHANGED work
           \/ {work, work'} \cap {"act", "expire", "walk"} = {}
    BY <1>2 DEF Report, WorkReport, SetClock, vars, ram, worker, history
  <2>2. ASSUME NEW j \in Listed', list'[j].enabled PROVE Watched(j)'
    <3>1. Watched(j) /\ Trigger(j)' = Trigger(j)
      BY <2>1, <2>2 DEF Watch, Listed, Trigger
    <3> QED
      BY <2>1, <3>1 DEF Watched, Coming
  <2> QED
    BY <2>1, <2>2 DEF Watch
<1>3. CASE \E i \in Id : Fire(i) \/ Miss(i)
  BY <1>3, WatchByFire, WatchByMiss
<1>4. CASE SyncTimerFires
  BY <1>4, WatchBySyncTimer
<1>5. CASE WorkQueue
  <2>1. CASE WorkReport
    BY <2>1, <1>2
  <2> QED
    BY <1>5, <2>1, WatchByTrigger, WatchBySync, WatchByAct, WatchByExpire, WatchByWalk
       DEF WorkQueue
<1>6. CASE Reboot
  BY <1>6, WatchByReboot
<1> QED
  BY <1>1, <1>2, <1>3, <1>4, <1>5, <1>6 DEF Next

(* Whatever is turned on while the clock is not set, and whatever fires     *)
(* while the work queue is busy, a schedule that is enabled has a timer, a  *)
(* trigger, or a look at the clock or a walk that comes to it: none is      *)
(* forgotten but what found the work queue full.                            *)
THEOREM NoneIsForgotten == Spec => []EnabledIsWatched
<1>1. Init => IInv /\ Watch
  <2>1. Init => Watch
    BY DEF Init, Watch, Listed
  <2> QED
    BY <2>1, InitHolds
<1>2. IInv /\ Watch /\ [Next]_vars => IInv' /\ Watch'
  BY StepKeeps, WatchKept
<1>3. IInv /\ Watch => EnabledIsWatched
  BY DEF Watch, Watched, Coming, EnabledIsWatched
<1> QED
  BY <1>1, <1>2, <1>3, PTL DEF Spec
=============================================================================
