---------------------------- MODULE OtaFetchProofs ----------------------------
(***************************************************************************)
(* How a node asks for its updates, for any memory for timers, any message *)
(* ids, delays, windows, faults and calls: a request that is in progress   *)
(* ends, an attempt that fails is followed by at most one, a job that was  *)
(* put off is started on time; and the download window, for a day of any   *)
(* length.                                                                 *)
(***************************************************************************)
EXTENDS OtaFetch, FiniteSetTheorems, TLAPS

-----------------------------------------------------------------------------
(* The timers.                                                              *)

LEMMA SpareIsUnused ==
  ASSUME NEW f, Room(f)
  PROVE  Spare(f) \in Timer /\ Spare(f) \notin InUse(f)
<1>1. \E t \in Timer : t \notin InUse(f)
  BY DEF Room, InUse
<1> QED
  BY <1>1 DEF Spare

LEMMA DroppedKeeps ==
  ASSUME NEW f \in FetchState, TimersOK(f)
  PROVE  /\ Dropped(f) \in FetchState /\ TimersOK(Dropped(f))
         /\ InUse(Dropped(f)) \subseteq InUse(f)
         /\ Dropped(f).shots = f.shots /\ Dropped(f).full = f.full
         /\ Dropped(f).inProgress = f.inProgress
         /\ Dropped(f).expected = f.expected
         /\ Dropped(f).handler = f.handler
         /\ Dropped(f).retry = f.retry
<1>1. CASE f.timer = NoTimer
  BY <1>1 DEF Dropped, FetchState, TimersOK, InUse
<1>2. CASE f.timer # NoTimer
  <2>1. /\ f.timer \in Timer
        /\ Dropped(f).timeouts = [f.timeouts EXCEPT ![f.timer] = Unused]
    BY <1>2 DEF Dropped, FetchState
  <2>2. Dropped(f).timeouts \in [Timer -> Nat \cup {Unused}]
    BY <2>1 DEF FetchState
  <2>3. \A t \in Timer : Dropped(f).timeouts[t] # Unused => f.timeouts[t] # Unused
    BY <2>1 DEF FetchState
  <2>4. Dropped(f) \in FetchState /\ Dropped(f).shots = f.shots
        /\ Dropped(f).timer = NoTimer
    BY <2>2 DEF Dropped, FetchState
  <2>5. TimersOK(Dropped(f))
    BY <2>3, <2>4 DEF TimersOK
  <2>6. InUse(Dropped(f)) \subseteq InUse(f)
    BY <2>3, <2>4 DEF InUse
  <2> QED
    BY <2>4, <2>5, <2>6 DEF Dropped, FetchState
<1> QED
  BY <1>1, <1>2

LEMMA CleanedKeeps ==
  ASSUME NEW f \in FetchState, TimersOK(f)
  PROVE  /\ Cleaned(f) \in FetchState /\ TimersOK(Cleaned(f))
         /\ InUse(Cleaned(f)) \subseteq InUse(f)
         /\ Cleaned(f).shots = f.shots /\ Cleaned(f).full = f.full
         /\ Cleaned(f).inProgress = FALSE
<1> DEFINE g == Dropped(f)
<1>1. g \in FetchState /\ TimersOK(g) /\ InUse(g) \subseteq InUse(f)
      /\ g.shots = f.shots /\ g.full = f.full
  BY DroppedKeeps
<1>2. Cleaned(f) = [g EXCEPT !.handler = FALSE, !.expected = None,
                             !.retry = 0, !.inProgress = FALSE]
  BY DEF Cleaned
<1> HIDE DEF g
<1>3. Cleaned(f) \in FetchState
  <2>1. 0 \in 0 .. LongestDelay
    BY FetchAssumption
  <2> QED
    BY <1>1, <1>2, <2>1 DEF FetchState
<1> QED
  BY <1>1, <1>2, <1>3 DEF FetchState, TimersOK, InUse

(* What a failed attempt may make of the state f: at most one more timer.   *)
Follows(f, g) ==
    /\ g \in FetchState /\ TimersOK(g)
    /\ f.full => g.full
    /\ \A t \in Timer : f.shots[t] # Unused => g.shots[t] = f.shots[t]
    /\ g.inProgress => /\ f.inProgress /\ g.expected = f.expected
                       /\ g.handler = f.handler /\ g.timeouts = f.timeouts
    /\ \/ InUse(g) \subseteq InUse(f)
       \/ \E t \in Timer : InUse(g) \subseteq InUse(f) \cup {t}

LEMMA DelayedFollows ==
  ASSUME NEW f \in FetchState, TimersOK(f), NEW delay \in Nat
  PROVE  /\ Follows(f, Delayed(f, delay))
         /\ \/ Delayed(f, delay).full
            \/ \E t \in Timer : Delayed(f, delay).shots[t] = delay
<1> DEFINE g == Delayed(f, delay)
<1>1. CASE Room(f)
  <2>1. PICK s \in Timer : s = Spare(f) /\ s \notin InUse(f)
    BY <1>1, SpareIsUnused
  <2>2. g = [f EXCEPT !.shots[s] = delay]
    BY <1>1, <2>1 DEF Delayed
  <2>3. /\ f.shots[s] = Unused /\ f.timeouts[s] = Unused
    BY <2>1 DEF InUse
  <2>4. g.shots = [f.shots EXCEPT ![s] = delay] /\ g.timeouts = f.timeouts
        /\ g \in FetchState /\ g.timer = f.timer /\ g.full = f.full
        /\ g.inProgress = f.inProgress /\ g.expected = f.expected
        /\ g.handler = f.handler
    BY <2>2 DEF FetchState
  <2>5. \A t \in Timer : g.shots[t] = IF t = s THEN delay ELSE f.shots[t]
    BY <2>4 DEF FetchState
  <2>6. TimersOK(g)
    BY <2>3, <2>4, <2>5 DEF TimersOK
  <2>7. InUse(g) \subseteq InUse(f) \cup {s}
    BY <2>4, <2>5 DEF InUse
  <2> QED
    BY <2>3, <2>4, <2>5, <2>6, <2>7 DEF Follows
<1>2. CASE ~Room(f)
  <2>1. g = [f EXCEPT !.full = TRUE]
    BY <1>2 DEF Delayed
  <2> QED
    BY <2>1 DEF FetchState, Follows, TimersOK, InUse
<1> QED
  BY <1>1, <1>2

LEMMA DelayGrows ==
  ASSUME NEW delay \in 0 .. LongestDelay
  PROVE  NextDelay(delay) \in 1 .. LongestDelay
BY FetchAssumption DEF NextDelay

LEMMA RetriedFollows ==
  ASSUME NEW f \in FetchState, TimersOK(f)
  PROVE  Follows(f, Retried(f))
<1> DEFINE delay == NextDelay(f.retry)
           g     == [f EXCEPT !.retry = delay]
           r     == Delayed(g, delay)
<1>1. CASE Room(f)
  <2>1. delay \in 1 .. LongestDelay
    BY DelayGrows DEF FetchState
  <2>2. /\ g \in FetchState /\ g.full = f.full /\ g.inProgress = f.inProgress
        /\ g.expected = f.expected /\ g.handler = f.handler /\ g.timer = f.timer
        /\ g.shots = f.shots /\ g.timeouts = f.timeouts
    BY <2>1, FetchAssumption DEF FetchState
  <2>3. TimersOK(g) /\ InUse(g) = InUse(f)
    BY <2>2 DEF TimersOK, InUse
  <2>4. delay \in Nat
    BY <2>1, FetchAssumption
  <2>5. Follows(g, r)
    <3> HIDE DEF delay, g
    <3> QED
      BY <2>2, <2>3, <2>4, DelayedFollows
  <2>6. Retried(f) = r
    BY <1>1 DEF Retried
  <2> HIDE DEF g, r
  <2> QED
    BY <2>2, <2>3, <2>5, <2>6 DEF Follows
<1>2. CASE ~Room(f)
  <2> DEFINE c == Cleaned(f)
  <2>1. /\ c \in FetchState /\ TimersOK(c) /\ InUse(c) \subseteq InUse(f)
        /\ c.shots = f.shots /\ c.inProgress = FALSE
    BY CleanedKeeps
  <2>2. Retried(f) = [c EXCEPT !.full = TRUE]
    BY <1>2 DEF Retried
  <2> HIDE DEF c
  <2> QED
    BY <2>1, <2>2 DEF FetchState, Follows, TimersOK, InUse
<1> QED
  BY <1>1, <1>2

LEMMA FailedFollows ==
  ASSUME NEW f \in FetchState, TimersOK(f)
  PROVE  Follows(f, Failed(f)) /\ ~Failed(f).inProgress
<1> DEFINE g == [f EXCEPT !.expected = None, !.inProgress = FALSE]
<1>1. /\ g \in FetchState /\ g.full = f.full /\ g.inProgress = FALSE
      /\ g.shots = f.shots /\ g.timeouts = f.timeouts /\ g.timer = f.timer
  BY DEF FetchState
<1>2. TimersOK(g) /\ InUse(g) = InUse(f)
  BY <1>1 DEF TimersOK, InUse
<1>3. Failed(f) = Retried(g)
  BY DEF Failed
<1> HIDE DEF g
<1>4. Follows(g, Retried(g))
  BY <1>1, <1>2, RetriedFollows
<1> QED
  BY <1>1, <1>2, <1>3, <1>4 DEF Follows

LEMMA CleanedFails ==
  ASSUME NEW f \in FetchState, TimersOK(f)
  PROVE  Follows(f, Failed(Cleaned(f))) /\ ~Failed(Cleaned(f)).inProgress
<1> DEFINE g == Cleaned(f)
<1>1. /\ g \in FetchState /\ TimersOK(g) /\ InUse(g) \subseteq InUse(f)
      /\ g.shots = f.shots /\ g.full = f.full
  BY CleanedKeeps
<1> HIDE DEF g
<1>2. Follows(g, Failed(g)) /\ ~Failed(g).inProgress
  BY <1>1, FailedFollows
<1>3. Follows(f, Failed(g)) /\ ~Failed(g).inProgress
  BY <1>1, <1>2 DEF Follows
<1> QED
  BY <1>3 DEF g

LEMMA FullFollows ==
  ASSUME NEW f, NEW g \in FetchState, Follows(f, g), ~g.inProgress
  PROVE  /\ Follows(f, [g EXCEPT !.full = TRUE])
         /\ ~[g EXCEPT !.full = TRUE].inProgress /\ [g EXCEPT !.full = TRUE].full
BY DEF Follows, FetchState, TimersOK, InUse
-----------------------------------------------------------------------------
(* The download window.                                                     *)

(* The shifted comparison of esp_rmaker_ota_handle_time is the window that   *)
(* the metadata means.                                                       *)
LEMMA InWindowIsOpen ==
    ASSUME NEW now \in Minute, NEW first \in Minute, NEW last \in Minute
    PROVE  InWindow(now, first, last) <=> Open(now, first, last)
<1>1. CASE first <= last
  BY <1>1, DayAssumption
     DEF Minute, InWindow, Open, Now, First, Last, AcrossMidnight
<1>2. CASE first > last
  BY <1>2, DayAssumption
     DEF Minute, InWindow, Open, Now, First, Last, AcrossMidnight, Moved
<1> QED BY <1>1, <1>2 DEF Minute

(* Outside the window, delay_min leads to the minute at which it opens.      *)
LEMMA DelayReachesOpening ==
    ASSUME NEW now \in Minute, NEW first \in Minute, NEW last \in Minute,
           ~Open(now, first, last)
    PROVE  /\ DelayToWindow(now, first, last) \in 1 .. Day - 1
           /\ Later(now, DelayToWindow(now, first, last)) = first
<1>1. CASE first <= last
  BY <1>1, DayAssumption
     DEF Minute, DelayToWindow, Later, Open, Now, First, AcrossMidnight
<1>2. CASE first > last
  BY <1>2, DayAssumption
     DEF Minute, DelayToWindow, Later, Open, Now, First, AcrossMidnight, Moved
<1> QED BY <1>1, <1>2 DEF Minute

(* No minute at which the window is open passes during the delay.            *)
LEMMA NoOpeningIsMissed ==
    ASSUME NEW now \in Minute, NEW first \in Minute, NEW last \in Minute,
           ~Open(now, first, last),
           NEW k \in 0 .. DelayToWindow(now, first, last) - 1
    PROVE  ~Open(Later(now, k), first, last)
<1>1. CASE first <= last
  BY <1>1, DayAssumption
     DEF Minute, DelayToWindow, Later, Open, Now, First, AcrossMidnight
<1>2. CASE first > last
  BY <1>2, DayAssumption
     DEF Minute, DelayToWindow, Later, Open, Now, First, AcrossMidnight, Moved
<1> QED BY <1>1, <1>2 DEF Minute

(* What the download window promises holds for a day of any length.          *)
THEOREM WindowKept == WindowIsKept
<1> SUFFICES ASSUME NEW now \in Minute, NEW first \in Minute, NEW last \in Minute
             PROVE  /\ InWindow(now, first, last) <=> Open(now, first, last)
                    /\ ~Open(now, first, last) =>
                         LET delay == DelayToWindow(now, first, last)
                         IN  /\ delay \in 1 .. Day - 1
                             /\ Later(now, delay) = first
                             /\ \A k \in 0 .. delay - 1 :
                                    ~Open(Later(now, k), first, last)
  BY DEF WindowIsKept
<1>1. InWindow(now, first, last) <=> Open(now, first, last)
  BY InWindowIsOpen
<1>2. ASSUME ~Open(now, first, last)
      PROVE  /\ DelayToWindow(now, first, last) \in 1 .. Day - 1
             /\ Later(now, DelayToWindow(now, first, last)) = first
  BY <1>2, DelayReachesOpening
<1>3. ASSUME ~Open(now, first, last)
      PROVE  \A k \in 0 .. DelayToWindow(now, first, last) - 1 :
                 ~Open(Later(now, k), first, last)
  BY <1>3, NoOpeningIsMissed
<1> QED BY <1>1, <1>2, <1>3


-----------------------------------------------------------------------------
(* A request that is in progress ends: this is inductive with the types.    *)

LEMMA EnterEnds ==
  ASSUME RequestsEnd, NEW t \in Task, NEW f \in FetchState, TimersOK(f),
         f.inProgress = fetch.inProgress, f.timeouts = fetch.timeouts,
         Enter(t, f), auto' \in {Off} \cup 0 .. Period
  PROVE  RequestsEnd'
<1>1. /\ fetch' \in FetchState /\ TimersOK(fetch')
      /\ pc' \in [Task -> {"idle", "publish", "sent", "tracked", "registered"}]
      /\ NeverWedged'
  <2>1. CASE f.inProgress /\ fetch' = f /\ UNCHANGED pc
    BY <2>1 DEF RequestsEnd, TypeOK, NeverWedged
  <2>2. CASE fetch' = Failed(f) /\ UNCHANGED pc
    BY <2>2, FailedFollows DEF RequestsEnd, TypeOK, NeverWedged, Follows
  <2>3. CASE /\ ~f.inProgress /\ fetch' = [f EXCEPT !.expected = None]
             /\ pc' = [pc EXCEPT ![t] = "publish"]
    <3>1. /\ fetch' \in FetchState /\ fetch'.inProgress = FALSE
          /\ fetch'.timeouts = f.timeouts /\ fetch'.shots = f.shots
          /\ fetch'.timer = f.timer
      BY <2>3 DEF FetchState
    <3> QED
      BY <2>3, <3>1 DEF RequestsEnd, TypeOK, NeverWedged, TimersOK
  <2> QED
    BY <2>1, <2>2, <2>3 DEF Enter
<1> QED
  BY <1>1 DEF Enter, RequestsEnd, TypeOK, time, theJob, network, ota

LEMMA PublishEnds ==
  ASSUME RequestsEnd, NEW t \in Task, Publish(t)
  PROVE  RequestsEnd'
<1>t. fetch \in FetchState /\ TimersOK(fetch)
  BY DEF RequestsEnd, TypeOK
<1>1. CASE /\ FreeId # {}
           /\ \E id \in FreeId : requests' = requests \cup {id}
                                 /\ mid' = [mid EXCEPT ![t] = id]
           /\ pc' = [pc EXCEPT ![t] = "sent"] /\ UNCHANGED fetch
  <2>1. NeverWedged'
    BY <1>1 DEF Publish, RequestsEnd, TypeOK, NeverWedged
  <2> QED
    BY <1>1, <2>1 DEF Publish, RequestsEnd, TypeOK, FreeId, time, theJob, ota
<1>2. CASE /\ fetch' = Failed(fetch) /\ pc' = [pc EXCEPT ![t] = "idle"]
           /\ UNCHANGED <<requests, mid>>
  <2>1. fetch' \in FetchState /\ TimersOK(fetch') /\ ~fetch'.inProgress
    BY <1>t, <1>2, FailedFollows DEF Follows
  <2> QED
    BY <1>2, <2>1 DEF Publish, RequestsEnd, TypeOK, NeverWedged, time, theJob, ota
<1>3. FreeId # {} => (CHOOSE i \in FreeId : TRUE) \in FreeId
  OBVIOUS
<1> QED
  BY <1>1, <1>2, <1>3 DEF Publish

LEMMA TrackEnds ==
  ASSUME RequestsEnd, NEW t \in Task, Track(t)
  PROVE  RequestsEnd'
<1>1. /\ fetch' = [fetch EXCEPT !.expected = mid[t], !.inProgress = TRUE]
      /\ pc' = [pc EXCEPT ![t] = "tracked"] /\ fetch \in FetchState
      /\ mid[t] \in MsgId \cup {None}
  BY DEF Track, RequestsEnd, TypeOK
<1>2. /\ fetch' \in FetchState /\ fetch'.shots = fetch.shots
      /\ fetch'.timeouts = fetch.timeouts /\ fetch'.timer = fetch.timer
  BY <1>1 DEF FetchState
<1>3. TimersOK(fetch')
  BY <1>2 DEF RequestsEnd, TypeOK, TimersOK
<1>4. pc'[t] = "tracked"
  BY <1>1 DEF RequestsEnd, TypeOK
<1> QED
  BY <1>1, <1>2, <1>3, <1>4
     DEF Track, RequestsEnd, TypeOK, NeverWedged, time, theJob, network, ota, bounds

LEMMA RegisteredKeeps ==
  ASSUME NEW f \in FetchState
  PROVE  LET g == [f EXCEPT !.handler = TRUE,
                            !.leaked = IF f.handler THEN @ + 1 ELSE @]
         IN  /\ g \in FetchState /\ g.shots = f.shots /\ g.full = f.full
             /\ g.timeouts = f.timeouts /\ g.timer = f.timer
             /\ g.inProgress = f.inProgress /\ g.expected = f.expected
             /\ g.handler
<1> DEFINE n == IF f.handler THEN f.leaked + 1 ELSE f.leaked
           h == [f EXCEPT !.handler = TRUE, !.leaked = n]
<1>1. n \in Nat
  BY DEF FetchState
<1>2. h = [f EXCEPT !.handler = TRUE,
                    !.leaked = IF f.handler THEN @ + 1 ELSE @]
  BY DEF FetchState
<1> HIDE DEF n
<1>3. /\ h \in FetchState /\ h.shots = f.shots /\ h.full = f.full
      /\ h.timeouts = f.timeouts /\ h.timer = f.timer
      /\ h.inProgress = f.inProgress /\ h.expected = f.expected
      /\ h.handler
  BY <1>1 DEF FetchState
<1> QED
  BY <1>2, <1>3

LEMMA RegisterEnds ==
  ASSUME RequestsEnd, NEW t \in Task, Register(t)
  PROVE  RequestsEnd'
<1>t. fetch \in FetchState /\ TimersOK(fetch)
  BY DEF RequestsEnd, TypeOK
<1>1. CASE /\ fetch' = [fetch EXCEPT !.handler = TRUE,
                                     !.leaked = IF fetch.handler THEN @ + 1 ELSE @]
           /\ pc' = [pc EXCEPT ![t] = "registered"] /\ UNCHANGED mid
  <2>1. /\ fetch' \in FetchState /\ fetch'.shots = fetch.shots
        /\ fetch'.timeouts = fetch.timeouts /\ fetch'.timer = fetch.timer
    BY <1>t, <1>1, RegisteredKeeps
  <2>2. TimersOK(fetch')
    BY <1>t, <2>1 DEF TimersOK
  <2>3. pc'[t] = "registered"
    BY <1>1 DEF RequestsEnd, TypeOK
  <2> QED
    BY <1>1, <2>1, <2>2, <2>3
       DEF Register, RequestsEnd, TypeOK, NeverWedged, time, theJob, network, ota
<1>2. CASE /\ fetch' = Failed(Cleaned(fetch))
           /\ pc' = [pc EXCEPT ![t] = "idle"] /\ mid' = [mid EXCEPT ![t] = None]
  <2>1. fetch' \in FetchState /\ TimersOK(fetch') /\ ~fetch'.inProgress
    BY <1>t, <1>2, CleanedFails DEF Follows
  <2> QED
    BY <1>2, <2>1
       DEF Register, RequestsEnd, TypeOK, NeverWedged, time, theJob, network, ota
<1> QED
  BY <1>1, <1>2 DEF Register

(* The timer that a request is given.                                       *)
LEMMA ArmedTimer ==
  ASSUME NEW f \in FetchState, TimersOK(f), Room(f)
  PROVE  \E s \in Timer :
            LET g == [f EXCEPT !.timer = Spare(f), !.timeouts[Spare(f)] = 1]
            IN  /\ s \notin InUse(f) /\ g \in FetchState /\ TimersOK(g)
                /\ g.timeouts[s] # Unused /\ InUse(g) = InUse(f) \cup {s}
                /\ g.shots = f.shots /\ g.full = f.full
                /\ g.inProgress = f.inProgress /\ g.expected = f.expected
                /\ g.handler = f.handler
<1>1. PICK s \in Timer : s = Spare(f) /\ s \notin InUse(f)
  BY SpareIsUnused
<1> DEFINE g == [f EXCEPT !.timer = s, !.timeouts[s] = 1]
<1>2. /\ g \in FetchState /\ g.timer = s
      /\ g.timeouts = [f.timeouts EXCEPT ![s] = 1]
      /\ g.shots = f.shots /\ g.full = f.full
      /\ g.inProgress = f.inProgress /\ g.expected = f.expected
      /\ g.handler = f.handler
  BY DEF FetchState
<1>3. \A t \in Timer : g.timeouts[t] = IF t = s THEN 1 ELSE f.timeouts[t]
  BY <1>2 DEF FetchState
<1>4. TimersOK(g)
  BY <1>1, <1>2, <1>3 DEF TimersOK, InUse, Unused
<1>5. InUse(g) = InUse(f) \cup {s}
  BY <1>2, <1>3 DEF InUse, Unused
<1> QED
  BY <1>1, <1>2, <1>3, <1>4, <1>5 DEF Unused

LEMMA ArmEnds ==
  ASSUME RequestsEnd, NEW t \in Task, Arm(t)
  PROVE  RequestsEnd'
<1>t. fetch \in FetchState /\ TimersOK(fetch)
  BY DEF RequestsEnd, TypeOK
<1>1. fetch' \in FetchState /\ TimersOK(fetch') /\ NeverWedged'
  <2>1. CASE Room(fetch)
    BY <1>t, <2>1, ArmedTimer DEF Arm, NeverWedged
  <2>2. CASE ~Room(fetch)
    <3>1. fetch' = [Failed(Cleaned(fetch)) EXCEPT !.full = TRUE]
      BY <2>2 DEF Arm
    <3>2. Follows(fetch, fetch') /\ ~fetch'.inProgress
      BY <1>t, <3>1, CleanedFails, FullFollows DEF Follows
    <3> QED
      BY <3>2 DEF Follows, NeverWedged
  <2> QED
    BY <2>1, <2>2
<1> QED
  BY <1>1 DEF Arm, RequestsEnd, TypeOK, time, theJob, network, ota, bounds

LEMMA FiredShot ==
  ASSUME NEW f \in FetchState, TimersOK(f), NEW s \in Timer, f.shots[s] = 0
  PROVE  LET g == [f EXCEPT !.shots[s] = Unused]
         IN  /\ g \in FetchState /\ TimersOK(g)
             /\ InUse(g) = InUse(f) \ {s} /\ s \in InUse(f)
             /\ \A t \in Timer \ {s} : g.shots[t] = f.shots[t]
             /\ g.timeouts = f.timeouts /\ g.full = f.full
             /\ g.inProgress = f.inProgress /\ g.expected = f.expected
             /\ g.handler = f.handler
<1> DEFINE g == [f EXCEPT !.shots[s] = Unused]
<1>1. /\ g \in FetchState /\ g.shots = [f.shots EXCEPT ![s] = Unused]
      /\ g.timer = f.timer
      /\ g.timeouts = f.timeouts /\ g.full = f.full
      /\ g.inProgress = f.inProgress /\ g.expected = f.expected
      /\ g.handler = f.handler
  BY DEF FetchState
<1>2. \A t \in Timer : g.shots[t] = IF t = s THEN Unused ELSE f.shots[t]
  BY <1>1 DEF FetchState
<1>3. TimersOK(g) /\ f.timeouts[s] = Unused /\ s \in InUse(f)
  BY <1>1, <1>2 DEF TimersOK, InUse, Unused
<1>4. InUse(g) = InUse(f) \ {s}
  BY <1>1, <1>2, <1>3 DEF InUse
<1> QED
  BY <1>1, <1>2, <1>3, <1>4

LEMMA FiredTimeout ==
  ASSUME NEW f \in FetchState, TimersOK(f), NEW s \in Timer, f.timeouts[s] = 0
  PROVE  LET g == [f EXCEPT !.timeouts[s] = Unused]
             h == [Dropped(g) EXCEPT !.inProgress = FALSE, !.handler = FALSE]
         IN  /\ h \in FetchState /\ TimersOK(h) /\ ~h.inProgress
             /\ InUse(h) \subseteq InUse(f) \ {s} /\ s \in InUse(f)
             /\ h.shots = f.shots /\ h.full = f.full
<1> DEFINE g == [f EXCEPT !.timeouts[s] = Unused]
<1>1. /\ g \in FetchState /\ g.timeouts = [f.timeouts EXCEPT ![s] = Unused]
      /\ g.timer = f.timer /\ g.shots = f.shots /\ g.full = f.full
  BY DEF FetchState
<1>2. \A t \in Timer : g.timeouts[t] = IF t = s THEN Unused ELSE f.timeouts[t]
  BY <1>1 DEF FetchState
<1>3. s \in InUse(f) /\ f.shots[s] = Unused
  BY DEF TimersOK, InUse, Unused
<1>4. InUse(g) = InUse(f) \ {s}
  BY <1>1, <1>2, <1>3 DEF InUse
<1> DEFINE d == Dropped(g)
           h == [d EXCEPT !.inProgress = FALSE, !.handler = FALSE]
<1>5. /\ d \in FetchState /\ d.shots = f.shots /\ d.full = f.full
      /\ TimersOK(d) /\ InUse(d) \subseteq InUse(f) \ {s}
  <2>1. CASE g.timer = s
    <3>1. d = [g EXCEPT !.timer = NoTimer]
      <4>1. s # NoTimer
        BY DEF Timer, NoTimer
      <4>2. g.timeouts = [g.timeouts EXCEPT ![s] = Unused]
        BY <1>1, <1>2 DEF FetchState
      <4> QED
        BY <2>1, <4>1, <4>2, <1>1 DEF Dropped, FetchState
    <3>2. /\ d \in FetchState /\ d.shots = g.shots /\ d.timeouts = g.timeouts
          /\ d.timer = NoTimer /\ d.full = g.full
      BY <1>1, <3>1 DEF FetchState
    <3> HIDE DEF d, g
    <3>3. InUse(d) = InUse(g)
      BY <3>2 DEF InUse
    <3>4. \A t \in Timer : d.shots[t] = Unused \/ d.timeouts[t] = Unused
      <4>1. \A t \in Timer : f.shots[t] = Unused \/ f.timeouts[t] = Unused
        BY DEF TimersOK
      <4> QED
        BY <1>1, <1>2, <3>2, <4>1
    <3>5. TimersOK(d)
      BY <3>2, <3>4 DEF TimersOK
    <3> QED
      BY <1>1, <1>4, <3>2, <3>3, <3>5
  <2>2. CASE g.timer # s
    <3>1. TimersOK(g)
      BY <1>1, <1>2, <2>2 DEF TimersOK, FetchState, Timer, NoTimer
    <3> HIDE DEF g
    <3> QED
      BY <1>1, <1>4, <3>1, DroppedKeeps
  <2> QED
    BY <2>1, <2>2
<1> HIDE DEF d
<1>6. /\ h \in FetchState /\ h.shots = d.shots /\ h.timeouts = d.timeouts
      /\ h.timer = d.timer /\ h.full = d.full /\ ~h.inProgress
  BY <1>5 DEF FetchState
<1>7. TimersOK(h) /\ InUse(h) = InUse(d)
  BY <1>5, <1>6 DEF TimersOK, InUse
<1> QED
  BY <1>3, <1>5, <1>6, <1>7 DEF d

LEMMA TimerTaskEnds ==
  ASSUME RequestsEnd, ShotFires \/ AutofetchFires \/ TimeoutFires
  PROVE  RequestsEnd'
<1>t. /\ fetch \in FetchState /\ TimersOK(fetch) /\ auto \in {Off} \cup 0 .. Period
      /\ "timer" \in Task
  BY DEF RequestsEnd, TypeOK, Task
<1>1. CASE ShotFires
  <2>1. PICK s \in Timer : /\ fetch.shots[s] = 0 /\ auto' = auto
                           /\ Enter("timer", [fetch EXCEPT !.shots[s] = Unused])
    BY <1>1 DEF ShotFires
  <2> DEFINE f == [fetch EXCEPT !.shots[s] = Unused]
  <2>2. /\ f \in FetchState /\ TimersOK(f) /\ f.inProgress = fetch.inProgress
        /\ f.timeouts = fetch.timeouts
    BY <1>t, <2>1, FiredShot
  <2>3. Enter("timer", f)
    BY <2>1
  <2> HIDE DEF f
  <2> QED
    BY <1>t, <2>1, <2>2, <2>3, EnterEnds
<1>2. CASE AutofetchFires
  <2>1. Enter("timer", fetch) /\ auto' \in {Off} \cup 0 .. Period
    BY <1>2, FetchAssumption DEF AutofetchFires
  <2> QED
    BY <1>t, <2>1, EnterEnds
<1>3. CASE TimeoutFires
  <2>1. PICK s \in Timer :
           /\ fetch.timeouts[s] = 0
           /\ fetch' = Retried([Dropped([fetch EXCEPT !.timeouts[s] = Unused])
                                  EXCEPT !.inProgress = FALSE, !.handler = FALSE])
    BY <1>3 DEF TimeoutFires
  <2> DEFINE h == [Dropped([fetch EXCEPT !.timeouts[s] = Unused])
                     EXCEPT !.inProgress = FALSE, !.handler = FALSE]
  <2>2. h \in FetchState /\ TimersOK(h) /\ ~h.inProgress
    BY <1>t, <2>1, FiredTimeout
  <2>3. fetch' = Retried(h)
    BY <2>1
  <2> HIDE DEF h
  <2>4. fetch' \in FetchState /\ TimersOK(fetch') /\ ~fetch'.inProgress
    BY <2>2, <2>3, RetriedFollows DEF Follows
  <2> QED
    BY <1>3, <2>4 DEF TimeoutFires, RequestsEnd, TypeOK, NeverWedged, time, theJob,
       task, network, ota, bounds
<1> QED
  BY <1>1, <1>2, <1>3

LEMMA PutOffEnds ==
  ASSUME RequestsEnd, NEW delay \in Nat, fetch' = Delayed(fetch, delay),
         UNCHANGED pc
  PROVE  fetch' \in FetchState /\ TimersOK(fetch') /\ NeverWedged'
<1>1. Follows(fetch, fetch')
  BY DelayedFollows DEF RequestsEnd, TypeOK
<1> QED
  BY <1>1 DEF RequestsEnd, NeverWedged, Follows

(* Every delay of esp_rmaker_ota_handle_time is a positive number of ticks. *)
LEMMA PutOffInTime ==
  ASSUME RequestsEnd, HandleTime
  PROVE  \/ UNCHANGED fetch /\ job' \in {"started", "failed"}
         \/ \E delay \in Nat \ {0} :
               /\ fetch' = Delayed(fetch, delay) /\ busy' = FALSE /\ UNCHANGED job
               /\ \/ ~synced
                  \/ delay <= toStart
                  \/ /\ from \in Minute /\ to \in Minute
                     /\ delay = DelayToWindow(clock, from, to)
                     /\ ~Open(clock, from, to) /\ delay \in 1 .. Day - 1
<1>1. CASE ~synced /\ PutOff(1)
  BY <1>1 DEF PutOff
<1>2. CASE synced /\ toStart > 0 /\ \E d \in 1 .. toStart : PutOff(d)
  BY <1>2 DEF PutOff, RequestsEnd, TypeOK
<1>3. CASE Refused
  BY <1>3 DEF Refused
<1>4. CASE /\ synced /\ toStart = 0 /\ ~(from # NoTime /\ to = NoTime)
           /\ from # NoTime /\ ~InWindow(clock, from, to)
           /\ PutOff(DelayToWindow(clock, from, to))
  <2>1. clock \in Minute /\ from \in Minute /\ to \in Minute
    BY <1>4 DEF RequestsEnd, TypeOK
  <2>2. ~Open(clock, from, to)
    BY <1>4, <2>1, InWindowIsOpen
  <2>3. DelayToWindow(clock, from, to) \in 1 .. Day - 1
    BY <2>1, <2>2, DelayReachesOpening
  <2> QED
    BY <1>4, <2>1, <2>2, <2>3, DayAssumption DEF PutOff
<1>5. CASE job' = "started" /\ UNCHANGED fetch
  BY <1>5
<1> QED
  BY <1>1, <1>2, <1>3, <1>4, <1>5 DEF HandleTime

LEMMA HandleTimeEnds ==
  ASSUME RequestsEnd, HandleTime
  PROVE  RequestsEnd'
<1>1. /\ fetch' \in FetchState /\ TimersOK(fetch') /\ NeverWedged'
      /\ job' \in {"wanted", "started", "failed"}
  <2>1. UNCHANGED pc
    BY DEF HandleTime, task
  <2>2. CASE UNCHANGED fetch /\ job' \in {"started", "failed"}
    BY <2>1, <2>2 DEF RequestsEnd, TypeOK, NeverWedged
  <2>3. CASE \E delay \in Nat \ {0} : fetch' = Delayed(fetch, delay) /\ UNCHANGED job
    BY <2>1, <2>3, PutOffEnds DEF RequestsEnd, TypeOK
  <2> QED
    BY <2>2, <2>3, PutOffInTime
<1>2. busy' \in BOOLEAN
  BY DEF HandleTime, PutOff, Refused, RequestsEnd, TypeOK
<1> QED
  BY <1>1, <1>2 DEF HandleTime, RequestsEnd, TypeOK, time, task, network, bounds

LEMMA OlderTimers ==
  ASSUME NEW f \in FetchState, TimersOK(f),
         \A t \in Timer : f.shots[t] # 0 /\ f.timeouts[t] # 0
  PROVE  LET g == [f EXCEPT !.shots = Older(@), !.timeouts = Older(@)]
         IN  /\ g \in FetchState /\ TimersOK(g) /\ InUse(g) = InUse(f)
             /\ g.inProgress = f.inProgress /\ g.expected = f.expected
             /\ g.handler = f.handler /\ g.full = f.full
             /\ \A t \in Timer : /\ g.timeouts[t] = Unused <=> f.timeouts[t] = Unused
                                 /\ g.shots[t] = Unused <=> f.shots[t] = Unused
                                 /\ f.shots[t] # Unused =>
                                       g.shots[t] = f.shots[t] - 1
<1> DEFINE g == [f EXCEPT !.shots = Older(@), !.timeouts = Older(@)]
<1>1. /\ Older(f.shots) \in [Timer -> Nat \cup {Unused}]
      /\ Older(f.timeouts) \in [Timer -> Nat \cup {Unused}]
  BY DEF Older, FetchState, Unused
<1>2. /\ g \in FetchState /\ g.shots = Older(f.shots)
      /\ g.timeouts = Older(f.timeouts) /\ g.timer = f.timer
      /\ g.inProgress = f.inProgress /\ g.expected = f.expected
      /\ g.handler = f.handler /\ g.full = f.full
  BY <1>1 DEF FetchState
<1>3. \A t \in Timer : /\ g.timeouts[t] = Unused <=> f.timeouts[t] = Unused
                       /\ g.shots[t] = Unused <=> f.shots[t] = Unused
                       /\ f.shots[t] # Unused => g.shots[t] = f.shots[t] - 1
  <2> SUFFICES ASSUME NEW t \in Timer
               PROVE  /\ g.timeouts[t] = Unused <=> f.timeouts[t] = Unused
                      /\ g.shots[t] = Unused <=> f.shots[t] = Unused
                      /\ f.shots[t] # Unused => g.shots[t] = f.shots[t] - 1
    OBVIOUS
  <2>1. /\ f.shots[t] \in Nat \cup {Unused} /\ f.shots[t] # 0
        /\ f.timeouts[t] \in Nat \cup {Unused} /\ f.timeouts[t] # 0
    BY DEF FetchState
  <2>2. /\ g.shots[t] = IF f.shots[t] = Unused THEN Unused ELSE f.shots[t] - 1
        /\ g.timeouts[t] = IF f.timeouts[t] = Unused THEN Unused
                                                     ELSE f.timeouts[t] - 1
    BY <1>2 DEF Older
  <2> QED
    BY <2>1, <2>2 DEF Unused
<1>4. TimersOK(g) /\ InUse(g) = InUse(f)
  BY <1>2, <1>3 DEF TimersOK, InUse, FetchState, NoTimer
<1> QED
  BY <1>2, <1>3, <1>4

LEMMA TickEnds ==
  ASSUME RequestsEnd, Tick
  PROVE  RequestsEnd'
<1>1. fetch' \in FetchState /\ TimersOK(fetch') /\ NeverWedged'
  <2>1. /\ fetch' = [fetch EXCEPT !.shots = Older(@), !.timeouts = Older(@)]
        /\ \A t \in Timer : fetch.shots[t] # 0 /\ fetch.timeouts[t] # 0
        /\ fetch \in FetchState /\ TimersOK(fetch) /\ UNCHANGED pc
    BY DEF Tick, Quiet, RequestsEnd, TypeOK, task
  <2>2. /\ fetch' \in FetchState /\ TimersOK(fetch')
        /\ fetch'.inProgress = fetch.inProgress
        /\ \A t \in Timer : fetch'.timeouts[t] = Unused <=> fetch.timeouts[t] = Unused
    BY <2>1, OlderTimers
  <2> QED
    BY <2>1, <2>2 DEF RequestsEnd, NeverWedged
<1>2. /\ clock' \in Minute /\ toStart' \in Nat
      /\ toEnd' \in Nat \cup {NoTime, Lapsed}
  <2>1. clock' \in Minute
    BY DayAssumption DEF Tick, RequestsEnd, TypeOK, Later, Minute
  <2>2. toStart' \in Nat
    BY DEF Tick, RequestsEnd, TypeOK
  <2>3. toEnd' \in Nat \cup {NoTime, Lapsed}
    BY DEF Tick, RequestsEnd, TypeOK, NoTime, Lapsed
  <2> QED
    BY <2>1, <2>2, <2>3
<1>3. auto' \in {Off} \cup 0 .. Period
  BY FetchAssumption DEF Tick, Quiet, RequestsEnd, TypeOK, Off
<1> QED
  BY <1>1, <1>2, <1>3 DEF Tick, RequestsEnd, TypeOK, theJob, task, network, ota

LEMMA NetworkEnds ==
  ASSUME RequestsEnd, \/ \E id \in MsgId : Answer(id) \/ Puback(id)
                      \/ Disconnect \/ Connect \/ UrlHandler
  PROVE  RequestsEnd'
<1>t. fetch \in FetchState /\ TimersOK(fetch)
  BY DEF RequestsEnd, TypeOK
<1>1. CASE \E id \in MsgId : Answer(id)
  BY <1>1 DEF Answer, RequestsEnd, TypeOK, NeverWedged, time, theJob, task, ota, bounds
<1>2. CASE \E id \in MsgId : Puback(id)
  <2>1. PICK id \in MsgId : Puback(id)
    BY <1>2
  <2>2. \/ fetch' = fetch
        \/ fetch' = Cleaned(fetch)
    BY <2>1 DEF Puback
  <2>3. /\ fetch' \in FetchState /\ TimersOK(fetch')
        /\ fetch' = fetch \/ ~fetch'.inProgress
    BY <1>t, <2>2, CleanedKeeps
  <2> QED
    BY <2>1, <2>3 DEF Puback, RequestsEnd, TypeOK, NeverWedged, time, theJob, task, ota
<1>3. CASE Disconnect
  <2>1. requests' \cup acks' \subseteq MsgId /\ conn' \in BOOLEAN /\ NeverWedged'
    BY <1>3 DEF Disconnect, RequestsEnd, TypeOK, NeverWedged, task
  <2> QED
    BY <1>3, <2>1 DEF Disconnect, RequestsEnd, TypeOK, time, theJob, task, ota
<1>4. CASE Connect
  BY <1>4 DEF Connect, RequestsEnd, TypeOK, NeverWedged, time, theJob, task, network,
     ota, bounds
<1>5. CASE UrlHandler
  <2>1. urls' \in 0 .. 2 /\ NeverWedged'
    BY <1>5 DEF UrlHandler, RequestsEnd, TypeOK, NeverWedged, task
  <2>2. busy' \in BOOLEAN /\ queued' \in BOOLEAN
    BY <1>5 DEF UrlHandler, RequestsEnd, TypeOK, ota
  <2> QED
    BY <1>5, <2>1, <2>2 DEF UrlHandler, RequestsEnd, TypeOK, time, theJob, task
<1> QED
  BY <1>1, <1>2, <1>3, <1>4, <1>5

LEMMA FreshEnds ==
  /\ Fresh \in FetchState /\ TimersOK(Fresh) /\ ~Fresh.inProgress
  /\ InUse(Fresh) = {}
BY FetchAssumption DEF Fresh, NoTimers, FetchState, TimersOK, InUse

LEMMA RebootEnds ==
  ASSUME RequestsEnd, Reboot
  PROVE  RequestsEnd'
<1>1. fetch' \in FetchState /\ TimersOK(fetch') /\ ~fetch'.inProgress
  BY FreshEnds DEF Reboot
<1>2. /\ pc' \in [Task -> {"idle", "publish", "sent", "tracked", "registered"}]
      /\ mid' \in [Task -> MsgId \cup {None}]
  BY DEF Reboot
<1>3. {synced', prompt', up', conn', busy', queued'} \subseteq BOOLEAN
  BY DEF Reboot
<1> QED
  BY <1>1, <1>2, <1>3 DEF Reboot, RequestsEnd, TypeOK, NeverWedged, theJob

LEMMA WorkFnEnds ==
  ASSUME RequestsEnd, WorkFn
  PROVE  RequestsEnd'
<1>1. fetch' \in FetchState /\ TimersOK(fetch') /\ NeverWedged'
  BY PutOffEnds DEF WorkFn, task
<1>2. auto' \in {Off} \cup 0 .. Period
  BY FetchAssumption DEF WorkFn
<1> QED
  BY <1>1, <1>2 DEF WorkFn, RequestsEnd, TypeOK, time, theJob, task, network, ota, bounds

LEMMA RequestsEndInit == Init => RequestsEnd
<1> SUFFICES ASSUME Init
             PROVE  RequestsEnd
  OBVIOUS
<1>1. fetch \in FetchState /\ TimersOK(fetch) /\ ~fetch.inProgress
  BY FreshEnds DEF Init
<1>2. /\ clock \in Minute /\ toStart \in Nat
      /\ toEnd \in Nat \cup {NoTime, Lapsed}
      /\ {from, to} \subseteq Minute \cup {NoTime}
  <2>1. clock \in Minute
    BY DayAssumption DEF Init, Minute
  <2>2. CASE from = NoTime /\ to = NoTime /\ toStart = 0 /\ toEnd = NoTime
    BY <2>1, <2>2
  <2>3. CASE /\ from \in Froms \cup {NoTime} /\ to \in Tos \cup {NoTime}
             /\ toStart \in Starts /\ toEnd \in Ends
    BY <2>1, <2>3, FetchAssumption
  <2> QED
    BY <2>1, <2>2, <2>3 DEF Init
<1>3. /\ pc \in [Task -> {"idle", "publish", "sent", "tracked", "registered"}]
      /\ mid \in [Task -> MsgId \cup {None}]
  BY DEF Init
<1>4. {synced, prompt, up, conn, busy, queued} \subseteq BOOLEAN
  BY DEF Init
<1> QED
  BY <1>1, <1>2, <1>3, <1>4 DEF Init, RequestsEnd, TypeOK, NeverWedged

LEMMA RequestsEndNext == RequestsEnd /\ [Next]_vars => RequestsEnd'
<1> SUFFICES ASSUME RequestsEnd, [Next]_vars
             PROVE  RequestsEnd'
  OBVIOUS
<1>1. CASE \E t \in Task : Call(t)
  BY <1>1, PublishEnds, TrackEnds, RegisterEnds, ArmEnds DEF Call
<1>2. CASE ShotFires \/ AutofetchFires \/ TimeoutFires
  BY <1>2, TimerTaskEnds
<1>3. CASE \/ \E id \in MsgId : Answer(id) \/ Puback(id)
           \/ Disconnect \/ Connect \/ UrlHandler
  BY <1>3, NetworkEnds
<1>4. CASE HandleTime
  BY <1>4, HandleTimeEnds
<1>5. CASE WorkFn
  BY <1>5, WorkFnEnds
<1>6. CASE Tick
  BY <1>6, TickEnds
<1>7. CASE AppFetch
  BY <1>7, EnterEnds DEF AppFetch, RequestsEnd, TypeOK, Task
<1>8. CASE Reboot
  BY <1>8, RebootEnds
<1>9. CASE UNCHANGED vars
  BY <1>9 DEF vars, RequestsEnd, TypeOK, NeverWedged, time, theJob, task, network,
     ota, bounds
<1> QED
  BY <1>1, <1>2, <1>3, <1>4, <1>5, <1>6, <1>7, <1>8, <1>9 DEF Next, Progress

(* For any number of ids, any memory, any period and any window: no timer is *)
(* deleted that is not there, and a request in progress has a timer that     *)
(* ends it or a task that is about to give it one                            *)
(* (__esp_rmaker_ota_fetch, ota_fetch_cleanup, ota_fetch_timeout_timer_cb).  *)
THEOREM RequestsComeToAnEnd == Spec => []RequestsEnd
BY RequestsEndInit, RequestsEndNext, PTL DEF Spec

-----------------------------------------------------------------------------
(* An attempt that fails is followed by at most one.                        *)

(* The autofetch timer runs from the start of the agent on.                 *)
AutoWaits == ~up => auto = Off

LEMMA FinitelyManyTimers ==
  ASSUME NEW f
  PROVE  IsFiniteSet(InUse(f)) /\ Cardinality(InUse(f)) \in Nat
<1>1. IsFiniteSet(Timer)
  BY FetchAssumption, FS_Interval DEF Timer
<1>2. IsFiniteSet(InUse(f))
  BY <1>1, FS_Subset DEF InUse
<1> QED
  BY <1>2, FS_CardinalityType

LEMMA FewerTimers ==
  ASSUME NEW f, NEW g, InUse(g) \subseteq InUse(f)
  PROVE  Cardinality(InUse(g)) <= Cardinality(InUse(f))
BY FinitelyManyTimers, FS_Subset

LEMMA OneTimerMore ==
  ASSUME NEW f, NEW g, NEW t, InUse(g) \subseteq InUse(f) \cup {t}
  PROVE  Cardinality(InUse(g)) <= Cardinality(InUse(f)) + 1
<1>1. IsFiniteSet(InUse(f) \cup {t}) /\ IsFiniteSet(InUse(f))
  BY FinitelyManyTimers, FS_AddElement
<1>2. Cardinality(InUse(f) \cup {t}) <= Cardinality(InUse(f)) + 1
  BY <1>1, FinitelyManyTimers, FS_AddElement
<1>3. Cardinality(InUse(g)) <= Cardinality(InUse(f) \cup {t})
  BY <1>1, FS_Subset
<1>4. /\ Cardinality(InUse(f) \cup {t}) \in Nat /\ Cardinality(InUse(f)) \in Nat
      /\ Cardinality(InUse(g)) \in Nat
  BY <1>1, FinitelyManyTimers, FS_CardinalityType
<1> QED
  BY <1>2, <1>3, <1>4

LEMMA OneTimerLess ==
  ASSUME NEW f, NEW g, NEW t, t \in InUse(f), InUse(g) \subseteq InUse(f) \ {t}
  PROVE  Cardinality(InUse(g)) <= Cardinality(InUse(f)) - 1
<1>1. /\ IsFiniteSet(InUse(f) \ {t})
      /\ Cardinality(InUse(f) \ {t}) = Cardinality(InUse(f)) - 1
  BY FinitelyManyTimers, FS_RemoveElement
<1>2. Cardinality(InUse(g)) <= Cardinality(InUse(f) \ {t})
  BY <1>1, FS_Subset
<1> QED
  BY <1>1, <1>2

LEMMA FollowsByOne ==
  ASSUME NEW f, NEW g, Follows(f, g)
  PROVE  Cardinality(InUse(g)) <= Cardinality(InUse(f)) + 1
<1>1. CASE InUse(g) \subseteq InUse(f)
  BY <1>1, FewerTimers, FinitelyManyTimers
<1>2. CASE \E t \in Timer : InUse(g) \subseteq InUse(f) \cup {t}
  BY <1>2, OneTimerMore
<1> QED
  BY <1>1, <1>2 DEF Follows

(* The tasks that make a request, when they are at places.                  *)
Asking(places) == {t \in Task : places[t] # "idle"}

LEMMA FinitelyManyTasks ==
  ASSUME NEW places
  PROVE  IsFiniteSet(Asking(places)) /\ Cardinality(Asking(places)) \in Nat
<1>1. IsFiniteSet(Task)
  <2>1. IsFiniteSet({"timer"})
    BY FS_Singleton
  <2>2. IsFiniteSet({"timer"} \cup {"app"})
    BY <2>1, FS_AddElement
  <2>3. Task = {"timer"} \cup {"app"}
    BY DEF Task
  <2> QED
    BY <2>2, <2>3
<1>2. IsFiniteSet(Asking(places))
  BY <1>1, FS_Subset DEF Asking
<1> QED
  BY <1>2, FS_CardinalityType

LEMMA TaskMoves ==
  ASSUME NEW S, pc \in [Task -> S], NEW t \in Task, NEW place,
         pc' = [pc EXCEPT ![t] = place]
  PROVE  /\ pc[t] # "idle" /\ place # "idle" =>
              Cardinality(Asking(pc')) = Cardinality(Asking(pc))
         /\ pc[t] # "idle" /\ place = "idle" =>
              Cardinality(Asking(pc')) = Cardinality(Asking(pc)) - 1
         /\ pc[t] = "idle" /\ place # "idle" =>
              Cardinality(Asking(pc')) = Cardinality(Asking(pc)) + 1
<1>1. \A u \in Task : pc'[u] = IF u = t THEN place ELSE pc[u]
  OBVIOUS
<1>2. CASE pc[t] # "idle" /\ place # "idle"
  <2>1. Asking(pc') = Asking(pc)
    BY <1>1, <1>2 DEF Asking
  <2> QED
    BY <1>2, <2>1
<1>3. CASE pc[t] # "idle" /\ place = "idle"
  <2>1. Asking(pc') = Asking(pc) \ {t} /\ t \in Asking(pc)
    BY <1>1, <1>3 DEF Asking
  <2> QED
    BY <1>3, <2>1, FinitelyManyTasks, FS_RemoveElement
<1>4. CASE pc[t] = "idle" /\ place # "idle"
  <2>1. Asking(pc') = Asking(pc) \cup {t} /\ t \notin Asking(pc)
    BY <1>1, <1>4 DEF Asking
  <2> QED
    BY <1>4, <2>1, FinitelyManyTasks, FS_AddElement
<1> QED
  BY <1>2, <1>3, <1>4

LEMMA AttemptsAre ==
  /\ Attempts = Cardinality(InUse(fetch)) + Cardinality(Asking(pc))
  /\ Attempts' = Cardinality(InUse(fetch')) + Cardinality(Asking(pc'))
  /\ Cardinality(InUse(fetch)) \in Nat /\ Cardinality(Asking(pc)) \in Nat
  /\ Cardinality(InUse(fetch')) \in Nat /\ Cardinality(Asking(pc')) \in Nat
BY FinitelyManyTimers, FinitelyManyTasks DEF Attempts, Asking, InUse

LEMMA SameAttempts ==
  ASSUME InUse(fetch') \subseteq InUse(fetch), UNCHANGED pc
  PROVE  Attempts' <= Attempts
BY AttemptsAre, FewerTimers

LEMMA TaskEnds ==
  ASSUME TypeOK, NEW t \in Task, pc[t] # "idle", pc' = [pc EXCEPT ![t] = "idle"],
         Cardinality(InUse(fetch')) <= Cardinality(InUse(fetch)) + 1
  PROVE  Attempts' <= Attempts
<1>1. Cardinality(Asking(pc')) = Cardinality(Asking(pc)) - 1
  BY TaskMoves DEF TypeOK
<1> QED
  BY <1>1, AttemptsAre

LEMMA TaskGoesOn ==
  ASSUME TypeOK, NEW t \in Task, pc[t] # "idle",
         NEW place, place # "idle", pc' = [pc EXCEPT ![t] = place],
         InUse(fetch') = InUse(fetch)
  PROVE  Attempts' <= Attempts
<1>1. Cardinality(Asking(pc')) = Cardinality(Asking(pc))
  BY TaskMoves DEF TypeOK
<1> QED
  BY <1>1, AttemptsAre

LEMMA TaskStarts ==
  ASSUME TypeOK, NEW t \in Task, pc[t] = "idle",
         NEW place, place # "idle", pc' = [pc EXCEPT ![t] = place]
  PROVE  Cardinality(Asking(pc')) = Cardinality(Asking(pc)) + 1
BY TaskMoves DEF TypeOK

LEMMA CallAddsNone ==
  ASSUME TypeOK, NEW t \in Task, Call(t)
  PROVE  Attempts' <= Attempts
<1>t. fetch \in FetchState /\ TimersOK(fetch)
  BY DEF TypeOK
<1>1. CASE Publish(t)
  <2>1. CASE UNCHANGED fetch /\ pc' = [pc EXCEPT ![t] = "sent"]
    BY <1>1, <2>1, TaskGoesOn DEF Publish
  <2>2. CASE fetch' = Failed(fetch) /\ pc' = [pc EXCEPT ![t] = "idle"]
    BY <1>t, <1>1, <2>2, FailedFollows, FollowsByOne, TaskEnds DEF Publish
  <2> QED
    BY <1>1, <2>1, <2>2 DEF Publish
<1>2. CASE Track(t)
  <2>1. InUse(fetch') = InUse(fetch)
    BY <1>t, <1>2 DEF Track, FetchState, InUse
  <2> QED
    BY <1>2, <2>1, TaskGoesOn DEF Track
<1>3. CASE Register(t)
  <2>1. CASE /\ fetch' = [fetch EXCEPT !.handler = TRUE,
                                     !.leaked = IF fetch.handler THEN @ + 1 ELSE @]
             /\ pc' = [pc EXCEPT ![t] = "registered"]
    <3>1. fetch'.shots = fetch.shots /\ fetch'.timeouts = fetch.timeouts
      BY <1>t, <2>1, RegisteredKeeps
    <3>2. InUse(fetch') = InUse(fetch)
      BY <3>1 DEF InUse
    <3> QED
      BY <1>3, <2>1, <3>2, TaskGoesOn DEF Register
  <2>2. CASE fetch' = Failed(Cleaned(fetch)) /\ pc' = [pc EXCEPT ![t] = "idle"]
    BY <1>t, <1>3, <2>2, CleanedFails, FollowsByOne, TaskEnds DEF Register
  <2> QED
    BY <1>3, <2>1, <2>2 DEF Register
<1>4. CASE Arm(t)
  <2>1. Cardinality(InUse(fetch')) <= Cardinality(InUse(fetch)) + 1
    <3>1. CASE Room(fetch)
      <4>1. fetch' = [fetch EXCEPT !.timer = Spare(fetch), !.timeouts[Spare(fetch)] = 1]
        BY <1>4, <3>1 DEF Arm
      <4>2. PICK s \in Timer : InUse(fetch') = InUse(fetch) \cup {s}
        BY <1>t, <3>1, <4>1, ArmedTimer
      <4> QED
        BY <4>2, OneTimerMore
    <3>2. CASE ~Room(fetch)
      <4>1. fetch' = [Failed(Cleaned(fetch)) EXCEPT !.full = TRUE]
        BY <1>4, <3>2 DEF Arm
      <4>2. Follows(fetch, fetch')
        BY <1>t, <4>1, CleanedFails, FullFollows DEF Follows
      <4> QED
        BY <4>2, FollowsByOne
    <3> QED
      BY <3>1, <3>2
  <2> QED
    BY <1>4, <2>1, TaskEnds DEF Arm
<1> QED
  BY <1>1, <1>2, <1>3, <1>4 DEF Call

(* The delay that is over becomes the request that it was for.              *)
LEMMA ShotAddsNone ==
  ASSUME TypeOK, ShotFires
  PROVE  Attempts' <= Attempts
<1>1. PICK s \in Timer : /\ fetch.shots[s] = 0
                         /\ Enter("timer", [fetch EXCEPT !.shots[s] = Unused])
  BY DEF ShotFires
<1> DEFINE f == [fetch EXCEPT !.shots[s] = Unused]
<1>2. /\ f \in FetchState /\ TimersOK(f)
      /\ InUse(f) = InUse(fetch) \ {s} /\ s \in InUse(fetch)
  BY <1>1, FiredShot DEF TypeOK
<1>3. Enter("timer", f)
  BY <1>1
<1> HIDE DEF f
<1>4. Cardinality(InUse(f)) <= Cardinality(InUse(fetch)) - 1
  BY <1>2, OneTimerLess
<1>5. CASE fetch' = f /\ UNCHANGED pc
  BY <1>2, <1>5, SameAttempts
<1>6. CASE fetch' = Failed(f) /\ UNCHANGED pc
  <2>1. Cardinality(InUse(fetch')) <= Cardinality(InUse(f)) + 1
    BY <1>2, <1>6, FailedFollows, FollowsByOne
  <2> QED
    BY <1>4, <1>6, <2>1, AttemptsAre, FinitelyManyTimers
<1>7. CASE /\ fetch' = [f EXCEPT !.expected = None]
           /\ pc["timer"] = "idle" /\ pc' = [pc EXCEPT !["timer"] = "publish"]
  <2>1. InUse(fetch') = InUse(f)
    BY <1>2, <1>7 DEF FetchState, InUse
  <2>2. Cardinality(Asking(pc')) = Cardinality(Asking(pc)) + 1
    BY <1>7, TaskStarts DEF Task
  <2> QED
    BY <1>4, <2>1, <2>2, AttemptsAre
<1> QED
  BY <1>3, <1>5, <1>6, <1>7 DEF Enter

(* The request that timed out becomes the delay before the next one.        *)
LEMMA TimeoutAddsNone ==
  ASSUME TypeOK, TimeoutFires
  PROVE  Attempts' <= Attempts
<1>1. PICK s \in Timer :
         /\ fetch.timeouts[s] = 0
         /\ fetch' = Retried([Dropped([fetch EXCEPT !.timeouts[s] = Unused])
                                EXCEPT !.inProgress = FALSE, !.handler = FALSE])
  BY DEF TimeoutFires
<1> DEFINE h == [Dropped([fetch EXCEPT !.timeouts[s] = Unused])
                   EXCEPT !.inProgress = FALSE, !.handler = FALSE]
<1>2. /\ h \in FetchState /\ TimersOK(h)
      /\ InUse(h) \subseteq InUse(fetch) \ {s} /\ s \in InUse(fetch)
  BY <1>1, FiredTimeout DEF TypeOK
<1>3. fetch' = Retried(h)
  BY <1>1
<1> HIDE DEF h
<1>4. Cardinality(InUse(h)) <= Cardinality(InUse(fetch)) - 1
  BY <1>2, OneTimerLess
<1>5. Cardinality(InUse(fetch')) <= Cardinality(InUse(h)) + 1
  BY <1>2, <1>3, RetriedFollows, FollowsByOne
<1>6. UNCHANGED pc
  BY DEF TimeoutFires, task
<1> QED
  BY <1>4, <1>5, <1>6, AttemptsAre, FinitelyManyTimers

LEMMA AutoWaitsInit == Init => AutoWaits
BY DEF Init, AutoWaits

LEMMA AutoWaitsNext == TypeOK /\ AutoWaits /\ [Next]_vars => AutoWaits'
<1> SUFFICES ASSUME TypeOK, AutoWaits, [Next]_vars
             PROVE  AutoWaits'
  OBVIOUS
<1>1. CASE UNCHANGED <<up, auto>>
  BY <1>1 DEF AutoWaits
<1>2. CASE AutofetchFires
  <2>1. up
    BY <1>2 DEF AutofetchFires, AutoWaits, Off
  <2> QED
    BY <1>2, <2>1 DEF AutofetchFires, Enter, AutoWaits
<1>3. CASE WorkFn
  BY <1>3 DEF WorkFn, AutoWaits
<1>4. CASE Tick
  BY <1>4 DEF Tick, Quiet, AutoWaits
<1>5. CASE Reboot
  BY <1>5 DEF Reboot, AutoWaits
<1>6. CASE AppFetch \/ ShotFires \/ TimeoutFires
  BY <1>6 DEF AppFetch, ShotFires, TimeoutFires, Enter, AutoWaits
<1>7. CASE \E t \in Task : Call(t)
  BY <1>7 DEF Call, Publish, Track, Register, Arm, AutoWaits
<1>8. CASE \E id \in MsgId : Answer(id) \/ Puback(id)
  BY <1>8 DEF Answer, Puback, AutoWaits
<1>9. CASE Connect \/ Disconnect \/ UrlHandler \/ HandleTime
  BY <1>9 DEF Connect, Disconnect, UrlHandler, HandleTime, AutoWaits
<1> QED
  BY <1>1, <1>2, <1>3, <1>4, <1>5, <1>6, <1>7, <1>8, <1>9 DEF Next, Progress, vars

LEMMA NextDoesNotMultiply ==
  TypeOK /\ AutoWaits /\ [Next]_vars =>
     [Attempts' > Attempts =>
           calls' # calls \/ auto' > auto \/ (queued /\ ~queued')]_vars
<1> SUFFICES ASSUME TypeOK, AutoWaits, Next
             PROVE  \/ Attempts' <= Attempts
                    \/ calls' # calls \/ auto' > auto \/ (queued /\ ~queued')
  BY AttemptsAre
<1>1. CASE \E t \in Task : Call(t)
  BY <1>1, CallAddsNone
<1>2. CASE ShotFires
  BY <1>2, ShotAddsNone
<1>3. CASE AutofetchFires
  BY <1>3, FetchAssumption DEF AutofetchFires
<1>4. CASE TimeoutFires
  BY <1>4, TimeoutAddsNone
<1>5. CASE \E id \in MsgId : Answer(id) \/ Puback(id)
  <2>1. UNCHANGED pc /\ (UNCHANGED fetch \/ fetch' = Cleaned(fetch))
    BY <1>5 DEF Answer, Puback, task
  <2>2. InUse(fetch') \subseteq InUse(fetch)
    BY <2>1, CleanedKeeps DEF TypeOK
  <2> QED
    BY <2>1, <2>2, SameAttempts
<1>6. CASE Connect \/ Disconnect \/ UrlHandler
  BY <1>6, SameAttempts DEF Connect, Disconnect, UrlHandler, task
<1>7. CASE HandleTime
  BY <1>7 DEF HandleTime
<1>8. CASE WorkFn
  BY <1>8, FetchAssumption DEF WorkFn, AutoWaits, Off
<1>9. CASE Tick
  <2>1. UNCHANGED pc /\ InUse(fetch') = InUse(fetch)
    BY <1>9, OlderTimers DEF Tick, Quiet, task, TypeOK
  <2> QED
    BY <2>1, SameAttempts
<1>10. CASE AppFetch
  BY <1>10, FetchAssumption DEF AppFetch
<1>11. CASE Reboot
  <2>1. InUse(fetch') = {} /\ Asking(pc') = {}
    BY <1>11, FreshEnds DEF Reboot, Asking
  <2> QED
    BY <2>1, FS_EmptySet, AttemptsAre
<1> QED
  BY <1>1, <1>2, <1>3, <1>4, <1>5, <1>6, <1>7, <1>8, <1>9, <1>10, <1>11
     DEF Next, Progress

(* For any memory and any number of ids: whatever fails, times out or is     *)
(* acknowledged, a request leaves at most one behind that is to be made      *)
(* (ota_fetch_schedule_retry), whichever tasks run esp_rmaker_ota_fetch.     *)
THEOREM FailuresDoNotMultiply == Spec => RetriesDoNotMultiply
<1>1. Spec => []RequestsEnd
  BY RequestsComeToAnEnd
<1>2. RequestsEnd => TypeOK
  BY DEF RequestsEnd
<1>3. Spec => []TypeOK
  BY <1>1, <1>2, PTL
<1>4. Spec => [](TypeOK /\ AutoWaits)
  BY <1>3, AutoWaitsInit, AutoWaitsNext, PTL DEF Spec
<1> QED
  BY <1>4, NextDoesNotMultiply, PTL DEF Spec, RetriesDoNotMultiply

-----------------------------------------------------------------------------
(* A job that was put off is started on time.                               *)

(* A job is handled from the time it is queued until it is put off: no other *)
(* one is taken meanwhile.                                                   *)
BusyIsQueued == job = "wanted" => (busy <=> queued)

(* The timer ends before the job may start, or before the window opens, so   *)
(* that it is over when it may.                                              *)
Due(s) ==
    /\ fetch.shots[s] > 0
    /\ \/ fetch.shots[s] <= toStart
       \/ /\ fetch.shots[s] <= Day /\ from # NoTime
          /\ \A k \in 0 .. fetch.shots[s] - 1 : ~Open(Later(clock, k), from, to)

(* The job will be looked at, at once or when it is due.                     *)
OnItsWay == \/ requests # {} \/ urls > 0 \/ queued
            \/ \E s \in Timer : Due(s)

InTouch == synced /\ conn

SentIsUnderway ==
    \A t \in Task : pc[t] = "sent" => mid[t] \in requests \cup acks

ProgressIsUnderway ==
    fetch.inProgress =>
       /\ fetch.expected \in requests \cup acks
       /\ \/ fetch.handler
          \/ \E t \in Task : pc[t] = "tracked" /\ mid[t] = fetch.expected

RequestLeads ==
    job = "wanted" /\ (fetch.inProgress \/ acks # {}) => OnItsWay

StartLeads ==
    job = "wanted" /\ up => \/ OnItsWay
                            \/ \E t \in Task : pc[t] = "publish"
                            \/ \E s \in Timer : fetch.shots[s] = 0

OnTrack == InTouch /\ SentIsUnderway /\ ProgressIsUnderway
           /\ RequestLeads /\ StartLeads

InTime == /\ faults \in Nat /\ BusyIsQueued
          /\ Smooth => OnTrack

LEMMA FaultsShow ==
  ASSUME faults \in Nat, Fault
  PROVE  faults' \in Nat /\ faults' # 0
BY DEF Fault

(* Timers that go on as they were are due as they were.                      *)
LEMMA StaysOnItsWay ==
  ASSUME OnItsWay, UNCHANGED <<clock, toStart, from, to>>,
         requests = {} \/ requests' # {}, urls = 0 \/ urls' = urls, urls \in Nat,
         ~queued \/ queued',
         \A s \in Timer : fetch.shots[s] > 0 => fetch'.shots[s] = fetch.shots[s]
  PROVE  OnItsWay'
<1>1. ASSUME NEW s \in Timer, Due(s)
      PROVE  Due(s)'
  BY <1>1 DEF Due
<1>2. CASE \E s \in Timer : Due(s)
  BY <1>1, <1>2 DEF OnItsWay
<1> QED
  BY <1>2 DEF OnItsWay

LEMMA FollowsKeepsShots ==
  ASSUME NEW f \in FetchState, NEW g, Follows(f, g)
  PROVE  /\ \A s \in Timer : f.shots[s] > 0 => g.shots[s] = f.shots[s]
         /\ \A s \in Timer : f.shots[s] = 0 => g.shots[s] = 0
BY DEF Follows, FetchState, Unused

LEMMA FollowsKeepsProgress ==
  ASSUME Follows(fetch, fetch'), ProgressIsUnderway,
         UNCHANGED <<requests, acks>>,
         \A t \in Task : pc[t] = "tracked" => pc'[t] = "tracked" /\ mid'[t] = mid[t]
  PROVE  ProgressIsUnderway'
BY DEF Follows, ProgressIsUnderway

LEMMA EnterOnTrack ==
  ASSUME RequestsEnd, OnTrack, job = "wanted", NEW t \in Task,
         NEW f \in FetchState, TimersOK(f),
         f.inProgress = fetch.inProgress, f.expected = fetch.expected,
         f.handler = fetch.handler,
         \A s \in Timer : fetch.shots[s] > 0 => f.shots[s] = fetch.shots[s],
         Enter(t, f)
  PROVE  OnTrack'
<1>1. /\ UNCHANGED <<clock, toStart, from, to, synced, conn, mid, requests, acks,
                     urls, queued, job, up>>
      /\ conn /\ urls \in Nat
  BY DEF Enter, OnTrack, InTouch, time, theJob, network, ota, RequestsEnd, TypeOK
<1>2. CASE f.inProgress /\ fetch' = f /\ UNCHANGED pc
  <2>1. OnItsWay'
    BY <1>1, <1>2, StaysOnItsWay DEF OnTrack, RequestLeads
  <2> QED
    BY <1>1, <1>2, <2>1 DEF OnTrack, InTouch, SentIsUnderway, ProgressIsUnderway,
       RequestLeads, StartLeads
<1>3. CASE /\ ~f.inProgress /\ fetch' = [f EXCEPT !.expected = None]
           /\ pc[t] = "idle" /\ pc' = [pc EXCEPT ![t] = "publish"]
  <2>1. ~fetch'.inProgress /\ fetch'.shots = f.shots
    BY <1>3 DEF FetchState
  <2>2. OnItsWay => OnItsWay'
    BY <1>1, <2>1, StaysOnItsWay
  <2>3. pc'[t] = "publish" /\ \A u \in Task \ {t} : pc'[u] = pc[u]
    BY <1>3 DEF RequestsEnd, TypeOK
  <2> QED
    BY <1>1, <2>1, <2>2, <2>3 DEF OnTrack, InTouch, SentIsUnderway,
       ProgressIsUnderway, RequestLeads, StartLeads
<1> QED
  BY <1>1, <1>2, <1>3 DEF Enter

LEMMA PublishInTime ==
  ASSUME RequestsEnd, InTime, job = "wanted", NEW t \in Task, Publish(t), Smooth'
  PROVE  OnTrack'
<1>1. /\ faults' = faults
      /\ \E id \in FreeId : requests' = requests \cup {id}
                            /\ mid' = [mid EXCEPT ![t] = id]
      /\ pc' = [pc EXCEPT ![t] = "sent"] /\ pc[t] = "publish" /\ UNCHANGED fetch
      /\ UNCHANGED <<synced, prompt, conn, acks>>
  BY FaultsShow DEF Publish, Smooth, InTime, time
<1>2. OnTrack
  BY <1>1 DEF InTime, Smooth
<1>3. PICK id \in FreeId : requests' = requests \cup {id}
                           /\ mid' = [mid EXCEPT ![t] = id]
  BY <1>1
<1>4. /\ pc'[t] = "sent" /\ mid'[t] = id
      /\ \A u \in Task \ {t} : pc'[u] = pc[u] /\ mid'[u] = mid[u]
  BY <1>1, <1>3 DEF RequestsEnd, TypeOK
<1>5. OnItsWay'
  BY <1>3 DEF OnItsWay
<1> QED
  BY <1>1, <1>2, <1>3, <1>4, <1>5 DEF OnTrack, InTouch, SentIsUnderway,
     ProgressIsUnderway, RequestLeads, StartLeads

LEMMA TrackInTime ==
  ASSUME RequestsEnd, InTime, job = "wanted", NEW t \in Task, Track(t), Smooth'
  PROVE  OnTrack'
<1>1. /\ pc[t] = "sent" /\ pc' = [pc EXCEPT ![t] = "tracked"]
      /\ fetch' = [fetch EXCEPT !.expected = mid[t], !.inProgress = TRUE]
      /\ UNCHANGED <<clock, toStart, from, to, synced, prompt, conn, mid, requests,
                     acks, urls, queued, job, up, faults>>
      /\ fetch \in FetchState /\ urls \in Nat
  BY DEF Track, time, theJob, network, ota, bounds, RequestsEnd, TypeOK
<1>2. /\ fetch'.expected = mid[t] /\ fetch'.shots = fetch.shots
      /\ fetch'.full = fetch.full
  BY <1>1 DEF FetchState
<1>3. OnTrack
  BY <1>1, <1>2 DEF InTime, Smooth
<1>4. mid[t] \in requests \cup acks
  BY <1>1, <1>3 DEF OnTrack, SentIsUnderway
<1>5. OnItsWay
  BY <1>3, <1>4 DEF OnTrack, RequestLeads, OnItsWay
<1>6. OnItsWay'
  BY <1>1, <1>2, <1>5, StaysOnItsWay
<1>7. pc'[t] = "tracked" /\ \A u \in Task \ {t} : pc'[u] = pc[u]
  BY <1>1 DEF RequestsEnd, TypeOK
<1> QED
  BY <1>1, <1>2, <1>3, <1>4, <1>6, <1>7 DEF OnTrack, InTouch, SentIsUnderway,
     ProgressIsUnderway, RequestLeads, StartLeads

LEMMA RegisterInTime ==
  ASSUME RequestsEnd, InTime, job = "wanted", NEW t \in Task, Register(t), Smooth'
  PROVE  OnTrack'
<1>1. /\ pc[t] = "tracked" /\ pc' = [pc EXCEPT ![t] = "registered"]
      /\ fetch' = [fetch EXCEPT !.handler = TRUE,
                                !.leaked = IF fetch.handler THEN @ + 1 ELSE @]
      /\ UNCHANGED <<clock, toStart, from, to, synced, prompt, conn, mid, requests,
                     acks, urls, queued, job, up, faults>>
  BY FaultsShow DEF Register, time, theJob, network, ota, Smooth, InTime
<1>2. fetch \in FetchState /\ urls \in Nat
  BY DEF RequestsEnd, TypeOK
<1>3. /\ fetch'.handler /\ fetch'.inProgress = fetch.inProgress
      /\ fetch'.expected = fetch.expected /\ fetch'.shots = fetch.shots
      /\ fetch'.full = fetch.full
  BY <1>1, <1>2, RegisteredKeeps
<1>4. OnTrack
  BY <1>1, <1>3 DEF InTime, Smooth
<1>5. OnItsWay => OnItsWay'
  BY <1>1, <1>2, <1>3, StaysOnItsWay
<1>6. pc'[t] = "registered" /\ \A u \in Task \ {t} : pc'[u] = pc[u]
  BY <1>1 DEF RequestsEnd, TypeOK
<1> QED
  BY <1>1, <1>3, <1>4, <1>5, <1>6 DEF OnTrack, InTouch, SentIsUnderway,
     ProgressIsUnderway, RequestLeads, StartLeads

LEMMA ArmInTime ==
  ASSUME RequestsEnd, InTime, job = "wanted", NEW t \in Task, Arm(t), Smooth'
  PROVE  OnTrack'
<1>1. /\ pc[t] = "registered" /\ pc' = [pc EXCEPT ![t] = "idle"]
      /\ mid' = [mid EXCEPT ![t] = None]
      /\ UNCHANGED <<clock, toStart, from, to, synced, prompt, conn, requests,
                     acks, urls, queued, job, up, faults>>
  BY DEF Arm, time, theJob, network, ota, bounds
<1>2. fetch \in FetchState /\ TimersOK(fetch) /\ urls \in Nat
  BY DEF RequestsEnd, TypeOK
<1>3. CASE Room(fetch)
  <2>1. fetch' = [fetch EXCEPT !.timer = Spare(fetch), !.timeouts[Spare(fetch)] = 1]
    BY <1>3 DEF Arm
  <2>2. /\ fetch'.inProgress = fetch.inProgress /\ fetch'.shots = fetch.shots
        /\ fetch'.expected = fetch.expected /\ fetch'.handler = fetch.handler
        /\ fetch'.full = fetch.full
    BY <1>2, <1>3, <2>1, ArmedTimer
  <2>3. OnTrack
    BY <1>1, <2>2 DEF InTime, Smooth
  <2>4. OnItsWay => OnItsWay'
    BY <1>1, <1>2, <2>2, StaysOnItsWay
  <2>5. /\ pc'[t] = "idle"
        /\ \A u \in Task \ {t} : pc'[u] = pc[u] /\ mid'[u] = mid[u]
    BY <1>1 DEF RequestsEnd, TypeOK
  <2> QED
    BY <1>1, <2>2, <2>3, <2>4, <2>5 DEF OnTrack, InTouch, SentIsUnderway,
       ProgressIsUnderway, RequestLeads, StartLeads
<1>4. CASE ~Room(fetch)
  <2>1. fetch' = [Failed(Cleaned(fetch)) EXCEPT !.full = TRUE]
    BY <1>4 DEF Arm
  <2>2. fetch'.full
    BY <1>2, <2>1, CleanedFails, FullFollows DEF Follows
  <2> QED
    BY <2>2 DEF Smooth
<1> QED
  BY <1>3, <1>4

LEMMA EnterSmooth ==
  ASSUME NEW t \in Task, NEW f \in FetchState, TimersOK(f), f.full = fetch.full,
         Enter(t, f), Smooth'
  PROVE  Smooth
<1>1. UNCHANGED <<prompt, faults>>
  BY DEF Enter, time
<1>2. f.full => fetch'.full
  <2>1. CASE fetch' = Failed(f)
    BY <2>1, FailedFollows DEF Follows
  <2>2. CASE fetch' = f \/ fetch' = [f EXCEPT !.expected = None]
    BY <2>2 DEF FetchState
  <2> QED
    BY <2>1, <2>2 DEF Enter
<1> QED
  BY <1>1, <1>2 DEF Smooth

LEMMA TimerTaskInTime ==
  ASSUME RequestsEnd, InTime, job = "wanted", Smooth',
         ShotFires \/ AutofetchFires \/ AppFetch
  PROVE  OnTrack'
<1>t. fetch \in FetchState /\ TimersOK(fetch) /\ {"timer", "app"} \subseteq Task
  BY DEF RequestsEnd, TypeOK, Task
<1>1. CASE ShotFires
  <2>1. PICK s \in Timer : /\ fetch.shots[s] = 0
                           /\ Enter("timer", [fetch EXCEPT !.shots[s] = Unused])
    BY <1>1 DEF ShotFires
  <2> DEFINE f == [fetch EXCEPT !.shots[s] = Unused]
  <2>2. /\ f \in FetchState /\ TimersOK(f) /\ f.inProgress = fetch.inProgress
        /\ f.expected = fetch.expected /\ f.handler = fetch.handler
        /\ f.full = fetch.full
        /\ \A u \in Timer \ {s} : f.shots[u] = fetch.shots[u]
    BY <1>t, <2>1, FiredShot
  <2>3. Enter("timer", f)
    BY <2>1
  <2> HIDE DEF f
  <2>4. OnTrack
    BY <1>t, <2>2, <2>3, EnterSmooth DEF InTime
  <2>5. \A u \in Timer : fetch.shots[u] > 0 => f.shots[u] = fetch.shots[u]
    BY <2>1, <2>2
  <2> QED
    BY <1>t, <2>2, <2>3, <2>4, <2>5, EnterOnTrack
<1>2. CASE AutofetchFires
  <2>1. Enter("timer", fetch)
    BY <1>2 DEF AutofetchFires
  <2>2. OnTrack
    BY <1>t, <2>1, EnterSmooth DEF InTime
  <2> QED
    BY <1>t, <2>1, <2>2, EnterOnTrack
<1>3. CASE AppFetch
  <2>1. Enter("app", fetch)
    BY <1>3 DEF AppFetch
  <2>2. OnTrack
    BY <1>t, <2>1, EnterSmooth DEF InTime
  <2> QED
    BY <1>t, <2>1, <2>2, EnterOnTrack
<1> QED
  BY <1>1, <1>2, <1>3

LEMMA TimeoutInTime ==
  ASSUME RequestsEnd, InTime, job = "wanted", TimeoutFires, Smooth'
  PROVE  OnTrack'
<1>1. PICK s \in Timer :
         /\ fetch.timeouts[s] = 0
         /\ fetch' = Retried([Dropped([fetch EXCEPT !.timeouts[s] = Unused])
                                EXCEPT !.inProgress = FALSE, !.handler = FALSE])
  BY DEF TimeoutFires
<1> DEFINE h == [Dropped([fetch EXCEPT !.timeouts[s] = Unused])
                   EXCEPT !.inProgress = FALSE, !.handler = FALSE]
<1>2. /\ h \in FetchState /\ TimersOK(h) /\ ~h.inProgress
      /\ h.shots = fetch.shots /\ h.full = fetch.full
  BY <1>1, FiredTimeout DEF RequestsEnd, TypeOK
<1>3. fetch' = Retried(h)
  BY <1>1
<1> HIDE DEF h
<1>4. Follows(h, fetch')
  BY <1>2, <1>3, RetriedFollows
<1>5. /\ ~fetch'.inProgress
      /\ fetch.full => fetch'.full
      /\ \A u \in Timer : fetch.shots[u] > 0 => fetch'.shots[u] = fetch.shots[u]
      /\ \A u \in Timer : fetch.shots[u] = 0 => fetch'.shots[u] = 0
  BY <1>2, <1>4, FollowsKeepsShots DEF Follows
<1>6. /\ UNCHANGED <<clock, toStart, from, to, synced, prompt, conn, pc, mid,
                     requests, acks, urls, queued, job, up, faults>>
      /\ urls \in Nat
  BY DEF TimeoutFires, time, theJob, task, network, ota, bounds, RequestsEnd, TypeOK
<1>7. OnTrack
  BY <1>5, <1>6 DEF InTime, Smooth
<1>8. OnItsWay => OnItsWay'
  BY <1>5, <1>6, StaysOnItsWay
<1> QED
  BY <1>5, <1>6, <1>7, <1>8 DEF OnTrack, InTouch, SentIsUnderway,
     ProgressIsUnderway, RequestLeads, StartLeads

(* An acknowledgement ends the request that it is for, and no other.        *)
LEMMA PubackInTime ==
  ASSUME RequestsEnd, InTime, job = "wanted", NEW id \in MsgId, Puback(id), Smooth'
  PROVE  OnTrack'
<1>1. /\ acks' = acks \ {id} /\ id \in acks
      /\ UNCHANGED <<clock, toStart, from, to, synced, prompt, conn, pc, mid,
                     requests, urls, queued, job, up>>
      /\ fetch \in FetchState /\ TimersOK(fetch) /\ urls \in Nat
  BY DEF Puback, time, theJob, task, ota, RequestsEnd, TypeOK
<1>2. id \notin Range(mid) /\ UNCHANGED faults
  BY FaultsShow DEF Puback, Smooth, InTime
<1>3. \A t \in Task : mid[t] # id
  BY <1>2 DEF Range, RequestsEnd, TypeOK
<1>4. \/ fetch' = fetch /\ (fetch.expected = id => ~fetch.handler)
      \/ fetch' = Cleaned(fetch)
  BY DEF Puback
<1>5. /\ fetch'.shots = fetch.shots /\ fetch'.full = fetch.full
      /\ fetch'.inProgress => /\ fetch' = fetch
                              /\ fetch.expected = id => ~fetch.handler
  BY <1>1, <1>4, CleanedKeeps
<1>6. OnTrack
  BY <1>1, <1>2, <1>5 DEF InTime, Smooth
<1>7. OnItsWay => OnItsWay'
  BY <1>1, <1>5, StaysOnItsWay
<1>8. ProgressIsUnderway'
  <2> SUFFICES ASSUME fetch'.inProgress
               PROVE  /\ fetch'.expected \in requests' \cup acks'
                      /\ \/ fetch'.handler
                         \/ \E t \in Task : pc'[t] = "tracked"
                                            /\ mid'[t] = fetch'.expected
    BY DEF ProgressIsUnderway
  <2>1. /\ fetch.expected \in requests \cup acks
        /\ \/ fetch.handler
           \/ \E t \in Task : pc[t] = "tracked" /\ mid[t] = fetch.expected
    BY <1>5, <1>6 DEF OnTrack, ProgressIsUnderway
  <2>2. fetch.expected # id
    BY <1>3, <1>5, <2>1
  <2> QED
    BY <1>1, <1>5, <2>1, <2>2
<1>9. SentIsUnderway'
  BY <1>1, <1>3, <1>6 DEF OnTrack, SentIsUnderway
<1> QED
  BY <1>1, <1>5, <1>6, <1>7, <1>8, <1>9 DEF OnTrack, InTouch, RequestLeads, StartLeads

LEMMA NetworkInTime ==
  ASSUME RequestsEnd, InTime, job = "wanted", Smooth',
         \/ \E id \in MsgId : Answer(id)
         \/ Connect \/ Disconnect \/ UrlHandler \/ Reboot
  PROVE  OnTrack'
<1>t. urls \in Nat /\ busy \in BOOLEAN /\ queued \in BOOLEAN
  BY DEF RequestsEnd, TypeOK
<1>1. CASE \E id \in MsgId : Answer(id)
  <2>1. PICK id \in MsgId : Answer(id)
    BY <1>1
  <2>2. /\ requests' = requests \ {id} /\ acks' = acks \cup {id} /\ id \in requests
        /\ urls' = urls + 1
        /\ UNCHANGED <<synced, prompt, conn, fetch, pc, mid, job, up, faults>>
    BY <2>1 DEF Answer, time, theJob, task, bounds
  <2>3. OnTrack
    BY <2>2 DEF InTime, Smooth
  <2>4. OnItsWay'
    BY <1>t, <2>2 DEF OnItsWay
  <2> QED
    BY <2>2, <2>3, <2>4 DEF OnTrack, InTouch, SentIsUnderway, ProgressIsUnderway,
       RequestLeads, StartLeads
<1>2. CASE Connect
  <2>1. Smooth /\ ~conn
    BY <1>2 DEF Connect, Smooth, time, bounds
  <2> QED
    BY <2>1 DEF InTime, OnTrack, InTouch
<1>3. CASE Disconnect
  BY <1>3, FaultsShow DEF Disconnect, Smooth, InTime
<1>4. CASE UrlHandler
  <2>1. /\ faults' = faults
        /\ UNCHANGED <<synced, prompt, conn, fetch, pc, mid, requests, acks, job, up>>
        /\ queued'
    BY <1>t, <1>4, FaultsShow DEF UrlHandler, time, theJob, task, ota, Smooth, InTime,
       BusyIsQueued
  <2>2. OnTrack
    BY <2>1 DEF InTime, Smooth
  <2>3. OnItsWay'
    BY <2>1 DEF OnItsWay
  <2> QED
    BY <2>1, <2>2, <2>3 DEF OnTrack, InTouch, SentIsUnderway, ProgressIsUnderway,
       RequestLeads, StartLeads
<1>5. CASE Reboot
  BY <1>5, FaultsShow DEF Reboot, Smooth, InTime
<1> QED
  BY <1>1, <1>2, <1>3, <1>4, <1>5

(* A delay is no longer than the job has to wait, whatever it is put off for. *)
LEMMA PutOffOnItsWay ==
  ASSUME RequestsEnd, synced, HandleTime, UNCHANGED job, job = "wanted",
         ~fetch'.full
  PROVE  OnItsWay'
<1>1. PICK delay \in Nat \ {0} :
         /\ fetch' = Delayed(fetch, delay)
         /\ \/ delay <= toStart
            \/ /\ from \in Minute /\ to \in Minute
               /\ delay = DelayToWindow(clock, from, to)
               /\ ~Open(clock, from, to) /\ delay \in 1 .. Day - 1
  BY PutOffInTime
<1>2. PICK s \in Timer : fetch'.shots[s] = delay
  BY <1>1, DelayedFollows DEF RequestsEnd, TypeOK
<1>3. /\ UNCHANGED <<clock, toStart, from, to>> /\ clock \in Minute
  BY DEF HandleTime, time, RequestsEnd, TypeOK
<1>4. CASE delay <= toStart
  BY <1>2, <1>3, <1>4 DEF OnItsWay, Due
<1>5. CASE /\ from \in Minute /\ to \in Minute
           /\ delay = DelayToWindow(clock, from, to)
           /\ ~Open(clock, from, to) /\ delay \in 1 .. Day - 1
  <2>1. \A k \in 0 .. delay - 1 : ~Open(Later(clock, k), from, to)
    BY <1>3, <1>5, NoOpeningIsMissed
  <2>2. from # NoTime
    BY <1>5 DEF Minute, NoTime
  <2>3. delay > 0 /\ delay <= Day
    BY <1>5, DayAssumption
  <2> QED
    BY <1>2, <1>3, <2>1, <2>2, <2>3 DEF OnItsWay, Due
<1> QED
  BY <1>1, <1>4, <1>5

LEMMA HandleTimeInTime ==
  ASSUME RequestsEnd, InTime, job = "wanted", HandleTime, Smooth'
  PROVE  OnTrack'
<1>1. /\ UNCHANGED <<synced, prompt, conn, pc, mid, requests, acks, up, faults>>
      /\ fetch \in FetchState /\ TimersOK(fetch)
  BY DEF HandleTime, time, task, network, bounds, RequestsEnd, TypeOK
<1>2. \/ UNCHANGED fetch /\ job' # "wanted"
      \/ Follows(fetch, fetch') /\ UNCHANGED job
  BY <1>1, PutOffInTime, DelayedFollows
<1>3. Smooth /\ OnTrack
  BY <1>1, <1>2 DEF InTime, Smooth, Follows
<1>4. ProgressIsUnderway'
  BY <1>1, <1>2, <1>3, FollowsKeepsProgress DEF OnTrack, ProgressIsUnderway
<1>5. job' = "wanted" => OnItsWay'
  BY <1>2, <1>3, PutOffOnItsWay DEF OnTrack, InTouch, Smooth
<1> QED
  BY <1>1, <1>3, <1>4, <1>5 DEF OnTrack, InTouch, SentIsUnderway, RequestLeads, StartLeads

LEMMA WorkFnInTime ==
  ASSUME RequestsEnd, InTime, job = "wanted", WorkFn, Smooth'
  PROVE  OnTrack'
<1>1. /\ UNCHANGED <<clock, toStart, from, to, synced, prompt, conn, pc, mid,
                     requests, acks, urls, queued, job, faults>>
      /\ fetch \in FetchState /\ TimersOK(fetch) /\ urls \in Nat
      /\ fetch' = Delayed(fetch, 0)
  BY DEF WorkFn, time, theJob, task, network, ota, bounds, RequestsEnd, TypeOK
<1>2. /\ Follows(fetch, fetch')
      /\ fetch'.full \/ \E s \in Timer : fetch'.shots[s] = 0
  BY <1>1, DelayedFollows
<1>3. OnTrack
  BY <1>1, <1>2 DEF InTime, Smooth, Follows
<1>4. ProgressIsUnderway'
  BY <1>1, <1>2, <1>3, FollowsKeepsProgress DEF OnTrack
<1>5. OnItsWay => OnItsWay'
  <2>1. \A s \in Timer : fetch.shots[s] > 0 => fetch'.shots[s] = fetch.shots[s]
    BY <1>1, <1>2, FollowsKeepsShots
  <2> QED
    BY <1>1, <2>1, StaysOnItsWay
<1>6. fetch'.inProgress => fetch.inProgress
  BY <1>2 DEF Follows
<1> QED
  BY <1>1, <1>2, <1>3, <1>4, <1>5, <1>6 DEF OnTrack, InTouch, SentIsUnderway,
     RequestLeads, StartLeads, Smooth

(* When nothing is left to do at a time, a delay is under way that is due.   *)
LEMMA QuietIsDue ==
  ASSUME OnTrack, Quiet, job = "wanted"
  PROVE  \E s \in Timer : Due(s)
<1>1. OnItsWay
  BY DEF OnTrack, StartLeads, Quiet
<1> QED
  BY <1>1 DEF OnItsWay, Quiet, OnTrack, InTouch

LEMMA LaterByOne ==
  ASSUME NEW now \in Minute, NEW k \in Nat, k + 1 <= Day
  PROVE  Later(Later(now, 1), k) = Later(now, k + 1)
BY DayAssumption DEF Minute, Later

LEMMA TickInTime ==
  ASSUME RequestsEnd, InTime, job = "wanted", Tick, Smooth'
  PROVE  OnTrack'
<1>1. /\ acks = {} /\ conn /\ requests = {}
      /\ synced' = TRUE /\ clock' = Later(clock, 1)
      /\ toStart' = (IF toStart > 0 THEN toStart - 1 ELSE 0)
      /\ fetch' = [fetch EXCEPT !.shots = Older(@), !.timeouts = Older(@)]
      /\ UNCHANGED <<prompt, from, to, job, up, conn, pc, mid, requests, acks, urls,
                     queued, faults>>
      /\ \A t \in Timer : fetch.shots[t] # 0 /\ fetch.timeouts[t] # 0
      /\ \A t \in Task : pc[t] = "idle"
  BY FaultsShow DEF Tick, Quiet, theJob, task, network, ota, Smooth, InTime
<1>2. /\ fetch \in FetchState /\ TimersOK(fetch) /\ clock \in Minute /\ toStart \in Nat
  BY DEF RequestsEnd, TypeOK
<1>3. /\ fetch'.inProgress = fetch.inProgress /\ fetch'.full = fetch.full
      /\ \A t \in Timer : fetch.shots[t] # Unused =>
                             fetch'.shots[t] = fetch.shots[t] - 1
  BY <1>1, <1>2, OlderTimers
<1>4. OnTrack
  BY <1>1, <1>3 DEF InTime, Smooth
<1>5. PICK s \in Timer : Due(s)
  BY <1>4, QuietIsDue DEF Tick
<1>6. /\ fetch.shots[s] \in Nat \ {0} /\ fetch'.shots[s] = fetch.shots[s] - 1
  BY <1>2, <1>3, <1>5 DEF Due, FetchState, Unused
<1>7. fetch'.shots[s] = 0 \/ Due(s)'
  <2> SUFFICES ASSUME fetch'.shots[s] # 0
               PROVE  Due(s)'
    OBVIOUS
  <2>1. fetch'.shots[s] > 0
    BY <1>6
  <2>2. CASE fetch.shots[s] <= toStart
    BY <1>1, <1>2, <1>6, <2>1, <2>2 DEF Due
  <2>3. CASE /\ fetch.shots[s] <= Day /\ from # NoTime
             /\ \A k \in 0 .. fetch.shots[s] - 1 : ~Open(Later(clock, k), from, to)
    <3>1. ASSUME NEW k \in 0 .. fetch'.shots[s] - 1
          PROVE  ~Open(Later(clock', k), from', to')
      <4>1. k \in Nat /\ k + 1 \in 0 .. fetch.shots[s] - 1 /\ k + 1 <= Day
        BY <1>6, <2>3, DayAssumption
      <4>2. Later(clock', k) = Later(clock, k + 1)
        BY <1>1, <1>2, <4>1, LaterByOne
      <4> QED
        BY <1>1, <2>3, <4>1, <4>2
    <3>2. fetch'.shots[s] <= Day
      BY <1>6, <2>3, DayAssumption
    <3> QED
      BY <1>1, <2>1, <2>3, <3>1, <3>2 DEF Due
  <2> QED
    BY <1>5, <2>2, <2>3 DEF Due
<1>8. ~fetch'.inProgress
  BY <1>1, <1>3, <1>4 DEF OnTrack, ProgressIsUnderway
<1> QED
  BY <1>1, <1>4, <1>7, <1>8 DEF OnTrack, InTouch, SentIsUnderway, ProgressIsUnderway,
     RequestLeads, StartLeads, OnItsWay

LEMMA InTimeInit == Init => InTime
<1> SUFFICES ASSUME Init
             PROVE  InTime
  OBVIOUS
<1>1. ~fetch.inProgress
  BY DEF Init, Fresh
<1>2. \A t \in Task : pc[t] = "idle"
  BY DEF Init
<1> QED
  BY <1>1, <1>2 DEF Init, InTime, BusyIsQueued, Smooth, OnTrack, InTouch,
     SentIsUnderway, ProgressIsUnderway, RequestLeads, StartLeads

LEMMA CountsAndQueues ==
  ASSUME TypeOK, InTime, Next
  PROVE  faults' \in Nat /\ BusyIsQueued'
<1>1. faults \in Nat /\ job = "wanted" /\ (busy <=> queued)
      /\ busy \in BOOLEAN /\ queued \in BOOLEAN
  BY DEF InTime, BusyIsQueued, Next, TypeOK
<1>2. CASE UNCHANGED ota /\ (UNCHANGED faults \/ Fault)
  BY <1>1, <1>2, FaultsShow DEF ota, BusyIsQueued
<1>3. CASE UrlHandler
  BY <1>1, <1>3, FaultsShow DEF UrlHandler, BusyIsQueued, ota
<1>4. CASE HandleTime
  BY <1>1, <1>4 DEF HandleTime, PutOff, Refused, BusyIsQueued, bounds
<1>5. CASE Reboot
  BY <1>1, <1>5, FaultsShow DEF Reboot, BusyIsQueued
<1>6. CASE \E t \in Task : Call(t)
  BY <1>2, <1>6 DEF Call, Publish, Track, Register, Arm, bounds
<1>7. CASE AppFetch \/ ShotFires \/ AutofetchFires \/ TimeoutFires
  BY <1>2, <1>7 DEF AppFetch, ShotFires, AutofetchFires, TimeoutFires, Enter, bounds
<1>8. CASE \E id \in MsgId : Answer(id) \/ Puback(id)
  BY <1>2, <1>8 DEF Answer, Puback, bounds
<1>9. CASE Connect \/ Disconnect \/ WorkFn \/ Tick
  BY <1>2, <1>9 DEF Connect, Disconnect, WorkFn, Tick, bounds
<1> QED
  BY <1>3, <1>4, <1>5, <1>6, <1>7, <1>8, <1>9 DEF Next, Progress

LEMMA InTimeNext == RequestsEnd /\ InTime /\ [Next]_vars => InTime'
<1> SUFFICES ASSUME RequestsEnd, InTime, [Next]_vars
             PROVE  InTime'
  OBVIOUS
<1>1. ASSUME Next, Smooth'
      PROVE  OnTrack'
  <2>1. job = "wanted"
    BY <1>1 DEF Next
  <2>2. CASE \E t \in Task : Call(t)
    BY <1>1, <2>1, <2>2, PublishInTime, TrackInTime, RegisterInTime, ArmInTime DEF Call
  <2>3. CASE ShotFires \/ AutofetchFires \/ AppFetch
    BY <1>1, <2>1, <2>3, TimerTaskInTime
  <2>4. CASE TimeoutFires
    BY <1>1, <2>1, <2>4, TimeoutInTime
  <2>5. CASE \E id \in MsgId : Puback(id)
    BY <1>1, <2>1, <2>5, PubackInTime
  <2>6. CASE \/ \E id \in MsgId : Answer(id)
             \/ Connect \/ Disconnect \/ UrlHandler \/ Reboot
    BY <1>1, <2>1, <2>6, NetworkInTime
  <2>7. CASE HandleTime
    BY <1>1, <2>1, <2>7, HandleTimeInTime
  <2>8. CASE WorkFn
    BY <1>1, <2>1, <2>8, WorkFnInTime
  <2>9. CASE Tick
    BY <1>1, <2>1, <2>9, TickInTime
  <2> QED
    BY <1>1, <2>2, <2>3, <2>4, <2>5, <2>6, <2>7, <2>8, <2>9 DEF Next, Progress
<1>2. CASE Next
  BY <1>1, <1>2, CountsAndQueues DEF InTime, RequestsEnd
<1>3. CASE UNCHANGED vars
  BY <1>3 DEF vars, time, theJob, task, network, ota, bounds, InTime, BusyIsQueued,
     Smooth, OnTrack, InTouch, SentIsUnderway, ProgressIsUnderway, RequestLeads,
     StartLeads, OnItsWay, Due
<1> QED
  BY <1>2, <1>3

(* A delay that is due has not reached the time at which the job may start.  *)
LEMMA DueIsEarly ==
  ASSUME TypeOK, NEW s \in Timer, Due(s)
  PROVE  ~Startable
<1>1. clock \in Minute /\ fetch.shots[s] \in Nat \cup {Unused} /\ toStart \in Nat
  BY DEF TypeOK, FetchState
<1>2. CASE fetch.shots[s] <= toStart
  BY <1>1, <1>2 DEF Due, Startable, Unused
<1>3. CASE /\ from # NoTime
           /\ \A k \in 0 .. fetch.shots[s] - 1 : ~Open(Later(clock, k), from, to)
  <2>1. 0 \in 0 .. fetch.shots[s] - 1
    BY <1>1 DEF Due, Unused
  <2>2. Later(clock, 0) = clock
    BY <1>1, DayAssumption DEF Later, Minute
  <2> QED
    BY <1>3, <2>1, <2>2 DEF Startable
<1> QED
  BY <1>2, <1>3 DEF Due

LEMMA OnlyTicksTakeTime ==
  ASSUME Next, clock' # clock
  PROVE  Tick
<1>1. CASE \E t \in Task : Call(t)
  BY <1>1 DEF Call, Publish, Track, Register, Arm, time
<1>2. CASE AppFetch \/ ShotFires \/ AutofetchFires \/ TimeoutFires
  BY <1>2 DEF AppFetch, ShotFires, AutofetchFires, TimeoutFires, Enter, time
<1>3. CASE \E id \in MsgId : Answer(id) \/ Puback(id)
  BY <1>3 DEF Answer, Puback, time
<1>4. CASE Connect \/ Disconnect \/ UrlHandler \/ HandleTime \/ WorkFn \/ Reboot
  BY <1>4 DEF Connect, Disconnect, UrlHandler, HandleTime, WorkFn, Reboot, time
<1> QED
  BY <1>1, <1>2, <1>3, <1>4 DEF Next, Progress

LEMMA NextIsPunctual ==
  RequestsEnd /\ InTime /\ [Next]_vars =>
     [clock' # clock /\ Smooth => ~Startable]_vars
<1> SUFFICES ASSUME RequestsEnd, InTime, Next, clock' # clock, Smooth
             PROVE  ~Startable
  OBVIOUS
<1>1. Quiet /\ job = "wanted"
  BY OnlyTicksTakeTime DEF Tick, Next
<1>2. PICK s \in Timer : Due(s)
  BY <1>1, QuietIsDue DEF InTime
<1> QED
  BY <1>2, DueIsEarly DEF RequestsEnd

(* For dates of any distance, any window and any period: a job that waits    *)
(* while nothing goes wrong is started at the first time at which it may be  *)
(* (esp_rmaker_ota_handle_time and the timers that it leaves), whichever     *)
(* requests of the autofetch, the application or a retry come between.       *)
THEOREM JobsStartOnTime == Spec => Punctual
<1>1. Spec => [](RequestsEnd /\ InTime)
  BY RequestsEndInit, RequestsEndNext, InTimeInit, InTimeNext, PTL DEF Spec
<1> QED
  BY <1>1, NextIsPunctual, PTL DEF Spec, Punctual

=============================================================================
