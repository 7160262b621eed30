------------------------------ MODULE MqttProofs ------------------------------
(***************************************************************************)
(* What holds of a node on MQTT.  Of the budget, for any finite set of     *)
(* publishing tasks, any budget and any revival count: the types, mutual   *)
(* exclusion on the mutex, and, for the metered form, the bound on the     *)
(* messages sent.  Of the group of a node and what the broker shows of it, *)
(* for any groups, any number of changes, lost connections, failures and   *)
(* restarts.                                                               *)
(***************************************************************************)
EXTENDS MqttBudgetMeter, Connectivity, FiniteSetTheorems, TLAPS

-----------------------------------------------------------------------------
(* The budget.                                                              *)

(* Every value a step leaves behind has its type; the clamps of             *)
(* esp_rmaker_mqtt_increase_budget and _decrease_budget keep the counter in *)
(* 0..MaxBudget.                                                            *)
LEMMA StepTypeOK == TypeOK /\ [Next]_vars => TypeOK'
<1> SUFFICES ASSUME TypeOK, [Next]_vars PROVE TypeOK'
  OBVIOUS
<1> USE BudgetAssumption DEF TypeOK, Location, Goto
<1>1. ASSUME NEW p \in Publisher,
             TakeForCheck(p) \/ PassUnchecked(p) \/ ReadAndGive(p)
      PROVE  TypeOK'
  BY <1>1 DEF TakeForCheck, PassUnchecked, ReadAndGive
<1>2. ASSUME NEW p \in Publisher, Sent(p) \/ SendFailed(p)
      PROVE  TypeOK'
  BY <1>2 DEF Sent, SendFailed
<1>3. ASSUME NEW p \in Publisher,
             TakeForCharge(p) \/ SkipCharge(p) \/ DecreaseAndGive(p)
      PROVE  TypeOK'
  BY <1>3 DEF TakeForCharge, SkipCharge, DecreaseAndGive
<1>4. CASE TakeForRevive \/ IncreaseAndGive
  BY <1>4 DEF TakeForRevive, IncreaseAndGive
<1>5. CASE MqttInit \/ MqttConnect \/ MqttDisconnect \/ MqttDeinit
  BY <1>5 DEF MqttInit, MqttConnect, MqttDisconnect, MqttDeinit
<1>6. CASE UNCHANGED vars
  BY <1>6 DEF vars
<1> QED
  BY <1>1, <1>2, <1>3, <1>4, <1>5, <1>6 DEF Next

(* The counter, the mutex, the timer and every task stay in their ranges.   *)
THEOREM BudgetTypeCorrect == Spec => []TypeOK
<1>1. Init => TypeOK
  BY BudgetAssumption DEF Init, TypeOK, Location
<1> QED
  BY <1>1, StepTypeOK, PTL DEF Spec

-----------------------------------------------------------------------------
(* A step that takes the mutex finds nobody inside, a step that gives it    *)
(* back leaves nobody inside, and every other step changes nobody's place   *)
(* inside.                                                                  *)
LEMMA StepMutualExclusion ==
    TypeOK /\ MutualExclusion /\ [Next]_vars => MutualExclusion'
<1> SUFFICES ASSUME TypeOK, MutualExclusion, [Next]_vars
             PROVE  MutualExclusion'
  OBVIOUS
<1> USE DEF TypeOK, MutualExclusion, InSection, Location, Goto
<1>1. ASSUME NEW p \in Publisher, TakeForCheck(p) \/ TakeForCharge(p)
      PROVE  MutualExclusion'
  <2>1. InSection = {} /\ tpc = "idle" /\ lock' = "held" /\ tpc' = tpc
       /\ agent # "off" /\ agent' = agent
    BY <1>1 DEF TakeForCheck, TakeForCharge
  <2>2. InSection' = {p}
    BY <1>1, <2>1 DEF TakeForCheck, TakeForCharge
  <2> QED
    BY <2>1, <2>2
<1>2. ASSUME NEW p \in Publisher, ReadAndGive(p) \/ DecreaseAndGive(p)
      PROVE  MutualExclusion'
  <2>1. InSection = {p} /\ tpc = "idle" /\ lock' = "free" /\ tpc' = tpc
       /\ agent # "off" /\ agent' = agent
    BY <1>2 DEF ReadAndGive, DecreaseAndGive
  <2>2. InSection' = {}
    BY <1>2, <2>1 DEF ReadAndGive, DecreaseAndGive
  <2> QED
    BY <2>1, <2>2
<1>3. ASSUME NEW p \in Publisher,
             PassUnchecked(p) \/ Sent(p) \/ SendFailed(p) \/ SkipCharge(p)
      PROVE  MutualExclusion'
  <2>1. InSection' = InSection /\ lock' = lock /\ tpc' = tpc /\ agent' = agent
    BY <1>3 DEF PassUnchecked, Sent, SendFailed, SkipCharge
  <2> QED
    BY <2>1
<1>4. CASE TakeForRevive \/ IncreaseAndGive
  BY <1>4 DEF TakeForRevive, IncreaseAndGive
<1>5. CASE MqttInit \/ MqttConnect \/ MqttDisconnect \/ MqttDeinit
  <2>1. InSection' = InSection /\ tpc' = tpc
    BY <1>5 DEF MqttInit, MqttConnect, MqttDisconnect, MqttDeinit
  <2>2. CASE MqttConnect \/ MqttDisconnect
    BY <2>1, <2>2 DEF MqttConnect, MqttDisconnect
  <2>3. CASE MqttDeinit
    BY <2>1, <2>3 DEF MqttDeinit
  <2>4. CASE MqttInit
    BY <2>1, <2>4 DEF MqttInit
  <2> QED
    BY <1>5, <2>2, <2>3, <2>4
<1>6. CASE UNCHANGED vars
  BY <1>6 DEF vars
<1> QED
  BY <1>1, <1>2, <1>3, <1>4, <1>5, <1>6 DEF Next

(* Nobody's read-clamp-write of mqtt_budget is ever interleaved with        *)
(* another's, whatever the number of tasks.                                 *)
THEOREM BudgetMutualExclusion == Spec => []MutualExclusion
<1>1. Init => TypeOK /\ MutualExclusion
  BY BudgetAssumption
  DEF Init, TypeOK, Location, MutualExclusion, InSection
<1> QED
  BY <1>1, StepTypeOK, StepMutualExclusion, PTL DEF Spec

-----------------------------------------------------------------------------
(* One publisher entering or leaving a group changes its size by one.       *)
LEMMA GroupSizes ==
    ASSUME TypeOK
    PROVE  /\ IsFiniteSet(Sending) /\ Cardinality(Sending) \in Nat
           /\ IsFiniteSet(Owing) /\ Cardinality(Owing) \in Nat
           /\ Cardinality(Publisher) \in Nat
           /\ Cardinality(Sending) + Cardinality(Owing) <= Cardinality(Publisher)
<1>1. Sending \in SUBSET Publisher /\ Owing \in SUBSET Publisher
  BY DEF Sending, Owing
<1>2. IsFiniteSet(Sending) /\ IsFiniteSet(Owing)
  BY <1>1, FS_Subset, BudgetAssumption
<1>3. Sending \cap Owing = {} /\ Sending \cup Owing \in SUBSET Publisher
  BY DEF Sending, Owing
<1>4. Cardinality(Sending \cup Owing) = Cardinality(Sending) + Cardinality(Owing)
  <2>1. Cardinality(Sending \cap Owing) = 0
    BY <1>3, FS_EmptySet
  <2>2. Cardinality(Sending) \in Nat /\ Cardinality(Owing) \in Nat
    BY <1>2, FS_CardinalityType
  <2>3. Cardinality(Sending \cup Owing)
          = Cardinality(Sending) + Cardinality(Owing) - Cardinality(Sending \cap Owing)
    BY <1>2, FS_Union, Zenon
  <2> QED
    BY <2>1, <2>2, <2>3
<1>5. Cardinality(Sending \cup Owing) <= Cardinality(Publisher)
  BY <1>3, FS_Subset, BudgetAssumption
<1> QED
  BY <1>2, <1>4, <1>5, FS_CardinalityType, BudgetAssumption

LEMMA Join ==
    ASSUME NEW S, NEW T, NEW x, IsFiniteSet(S), x \notin S, T = S \cup {x}
    PROVE  Cardinality(T) = Cardinality(S) + 1
BY FS_AddElement

LEMMA Leave ==
    ASSUME NEW S, NEW T, NEW x, IsFiniteSet(S), x \in S, T = S \ {x}
    PROVE  Cardinality(T) = Cardinality(S) - 1
BY FS_RemoveElement

(* One unit less of n * a costs n.                                          *)
LEMMA Spend ==
    ASSUME NEW n \in Nat, NEW a \in Int, NEW b \in Nat \ {0}
    PROVE  n * (a - b) \in Int /\ n * a \in Int /\ n * (a - b) + n <= n * a
<1>1. n * (a - b) + n * b = n * a /\ n * (a - b) \in Int /\ n * a \in Int
  OBVIOUS
<1>2. n * b >= n /\ n * b \in Int
  OBVIOUS
<1> QED
  BY <1>1, <1>2

(* With Balance at hand, the rate bound is arithmetic.                      *)
LEMMA BalanceBounds == TypeOK /\ MeterTypeOK /\ Balance => RateBound
<1> SUFFICES ASSUME TypeOK, MeterTypeOK, Balance PROVE RateBound
  OBVIOUS
<1> DEFINE N == Cardinality(Publisher)
<1>1. /\ Cardinality(Sending) \in Nat /\ Cardinality(Owing) \in Nat /\ N \in Nat
      /\ Cardinality(Sending) + Cardinality(Owing) <= N
  BY GroupSizes
<1>2. budget \in Nat
  BY BudgetAssumption DEF TypeOK
<1> HIDE DEF N
<1>3. N * granted \in Int
  BY <1>1 DEF MeterTypeOK
<1>4. CASE budget = 0
  <2>1. sent + Cardinality(Sending) <= N * granted + unmetered
    BY <1>4 DEF Balance, N
  <2> QED
    BY <1>1, <1>3, <2>1 DEF RateBound, MeterTypeOK, N
<1>5. CASE budget > 0
  <2>1. sent - Cardinality(Owing) <= N * (granted - budget) + unmetered
    BY <1>5 DEF Balance, N
  <2>2. N * (granted - budget) + N <= N * granted /\ N * (granted - budget) \in Int
    BY <1>1, <1>2, <1>5, Spend DEF MeterTypeOK
  <2> QED
    BY <1>1, <1>3, <2>1, <2>2 DEF RateBound, MeterTypeOK, N
<1> QED
  BY <1>2, <1>4, <1>5

(* A metered step is a step of the budget, so the lemmas above apply to it. *)
LEMMA MeteredStepIsStep == [MeteredNext]_<<vars, meter>> => [Next]_vars
BY DEF MeteredNext, Metered, Next, vars

LEMMA StepMeterTypeOK ==
    TypeOK /\ MeterTypeOK /\ [MeteredNext]_<<vars, meter>> => MeterTypeOK'
<1> SUFFICES ASSUME TypeOK, MeterTypeOK, [MeteredNext]_<<vars, meter>>
             PROVE  MeterTypeOK'
  OBVIOUS
<1>1. CASE IncreaseAndGive /\ granted' = granted + (budget' - budget)
                           /\ UNCHANGED <<sent, unmetered>>
  <2>1. budget' >= budget /\ budget \in Nat /\ budget' \in Nat
    BY <1>1, BudgetAssumption DEF IncreaseAndGive, TypeOK
  <2>2. granted' = granted + (budget' - budget) /\ sent' = sent
        /\ unmetered' = unmetered /\ granted \in Nat
    BY <1>1 DEF MeterTypeOK
  <2>3. \A a, b, c \in Nat : c >= b => a + (c - b) \in Nat
    OBVIOUS
  <2>4. granted' \in Nat
    BY <2>1, <2>2, <2>3
  <2> QED
    BY <2>2, <2>4 DEF MeterTypeOK
<1>2. CASE \E p \in Publisher : Metered(p)
  BY <1>2 DEF Metered, MeterTypeOK, meter
<1>3. CASE UNCHANGED meter
  BY <1>3 DEF meter, MeterTypeOK
<1> QED
  BY <1>1, <1>2, <1>3 DEF MeteredNext

-----------------------------------------------------------------------------
(* What each publisher's step does to the two groups.                       *)
LEMMA PublisherMoves ==
    ASSUME TypeOK, NEW p \in Publisher
    PROVE  /\ TakeForCheck(p) \/ TakeForCharge(p)
                => Sending' = Sending /\ Owing' = Owing
           /\ PassUnchecked(p)
                => p \notin Sending /\ Sending' = Sending \cup {p} /\ Owing' = Owing
           /\ ReadAndGive(p) /\ budget = 0
                => Sending' = Sending /\ Owing' = Owing
           /\ ReadAndGive(p) /\ budget > 0
                => p \notin Sending /\ Sending' = Sending \cup {p} /\ Owing' = Owing
           /\ Sent(p) => /\ p \in Sending /\ Sending' = Sending \ {p}
                         /\ p \notin Owing /\ Owing' = Owing \cup {p}
           /\ SendFailed(p)
                => p \in Sending /\ Sending' = Sending \ {p} /\ Owing' = Owing
           /\ SkipCharge(p) \/ DecreaseAndGive(p)
                => Sending' = Sending /\ p \in Owing /\ Owing' = Owing \ {p}
<1> USE DEF Sending, Owing, Goto, TypeOK, Location
<1>1. TakeForCheck(p) \/ TakeForCharge(p) => Sending' = Sending /\ Owing' = Owing
  BY DEF TakeForCheck, TakeForCharge
<1>2. PassUnchecked(p)
        => p \notin Sending /\ Sending' = Sending \cup {p} /\ Owing' = Owing
  BY DEF PassUnchecked
<1>3. ReadAndGive(p) /\ budget = 0 => Sending' = Sending /\ Owing' = Owing
  BY DEF ReadAndGive
<1>4. ReadAndGive(p) /\ budget > 0
        => p \notin Sending /\ Sending' = Sending \cup {p} /\ Owing' = Owing
  BY DEF ReadAndGive
<1>5. Sent(p) => /\ p \in Sending /\ Sending' = Sending \ {p}
                 /\ p \notin Owing /\ Owing' = Owing \cup {p}
  BY DEF Sent
<1>6. SendFailed(p)
        => p \in Sending /\ Sending' = Sending \ {p} /\ Owing' = Owing
  BY DEF SendFailed
<1>7. SkipCharge(p) \/ DecreaseAndGive(p)
        => Sending' = Sending /\ p \in Owing /\ Owing' = Owing \ {p}
  BY DEF SkipCharge, DecreaseAndGive
<1> QED
  BY <1>1, <1>2, <1>3, <1>4, <1>5, <1>6, <1>7

(* The sizes after such a step.                                             *)
LEMMA PublisherSizes ==
    ASSUME TypeOK, NEW p \in Publisher
    PROVE  /\ TakeForCheck(p) \/ TakeForCharge(p)
                => /\ Cardinality(Sending)' = Cardinality(Sending)
                   /\ Cardinality(Owing)' = Cardinality(Owing)
           /\ PassUnchecked(p)
                => /\ Cardinality(Sending)' = Cardinality(Sending) + 1
                   /\ Cardinality(Owing)' = Cardinality(Owing)
           /\ ReadAndGive(p)
                => /\ budget = 0 => Cardinality(Sending)' = Cardinality(Sending)
                   /\ Cardinality(Owing)' = Cardinality(Owing)
           /\ Sent(p)
                => /\ Cardinality(Sending)' = Cardinality(Sending) - 1
                   /\ Cardinality(Owing)' = Cardinality(Owing) + 1
           /\ SendFailed(p)
                => /\ Cardinality(Sending)' = Cardinality(Sending) - 1
                   /\ Cardinality(Owing)' = Cardinality(Owing)
           /\ SkipCharge(p) \/ DecreaseAndGive(p)
                => /\ Cardinality(Sending)' = Cardinality(Sending)
                   /\ Cardinality(Owing)' = Cardinality(Owing) - 1
<1>1. IsFiniteSet(Sending) /\ IsFiniteSet(Owing)
  BY GroupSizes
<1>2. budget = 0 \/ budget > 0
  BY BudgetAssumption DEF TypeOK
<1> QED
  BY <1>1, <1>2, PublisherMoves, Join, Leave

-----------------------------------------------------------------------------
(* Every metered step keeps the balance.  The budget and what was granted   *)
(* move together except when a unit is spent, and a unit is worth one       *)
(* message for each publisher.                                              *)
LEMMA StepBalance ==
    TypeOK /\ MeterTypeOK /\ Balance /\ [MeteredNext]_<<vars, meter>> => Balance'
<1> SUFFICES ASSUME TypeOK, MeterTypeOK, Balance, [MeteredNext]_<<vars, meter>>
             PROVE  Balance'
  OBVIOUS
<1> DEFINE N == Cardinality(Publisher)
           S == Cardinality(Sending)
           O == Cardinality(Owing)
<1>1. S \in Nat /\ O \in Nat /\ N \in Nat /\ S + O <= N
  BY GroupSizes
<1>2. budget \in Nat /\ sent \in Nat /\ granted \in Nat /\ unmetered \in Nat
  BY BudgetAssumption DEF TypeOK, MeterTypeOK
<1>3. N * granted \in Int /\ N * (granted - budget) \in Int
  BY <1>1, <1>2
<1>4. /\ budget = 0 => sent + S <= N * granted + unmetered
      /\ budget > 0 => sent - O <= N * (granted - budget) + unmetered
  BY DEF Balance
<1>5. SUFFICES /\ budget' = 0 => sent' + S' <= N * granted' + unmetered'
               /\ budget' > 0 => sent' - O' <= N * (granted' - budget') + unmetered'
  BY DEF Balance
<1>6. ASSUME NEW p \in Publisher, Metered(p), ~ DecreaseAndGive(p)
      PROVE  /\ budget' = 0 => sent' + S' <= N * granted' + unmetered'
             /\ budget' > 0 => sent' - O' <= N * (granted' - budget') + unmetered'
  <2>1. granted' = granted /\ budget' = budget
    BY <1>6 DEF Metered, meter, TakeForCheck, ReadAndGive, SendFailed,
                TakeForCharge, PassUnchecked, SkipCharge, Sent
  <2>2. CASE (TakeForCheck(p) \/ TakeForCharge(p)) /\ UNCHANGED meter
    <3>1. S' = S /\ O' = O
      BY <2>2, PublisherSizes
    <3> HIDE DEF N, S, O
    <3> QED
      BY <1>4, <2>1, <2>2, <3>1 DEF meter
  <2>3. CASE ReadAndGive(p) /\ UNCHANGED meter
    <3>1. (budget = 0 => S' = S) /\ O' = O
      BY <2>3, PublisherSizes
    <3> HIDE DEF N, S, O
    <3> QED
      BY <1>4, <2>1, <2>3, <3>1 DEF meter
  <2>4. CASE SendFailed(p) /\ UNCHANGED meter
    <3>1. S' = S - 1 /\ O' = O
      BY <2>4, PublisherSizes
    <3> HIDE DEF N, S, O
    <3> QED
      BY <1>1, <1>2, <1>3, <1>4, <2>1, <2>4, <3>1 DEF meter
  <2>5. CASE PassUnchecked(p) /\ unmetered' = unmetered + 1 /\ sent' = sent
    <3>1. S' = S + 1 /\ O' = O
      BY <2>5, PublisherSizes
    <3> HIDE DEF N, S, O
    <3> QED
      BY <1>1, <1>2, <1>3, <1>4, <2>1, <2>5, <3>1
  <2>6. CASE SkipCharge(p) /\ unmetered' = unmetered + 1 /\ sent' = sent
    <3>1. S' = S /\ O' = O - 1
      BY <2>6, PublisherSizes
    <3> HIDE DEF N, S, O
    <3> QED
      BY <1>1, <1>2, <1>3, <1>4, <2>1, <2>6, <3>1
  <2>7. CASE Sent(p) /\ sent' = sent + 1 /\ unmetered' = unmetered
    <3>1. S' = S - 1 /\ O' = O + 1
      BY <2>7, PublisherSizes
    <3> HIDE DEF N, S, O
    <3> QED
      BY <1>1, <1>2, <1>3, <1>4, <2>1, <2>7, <3>1
  <2> QED
    BY <1>6, <2>2, <2>3, <2>4, <2>5, <2>6, <2>7 DEF Metered
<1>7. ASSUME NEW p \in Publisher, DecreaseAndGive(p), UNCHANGED meter
      PROVE  /\ budget' = 0 => sent' + S' <= N * granted' + unmetered'
             /\ budget' > 0 => sent' - O' <= N * (granted' - budget') + unmetered'
  <2>1. S' = S /\ O' = O - 1 /\ N >= 1
    <3>1. N # 0
      BY BudgetAssumption, FS_EmptySet
    <3> QED
      BY <1>1, <1>7, <3>1, PublisherSizes
  <2>2. sent' = sent /\ granted' = granted /\ unmetered' = unmetered
    BY <1>7 DEF meter
  <2>3. budget' = IF budget < 1 THEN 0 ELSE budget - 1
    BY <1>7 DEF DecreaseAndGive
  <2> HIDE DEF N, S, O
  <2>4. CASE budget = 0
    BY <1>4, <2>1, <2>2, <2>3, <2>4
  <2>5. CASE budget = 1
    <3>1. N * (granted - 1) + N <= N * granted /\ N * (granted - 1) \in Int
      BY <1>1, <1>2, Spend
    <3> QED
      BY <1>1, <1>2, <1>3, <1>4, <2>1, <2>2, <2>3, <2>5, <3>1
  <2>6. CASE budget > 1
    <3>1. DEFINE left == granted - (budget - 1)
    <3>2. left \in Int /\ left - 1 = granted - budget
      BY <1>2
    <3>3. N * (left - 1) + N <= N * left /\ N * left \in Int
      BY <1>1, <3>2, Spend
    <3>4. N * (granted - budget) + N <= N * left
      BY <3>2, <3>3
    <3>5. budget' = budget - 1
      BY <1>2, <2>3, <2>6
    <3> HIDE DEF left
    <3>6. N * (granted' - budget') = N * left
      BY <2>2, <3>5 DEF left
    <3> QED
      BY <1>1, <1>2, <1>3, <1>4, <2>1, <2>2, <2>6, <3>3, <3>4, <3>5, <3>6
  <2> QED
    BY <1>2, <2>4, <2>5, <2>6
<1>8. CASE IncreaseAndGive /\ granted' = granted + (budget' - budget)
                           /\ UNCHANGED <<sent, unmetered>>
  <2>1. S' = S /\ O' = O
    BY <1>8 DEF IncreaseAndGive, Sending, Owing
  <2>2. budget' \in Nat /\ budget' > 0 /\ sent' = sent /\ unmetered' = unmetered
    BY <1>8, BudgetAssumption DEF IncreaseAndGive, TypeOK
  <2>3. granted' - budget' = granted - budget
    <3>1. \A a, b, c \in Nat : (a + (c - b)) - c = a - b
      OBVIOUS
    <3> QED
      BY <1>2, <1>8, <2>2, <3>1
  <2> HIDE DEF N, S, O
  <2>4. CASE budget = 0
    <3>1. N * (granted' - budget') = N * granted
      BY <1>2, <2>3, <2>4
    <3> QED
      BY <1>1, <1>2, <1>3, <1>4, <2>1, <2>2, <2>4, <3>1
  <2>5. CASE budget > 0
    <3>1. N * (granted' - budget') = N * (granted - budget)
      BY <2>3
    <3> QED
      BY <1>4, <2>1, <2>2, <2>5, <3>1
  <2> QED
    BY <1>2, <2>4, <2>5
<1>9. CASE /\ UNCHANGED meter
           /\ TakeForRevive \/ MqttInit \/ MqttConnect \/ MqttDisconnect
              \/ MqttDeinit \/ UNCHANGED vars
  <2>1. pc' = pc /\ budget' = budget
    BY <1>9 DEF TakeForRevive, MqttInit, MqttConnect, MqttDisconnect, MqttDeinit, vars
  <2>2. S' = S /\ O' = O
    BY <2>1 DEF Sending, Owing
  <2> HIDE DEF N, S, O
  <2> QED
    BY <1>4, <1>9, <2>1, <2>2 DEF meter
<1>10. ASSUME NEW p \in Publisher, Metered(p), DecreaseAndGive(p)
       PROVE  UNCHANGED meter
  BY <1>10 DEF Metered, PassUnchecked, SkipCharge, Sent, DecreaseAndGive
<1> HIDE DEF N, S, O
<1>11. CASE \E p \in Publisher : Metered(p)
  BY <1>6, <1>7, <1>10, <1>11
<1>12. CASE MeteredNext
  BY <1>8, <1>9, <1>11, <1>12 DEF MeteredNext
<1> QED
  BY <1>9, <1>12 DEF meter, vars

(* The number of messages that leave the node is bounded by the budget it   *)
(* was granted times the number of its publishing tasks, plus the bypasses. *)
THEOREM MeteredRateBound == MeteredSpec => []RateBound
<1>1. MeteredInit => TypeOK /\ MeterTypeOK /\ Balance
  <2> SUFFICES ASSUME MeteredInit PROVE TypeOK /\ MeterTypeOK /\ Balance
    OBVIOUS
  <2>1. TypeOK /\ MeterTypeOK
    BY BudgetAssumption
    DEF MeteredInit, Init, TypeOK, Location, MeterTypeOK
  <2>2. Owing = {} /\ budget > 0 /\ granted - budget = 0 /\ sent = 0 /\ unmetered = 0
    BY BudgetAssumption DEF MeteredInit, Init, Owing
  <2>3. Cardinality(Owing) = 0 /\ Cardinality(Publisher) * 0 = 0
    BY <2>1, <2>2, FS_EmptySet, GroupSizes
  <2>4. Balance
    BY <2>2, <2>3 DEF Balance
  <2> QED
    BY <2>1, <2>4
<1> QED
  BY <1>1, MeteredStepIsStep, StepTypeOK, StepMeterTypeOK, StepBalance,
     BalanceBounds, PTL DEF MeteredSpec

-----------------------------------------------------------------------------
(* The inductive invariant.  OneGroup speaks of a node whose parameters are *)
(* set up; before that the group in RAM is the stored one or none, and      *)
(* what OneGroup says of the topics holds all the same.                     *)

ActiveIsStored ==
    /\ active \in {NoGroup, stored}
    /\ init = "done" => active = stored

OwnTopicOnly ==
    /\ active \in subs \cup {NoGroup} \/ lapse = "error"
    /\ subs \subseteq {active} \cup stuck

IInv == NodeTypeOK /\ ActiveIsStored /\ OwnTopicOnly

-----------------------------------------------------------------------------
(* What UpdateLwt returns, given the work queue before it.                  *)
LEMMA LwtTypes ==
    ASSUME NodeTypeOK, NEW id \in Topic,
           NEW q \in Seq({"init", "reconnect"}), Len(q) <= QueueSize,
           UpdateLwt(id, q)
    PROVE  /\ current' \in Topic /\ lwt' \in Topic
           /\ lapse' \in {"none", "offline", "error"}
           /\ queue' \in Seq({"init", "reconnect"}) /\ Len(queue') <= QueueSize
<1>1. CASE Unchanged(id, q)
  BY <1>1 DEF NodeTypeOK, Unchanged
<1>2. CASE Rejected(id, q)
  BY <1>2 DEF NodeTypeOK, Rejected, Topic
<1>3. CASE Configured(id, q)
  <2>1. CASE Len(q) < QueueSize /\ queue' = Append(q, "reconnect")
    BY <1>3, <2>1, ConnectivityAssumption DEF NodeTypeOK, Configured
  <2>2. CASE queue' = q
    BY <1>3, <2>2 DEF NodeTypeOK, Configured
  <2> QED BY <1>3, <2>1, <2>2 DEF Configured
<1> QED BY <1>1, <1>2, <1>3 DEF UpdateLwt

(* Whatever calls fail, a node that takes up a group has it in NVS and in   *)
(* RAM, and leaves no topic behind but those it could not leave.            *)
LEMMA Registered ==
    ASSUME IInv, NEW id \in Topic,
           NEW q \in Seq({"init", "reconnect"}), Len(q) <= QueueSize,
           Register(id, q)
    PROVE  /\ {stored', active', current', lwt'} \subseteq Topic
           /\ subs' \subseteq Group /\ stuck' \subseteq Topic
           /\ lapse' \in {"none", "offline", "error"}
           /\ queue' \in Seq({"init", "reconnect"}) /\ Len(queue') <= QueueSize
           /\ stored' = id /\ active' = id
           /\ OwnTopicOnly'
<1>1. PICK left \in BOOLEAN, joined \in BOOLEAN :
        LET kept == IF left THEN subs \ {active} ELSE subs
        IN  /\ stored' = id /\ active' = id
            /\ stuck' = IF left THEN stuck \ {active} ELSE stuck \cup {active}
            /\ subs' = IF joined THEN kept \cup ({id} \ {NoGroup}) ELSE kept
            /\ IF joined
               THEN UpdateLwt(id, q)
               ELSE /\ lapse' = "error" /\ queue' = q
                    /\ UNCHANGED <<current, lwt>>
  BY DEF Register
<1>2. /\ {stored', active'} \subseteq Topic
      /\ subs' \subseteq Group /\ stuck' \subseteq Topic
  BY <1>1 DEF IInv, NodeTypeOK, Topic
<1>3. /\ {current', lwt'} \subseteq Topic
      /\ lapse' \in {"none", "offline", "error"}
      /\ queue' \in Seq({"init", "reconnect"}) /\ Len(queue') <= QueueSize
  BY <1>1, LwtTypes DEF IInv, NodeTypeOK
<1>4. active' \in subs' \cup {NoGroup} \/ lapse' = "error"
  BY <1>1
<1>5. subs' \subseteq {active'} \cup stuck'
  BY <1>1 DEF IInv, OwnTopicOnly
<1> QED BY <1>1, <1>2, <1>3, <1>4, <1>5 DEF OwnTopicOnly

(* A report changes nothing but what the cloud shows.                       *)
LEMMA ReportTypes ==
    ASSUME NodeTypeOK, Report
    PROVE  cloud' \in {"none", "on", "off"} /\ dropped' \in BOOLEAN
BY DEF NodeTypeOK, Report, Fault

-----------------------------------------------------------------------------
LEMMA EnabledType == \A id \in Topic : Enabled(id) \in Topic
BY DEF Enabled, Topic

LEMMA InitIInv == NodeInit => IInv
<1> SUFFICES ASSUME NodeInit PROVE IInv
  OBVIOUS
<1>1. {stored, active, current, lwt, will} \subseteq Topic
  BY EnabledType DEF NodeInit, Topic
<1>2. /\ queue \in Seq({"init", "reconnect"}) /\ Len(queue) <= QueueSize
      /\ events \in Seq({"connected", "disconnected"})
  BY ConnectivityAssumption DEF NodeInit
<1>3. NodeTypeOK
  BY <1>1, <1>2 DEF NodeInit, NodeTypeOK
<1> QED BY <1>3 DEF NodeInit, IInv, ActiveIsStored, OwnTopicOnly

LEMMA NextIInv == IInv /\ [NodeNext]_nodeVars => IInv'
<1> SUFFICES ASSUME IInv, [NodeNext]_nodeVars
             PROVE  IInv'
  OBVIOUS
<1> USE DEF IInv
<1>1. ASSUME NEW id \in Topic, GroupWrite(id)
      PROVE  IInv'
  <2>1. queue \in Seq({"init", "reconnect"}) /\ Len(queue) <= QueueSize
    BY DEF NodeTypeOK
  <2>2. /\ {stored', active', current', lwt'} \subseteq Topic
        /\ subs' \subseteq Group /\ stuck' \subseteq Topic
        /\ lapse' \in {"none", "offline", "error"}
        /\ queue' \in Seq({"init", "reconnect"}) /\ Len(queue') <= QueueSize
        /\ stored' = id /\ active' = id
        /\ OwnTopicOnly'
    BY <1>1, <2>1, Registered DEF GroupWrite
  <2>3. NodeTypeOK'
    BY <1>1, <2>2 DEF GroupWrite, NodeTypeOK, node, client, broker
  <2> QED BY <2>2, <2>3 DEF ActiveIsStored
<1>2. CASE Connect
  <2>1. events' \in Seq({"connected", "disconnected"})
    BY <1>2 DEF Connect, NodeTypeOK
  <2>2. NodeTypeOK'
    BY <1>2, <2>1 DEF Connect, NodeTypeOK, group, node
  <2> QED BY <1>2, <2>2 DEF Connect, ActiveIsStored, OwnTopicOnly, group, node
<1>3. CASE Drop
  <2>1. events' \in Seq({"connected", "disconnected"})
    BY <1>3 DEF Drop, NodeTypeOK
  <2>2. NodeTypeOK'
    BY <1>3, <2>1 DEF Drop, NodeTypeOK, group, node, broker
  <2> QED BY <1>3, <2>2 DEF Drop, ActiveIsStored, OwnTopicOnly, group, node
<1>4. CASE Expire
  BY <1>4 DEF Expire, NodeTypeOK, ActiveIsStored, OwnTopicOnly, group, node, client
<1>5. CASE PublishWill
  BY <1>5
     DEF PublishWill, NodeTypeOK, ActiveIsStored, OwnTopicOnly, group, node, client
<1>6. CASE HandleEvent
  <2>1. events' \in Seq({"connected", "disconnected"})
    BY <1>6 DEF HandleEvent, NodeTypeOK
  <2>2. /\ flag' \in BOOLEAN /\ connectedTimer' \in BOOLEAN
        /\ init' \in {"no", "queued", "done"} /\ (init' = "done" => init = "done")
        /\ queue' \in Seq({"init", "reconnect"}) /\ Len(queue') <= QueueSize
        /\ UNCHANGED <<cloud, dropped>>
    <3>1. CASE Connected /\ init = "no" /\ Len(queue) < QueueSize
      <4>1. init' = "queued" /\ queue' = Append(queue, "init")
        BY <3>1 DEF Connected
      <4>2. queue \in Seq({"init", "reconnect"}) /\ Len(queue) \in Nat
        BY DEF NodeTypeOK
      <4>3. queue' \in Seq({"init", "reconnect"}) /\ Len(queue') = Len(queue) + 1
        BY <4>1, <4>2
      <4>4. Len(queue') <= QueueSize
        BY <3>1, <4>2, <4>3, ConnectivityAssumption
      <4> QED BY <3>1, <4>1, <4>3, <4>4 DEF Connected
    <3>2. CASE Connected /\ ~(init = "no" /\ Len(queue) < QueueSize)
      BY <3>2 DEF Connected, NodeTypeOK
    <3>3. CASE Disconnected
      BY <3>3 DEF Disconnected, NodeTypeOK
    <3> QED BY <1>6, <3>1, <3>2, <3>3 DEF HandleEvent
  <2>3. NodeTypeOK'
    BY <1>6, <2>1, <2>2 DEF HandleEvent, NodeTypeOK, group
  <2> QED
    BY <1>6, <2>2, <2>3 DEF HandleEvent, ActiveIsStored, OwnTopicOnly, group
<1>7. CASE TimerFires
  <2>1. cloud' \in {"none", "on", "off"} /\ dropped' \in BOOLEAN
    BY <1>7, ReportTypes DEF TimerFires, NodeTypeOK
  <2>2. NodeTypeOK'
    BY <1>7, <2>1 DEF TimerFires, NodeTypeOK, group, client
  <2> QED
    BY <1>7, <2>2 DEF TimerFires, ActiveIsStored, OwnTopicOnly, group
<1>8. CASE ParamsInit
  <2>1. Tail(queue) \in Seq({"init", "reconnect"}) /\ Len(Tail(queue)) <= QueueSize
    BY <1>8, ConnectivityAssumption DEF ParamsInit, NodeTypeOK
  <2>2. cloud' \in {"none", "on", "off"} /\ dropped' \in BOOLEAN
    BY <1>8, ReportTypes DEF ParamsInit
  <2>3. /\ {stored', active', current', lwt'} \subseteq Topic
        /\ subs' \subseteq Group /\ stuck' \subseteq Topic
        /\ lapse' \in {"none", "offline", "error"}
        /\ queue' \in Seq({"init", "reconnect"}) /\ Len(queue') <= QueueSize
        /\ active' = stored' /\ OwnTopicOnly'
    <3>1. CASE stored # NoGroup
      BY <1>8, <2>1, <3>1, Registered DEF ParamsInit, NodeTypeOK
    <3>2. CASE stored = NoGroup
      BY <1>8, <2>1, <3>2
         DEF ParamsInit, NodeTypeOK, ActiveIsStored, OwnTopicOnly, group
    <3> QED BY <3>1, <3>2
  <2>4. NodeTypeOK'
    BY <1>8, <2>2, <2>3 DEF ParamsInit, NodeTypeOK, client
  <2> QED BY <2>3, <2>4 DEF ActiveIsStored
<1>9. CASE ReconnectWork
  <2>1. queue' \in Seq({"init", "reconnect"}) /\ Len(queue') <= QueueSize
    BY <1>9, ConnectivityAssumption DEF ReconnectWork, NodeTypeOK
  <2>2. /\ will' \in Topic /\ up' \in BOOLEAN
        /\ events' \in Seq({"connected", "disconnected"})
        /\ session' \in Topic \cup {Closed} /\ late' \in BOOLEAN
        /\ lapse' \in {lapse, "error"}
    <3>1. CASE /\ will' = lwt /\ up' = FALSE
               /\ events' = IF up THEN Append(events, "disconnected") ELSE events
               /\ session' = IF up THEN Closed ELSE session
               /\ late' \in IF up THEN {late, TRUE} ELSE {late}
               /\ UNCHANGED lapse
      <4>1. events' \in Seq({"connected", "disconnected"})
        BY <3>1 DEF NodeTypeOK
      <4> QED BY <3>1, <4>1 DEF NodeTypeOK
    <3>2. CASE lapse' = "error" /\ UNCHANGED <<client, session, late>>
      BY <3>2 DEF NodeTypeOK, client
    <3> QED BY <1>9, <3>1, <3>2 DEF ReconnectWork
  <2>3. NodeTypeOK'
    BY <1>9, <2>1, <2>2 DEF ReconnectWork, NodeTypeOK, node
  <2> QED
    BY <1>9, <2>2, <2>3 DEF ReconnectWork, ActiveIsStored, OwnTopicOnly, node
<1>10. CASE Reboot
  <2>1. {stored', active', current', lwt', will'} \subseteq Topic
    BY <1>10, EnabledType DEF Reboot, NodeTypeOK, Topic
  <2>2. /\ queue' \in Seq({"init", "reconnect"}) /\ Len(queue') <= QueueSize
        /\ events' \in Seq({"connected", "disconnected"})
    BY <1>10, ConnectivityAssumption DEF Reboot
  <2>3. NodeTypeOK'
    BY <1>10, <2>1, <2>2 DEF Reboot, NodeTypeOK
  <2> QED BY <1>10, <2>3 DEF Reboot, ActiveIsStored, OwnTopicOnly
<1>11. CASE UNCHANGED nodeVars
  BY <1>11
     DEF nodeVars, group, node, client, broker, bounds, NodeTypeOK, ActiveIsStored,
         OwnTopicOnly
<1> QED
  BY <1>1, <1>2, <1>3, <1>4, <1>5, <1>6, <1>7, <1>8, <1>9, <1>10, <1>11 DEF NodeNext

(* A node is in one group: the one in RAM is the one in NVS, and the only    *)
(* one whose topic it subscribes to, but for calls that failed off line.     *)
THEOREM OneGroupKept == NodeSpec => []GroupIsOne
<1>1. IInv => GroupIsOne
  BY DEF IInv, GroupIsOne, OneGroup, ActiveIsStored, OwnTopicOnly
<1> QED BY <1>1, InitIInv, NextIInv, PTL DEF NodeSpec
-----------------------------------------------------------------------------
(* What the broker has of the node.                                         *)

(* The last event is about the connection as it is, and so is the flag once *)
(* every event is handled.                                                  *)
EventsEndWithUp ==
    IF events = <<>> THEN flag = up
    ELSE events[Len(events)] = "connected" <=> up

(* A connection whose event is handled and whose timer has fired has seen   *)
(* the wills of the connections before it, and was reported after them.     *)
Reported ==
    up /\ events = <<>> /\ ~connectedTimer =>
        /\ ~late
        /\ init = "done" /\ ~dropped => cloud = "on"

(* From the group to the will of the session, each copy follows the one     *)
(* before it unless the latest change is known to have been kept from it.   *)
SessionHasWill == up => session = will

WillFollows ==
    lapse = "none" =>
        /\ will = lwt \/ \E i \in 1 .. Len(queue) : queue[i] = "reconnect"
        /\ lwt = current
        /\ current = stored \/ (current = NoGroup /\ init # "done")

Right == EventsEndWithUp /\ Reported /\ SessionHasWill /\ WillFollows

(* Taking an event or a task leaves the last one last.                      *)
LEMMA TailKeepsLast ==
    ASSUME NEW S, NEW s \in Seq(S), s # <<>>
    PROVE  /\ Tail(s) # <<>> => Tail(s)[Len(Tail(s))] = s[Len(s)]
           /\ Tail(s) = <<>> => Head(s) = s[Len(s)]
<1>1. Len(s) \in Nat /\ Len(s) >= 1 /\ Len(Tail(s)) = Len(s) - 1 /\ Head(s) = s[1]
      /\ \A i \in 1 .. Len(Tail(s)) : Tail(s)[i] = s[i + 1]
  OBVIOUS
<1>2. ASSUME Tail(s) # <<>> PROVE Tail(s)[Len(Tail(s))] = s[Len(s)]
  <2>1. Len(Tail(s)) \in 1 .. Len(Tail(s)) /\ Len(Tail(s)) + 1 = Len(s)
    BY <1>1, <1>2
  <2> QED BY <2>1, <1>1
<1>3. ASSUME Tail(s) = <<>> PROVE Head(s) = s[Len(s)]
  <2>e. Len(<< >>) = 0
    OBVIOUS
  <2>1. Len(Tail(s)) = 0
    BY <2>e, <1>3, Zenon
  <2>2. Len(s) = 1
    BY <2>1, <1>1
  <2> QED BY <2>2, <1>1
<1> QED BY <1>2, <1>3

LEMMA AppendIsLast ==
    ASSUME NEW S, NEW s \in Seq(S), NEW e
    PROVE  Append(s, e) # <<>> /\ Append(s, e)[Len(Append(s, e))] = e
OBVIOUS

(* A group taken up is on its way to the session, or the lapse is noted.    *)
LEMMA RegisteredFollows ==
    ASSUME IInv, NEW id \in Topic,
           NEW q \in Seq({"init", "reconnect"}), Register(id, q),
           lapse = "none" => \/ will = lwt
                             \/ \E i \in 1 .. Len(q) : q[i] = "reconnect",
           lapse = "none" => lwt = current,
           will' = will
    PROVE  lapse' = "none" =>
                /\ will' = lwt' \/ \E i \in 1 .. Len(queue') : queue'[i] = "reconnect"
                /\ lwt' = current' /\ current' = stored'
<1>1. stored' = id /\ (UpdateLwt(id, q) \/ lapse' = "error")
  BY DEF Register
<1>2. CASE Unchanged(id, q)
  BY <1>1, <1>2 DEF Unchanged
<1>3. CASE Rejected(id, q) \/ lapse' = "error"
  BY <1>3 DEF Rejected
<1>4. CASE Configured(id, q)
  <2>1. lapse' = "none" => queue' = Append(q, "reconnect")
    BY <1>4 DEF Configured
  <2>2. lapse' = "none" => queue'[Len(q) + 1] = "reconnect" /\ Len(queue') = Len(q) + 1
                           /\ Len(q) \in Nat
    BY <2>1
  <2> QED BY <1>1, <1>4, <2>2 DEF Configured
<1> QED BY <1>1, <1>2, <1>3, <1>4 DEF UpdateLwt

LEMMA NextRight == IInv /\ Right /\ [NodeNext]_nodeVars => Right'
<1> SUFFICES ASSUME IInv, Right, [NodeNext]_nodeVars
             PROVE  Right'
  OBVIOUS
<1>t. /\ queue \in Seq({"init", "reconnect"}) /\ events \in Seq({"connected", "disconnected"})
      /\ late \in BOOLEAN /\ connectedTimer \in BOOLEAN /\ up \in BOOLEAN /\ flag \in BOOLEAN
  BY DEF IInv, NodeTypeOK
<1>1. ASSUME NEW id \in Topic, GroupWrite(id) PROVE Right'
  <2>1. WillFollows'
    BY <1>1, <1>t, RegisteredFollows DEF GroupWrite, Right, WillFollows, client
  <2> QED
    BY <1>1, <2>1 DEF GroupWrite, node, client, broker, Right, EventsEndWithUp, Reported,
       SessionHasWill
<1>2. CASE Connect \/ Drop
  <2>1. \/ up' /\ events' = Append(events, "connected") /\ session' = will
        \/ ~up' /\ events' = Append(events, "disconnected")
    BY <1>2 DEF Connect, Drop
  <2>2. EventsEndWithUp' /\ Reported'
    BY <2>1, <1>t, AppendIsLast DEF EventsEndWithUp, Reported
  <2> QED
    BY <1>2, <2>1, <2>2 DEF Connect, Drop, group, node, Right, SessionHasWill, WillFollows
<1>3. CASE Expire \/ PublishWill
  BY <1>3 DEF Expire, PublishWill, group, node, client, Right, EventsEndWithUp, Reported,
     SessionHasWill, WillFollows
<1>4. CASE HandleEvent
  <2>1. /\ events # <<>> /\ events' = Tail(events) /\ up' = up
        /\ Head(events) = "connected" => flag' = TRUE /\ connectedTimer'
        /\ Head(events) # "connected" => flag' = FALSE
    BY <1>4 DEF HandleEvent, Connected, Disconnected
  <2>2. EventsEndWithUp'
    <3>1. events[Len(events)] = "connected" <=> up
      BY <2>1 DEF Right, EventsEndWithUp
    <3>2. CASE events' = <<>>
      <4>1. Head(events) = events[Len(events)]
        BY <2>1, <3>2, <1>t, TailKeepsLast
      <4> QED BY <2>1, <3>1, <3>2, <4>1, <1>t DEF EventsEndWithUp
    <3>3. CASE events' # <<>>
      BY <2>1, <3>1, <3>3, <1>t, TailKeepsLast DEF EventsEndWithUp
    <3> QED BY <3>2, <3>3
  <2>3. Reported'
    BY <2>1, <1>t, TailKeepsLast DEF Right, EventsEndWithUp, Reported
  <2>4. WillFollows'
    <3>1. /\ UNCHANGED <<group, will>>
          /\ init' = "done" => init = "done"
          /\ queue' = queue \/ queue' = Append(queue, "init")
      BY <1>4 DEF HandleEvent, Connected, Disconnected
    <3>2. (\E i \in 1 .. Len(queue) : queue[i] = "reconnect")
             => \E i \in 1 .. Len(queue') : queue'[i] = "reconnect"
      BY <3>1, <1>t
    <3> QED BY <3>1, <3>2 DEF Right, WillFollows, group
  <2> QED BY <1>4, <2>2, <2>3, <2>4 DEF HandleEvent, Right, SessionHasWill
<1>5. CASE TimerFires
  <2>1. EventsEndWithUp' /\ SessionHasWill' /\ WillFollows'
    BY <1>5 DEF TimerFires, group, client, Right, EventsEndWithUp, SessionHasWill, WillFollows
  <2>2. Reported'
    BY <1>5, <1>t DEF TimerFires, Report, client, Right, EventsEndWithUp, Reported
  <2> QED BY <2>1, <2>2 DEF Right
<1>6. CASE ParamsInit
  <2>1. EventsEndWithUp' /\ SessionHasWill' /\ Reported'
    BY <1>6 DEF ParamsInit, Report, client, Right, EventsEndWithUp, SessionHasWill, Reported
  <2>2. (\E i \in 1 .. Len(queue) : queue[i] = "reconnect")
           => \E i \in 1 .. Len(Tail(queue)) : Tail(queue)[i] = "reconnect"
    <3>1. /\ Len(queue) \in Nat /\ Len(queue) >= 1 /\ queue[1] = "init"
          /\ Len(Tail(queue)) = Len(queue) - 1
          /\ \A i \in 1 .. Len(Tail(queue)) : Tail(queue)[i] = queue[i + 1]
      BY <1>6, <1>t DEF ParamsInit
    <3> SUFFICES ASSUME NEW i \in 1 .. Len(queue), queue[i] = "reconnect"
                 PROVE  \E k \in 1 .. Len(Tail(queue)) : Tail(queue)[k] = "reconnect"
      OBVIOUS
    <3>2. i - 1 \in 1 .. Len(Tail(queue)) /\ (i - 1) + 1 = i
      BY <3>1
    <3> QED BY <3>1, <3>2
  <2>3. WillFollows'
    <3>1. CASE stored # NoGroup
      <4>1. Register(stored, Tail(queue)) /\ will' = will
            /\ stored \in Topic /\ Tail(queue) \in Seq({"init", "reconnect"})
        BY <1>6, <1>t, <3>1 DEF ParamsInit, client, IInv, NodeTypeOK
      <4>2. lapse = "none" =>
               /\ lwt = current
               /\ \/ will = lwt
                  \/ \E i \in 1 .. Len(Tail(queue)) : Tail(queue)[i] = "reconnect"
        BY <2>2 DEF Right, WillFollows
      <4> QED BY <4>1, <4>2, RegisteredFollows DEF WillFollows
    <3>2. CASE stored = NoGroup
      BY <1>6, <3>2, <2>2 DEF ParamsInit, group, client, Right, WillFollows
    <3> QED BY <3>1, <3>2
  <2> QED BY <2>1, <2>3 DEF Right
<1>7. CASE ReconnectWork
  <2>1. CASE lapse' = "error" /\ UNCHANGED <<client, session, late>>
    BY <1>7, <2>1 DEF ReconnectWork, node, client, Right, EventsEndWithUp, Reported,
       SessionHasWill, WillFollows
  <2>2. CASE /\ will' = lwt /\ up' = FALSE
             /\ events' = IF up THEN Append(events, "disconnected") ELSE events
             /\ UNCHANGED lapse
    <3>1. EventsEndWithUp'
      <4>1. CASE up
        BY <2>2, <4>1, <1>t, AppendIsLast DEF EventsEndWithUp
      <4>2. CASE ~up
        BY <1>7, <2>2, <4>2, <1>t DEF ReconnectWork, node, Right, EventsEndWithUp
      <4> QED BY <4>1, <4>2
    <3> QED
      BY <1>7, <2>2, <3>1 DEF ReconnectWork, node, Right, Reported, SessionHasWill,
         WillFollows
  <2> QED BY <1>7, <2>1, <2>2 DEF ReconnectWork
<1>8. CASE Reboot
  BY <1>8 DEF Reboot, Enabled, Right, EventsEndWithUp, Reported, SessionHasWill, WillFollows
<1>9. CASE UNCHANGED nodeVars
  BY <1>9 DEF nodeVars, group, node, client, broker, Right, EventsEndWithUp, Reported,
     SessionHasWill, WillFollows
<1> QED
  BY <1>1, <1>2, <1>3, <1>4, <1>5, <1>6, <1>7, <1>8, <1>9 DEF NodeNext

(* The broker's picture of a node at rest is right: whatever the order of   *)
(* reconnections, late wills, group changes, failures and restarts, a node  *)
(* whose report was published is shown as connected with no will left to    *)
(* contradict it, and unless a lapse is noted the will its session holds is *)
(* for the topic of its group.                                              *)
THEOREM BrokerPictureIsRight == NodeSpec => []BrokerIsRight
<1>1. NodeInit => Right
  BY DEF NodeInit, Enabled, Right, EventsEndWithUp, Reported, SessionHasWill, WillFollows
<1>2. IInv /\ Right => BrokerIsRight
  <2> SUFFICES ASSUME IInv, Right, AtRest PROVE (~dropped => cloud = "on" /\ ~late)
                                        /\ (lapse = "none" => session = active)
    BY DEF BrokerIsRight, ShownAsConnected, WillIsOfGroup
  <2>1. ~dropped => cloud = "on" /\ ~late
    BY DEF Right, Reported, AtRest
  <2>2. lapse = "none" => session = active
    BY DEF Right, SessionHasWill, WillFollows, AtRest, IInv, ActiveIsStored
  <2> QED BY <2>1, <2>2
<1> QED BY <1>1, <1>2, InitIInv, NextIInv, NextRight, PTL DEF NodeSpec
=============================================================================
