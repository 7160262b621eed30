---------------------------- MODULE MqttOtaProofs ----------------------------
(***************************************************************************)
(* The download of an image in blocks, for images of any number of blocks, *)
(* windows, retries and attempts of any number, and any number of jobs,    *)
(* losses, repetitions, disconnections, failed writes and power failures.  *)
(***************************************************************************)
EXTENDS MqttOta, FiniteSetTheorems, TLAPS

-----------------------------------------------------------------------------
(* The inductive invariant.  The length counts blocks that came, so that it *)
(* says something of the partition only because every block is struck off   *)
(* once, written once, and in the window that the task waits for.           *)

(* Where the task stands tells what becomes of the handle.                  *)
Outside == {"idle", "connecting", "lookup", "wipe", "wipe_md5", "store", "store_md5",
            "open", "clear", "clear_md5", "done"}
Waits   == {"enter", "blocked", "woken"}

Placed ==
    /\ state = "none" <=> pc \in Outside
    /\ state = "begin" => pc \in Waits \cup {"header", "perform", "close"}
    /\ state = "progress" => pc \in Waits \cup {"fetch", "check", "tally", "close"}
    /\ state = "success" => pc = "close"
    /\ state = "invalid" <=> pc = "unsubscribe"
    /\ pc \notin {"idle", "done"} => job \in Job

(* The wait loop ends with the last block asked for.                        *)
Counts == pc \in Waits /\ state = "progress" => received < needed

(* What is left begins in the window, and all that is behind it is left.    *)
WindowOfLeft ==
    state # "none" =>
        /\ Start <= offset /\ offset + count <= NumBlocks
        /\ \A b \in left : offset <= b
        /\ \A b \in Block : offset + count <= b => b \in left

Underway(b) == writing # None /\ writing.block = b

(* A block that was struck off is being written, or was begun; those that   *)
(* were written whole are what the length counts.                           *)
Struck == {b \in Block : Start <= b /\ b \notin left /\ ~Underway(b)}
Good   == {b \in Struck : flash[b] = job.image}

Accounts ==
    /\ state = "begin" => left = {b \in Block : Start <= b}
    /\ writing # None =>
          /\ state \notin {"none", "begin", "success"}
          /\ writing.block \notin left /\ Start <= writing.block
    /\ state # "none" =>
          /\ \A b \in Struck : flash[b] \in {job.image, Torn}
          /\ length = Start + Cardinality(Good)
    /\ state = "success" => length = NumBlocks

BootIsLast ==
    boot # None =>
        /\ pc \in {"clear", "clear_md5", "done"}
        /\ pc # "done" => verdict = "ok"
        /\ Whole(boot)

IInv == TypeOK /\ Placed /\ Counts /\ WindowOfLeft /\ Accounts /\ BootIsLast

-----------------------------------------------------------------------------
(* The operators.                                                           *)
LEMMA MinOfTwo ==
  ASSUME NEW a \in Nat, NEW b \in Nat
  PROVE  Min({a, b}) \in {a, b} /\ Min({a, b}) <= a /\ Min({a, b}) <= b
<1>1. \E x \in {a, b} : \A y \in {a, b} : x <= y
  OBVIOUS
<1> QED
  BY <1>1 DEF Min

LEMMA Numbers ==
  /\ NumBlocks \in Nat /\ NumBlocks >= 1
  /\ PerRequest \in Nat /\ 1 <= PerRequest /\ PerRequest <= NumBlocks
  /\ MaxRetries \in Nat /\ MaxAttempts \in Nat /\ MaxAttempts >= 1
  /\ MaxOffers \in Nat /\ MaxFaults \in Nat
BY MqttOtaAssumption

(* Blocks from s on: how many there can be, and when they are all there.    *)
LEMMA BlocksFrom ==
  ASSUME NEW s \in 0 .. NumBlocks, NEW S \in SUBSET {b \in Block : s <= b}
  PROVE  /\ IsFiniteSet(S) /\ Cardinality(S) \in Nat
         /\ s + Cardinality(S) <= NumBlocks
         /\ s + Cardinality(S) = NumBlocks => S = {b \in Block : s <= b}
         /\ S = {b \in Block : s <= b} => s + Cardinality(S) = NumBlocks
<1> DEFINE T == {b \in Block : s <= b}
<1>1. T = s .. NumBlocks - 1 /\ s \in Int /\ NumBlocks - 1 \in Int
  BY Numbers DEF Block
<1>2. IsFiniteSet(T) /\ Cardinality(T) = NumBlocks - s
  <2>1. /\ IsFiniteSet(s .. NumBlocks - 1)
        /\ Cardinality(s .. NumBlocks - 1) =
              IF s > NumBlocks - 1 THEN 0 ELSE (NumBlocks - 1) - s + 1
    BY <1>1, FS_Interval
  <2>2. CASE s > NumBlocks - 1
    <3>1. s = NumBlocks /\ NumBlocks - s = 0
      BY <2>2, Numbers
    <3>2. Cardinality(s .. NumBlocks - 1) = 0
      BY <2>1, <2>2
    <3> QED
      BY <1>1, <2>1, <3>1, <3>2
  <2>3. CASE ~(s > NumBlocks - 1)
    <3>1. (NumBlocks - 1) - s + 1 = NumBlocks - s
      BY Numbers
    <3> QED
      BY <1>1, <2>1, <2>3, <3>1
  <2> QED
    BY <2>2, <2>3
<1>3. /\ IsFiniteSet(S) /\ Cardinality(S) <= Cardinality(T)
      /\ Cardinality(T) = Cardinality(S) => T = S
  BY <1>2, FS_Subset
<1>4. Cardinality(S) \in Nat
  BY <1>3, FS_CardinalityType
<1> QED
  BY <1>2, <1>3, <1>4, Numbers

LEMMA StartType == TypeOK => Start \in 0 .. NumBlocks /\ Start < NumBlocks
BY Numbers DEF TypeOK, Start, Resuming

(* A signal at most wakes the task.                                         *)
LEMMA Signalled ==
  ASSUME TypeOK, NEW e \in Events, Signal(e)
  PROVE  /\ bits' \subseteq Events /\ got' \subseteq Events /\ pc' \in Place
         /\ pc' = pc \/ (pc = "blocked" /\ pc' = "woken")
BY DEF TypeOK, Signal, Place

LEMMA AttemptEnded ==
  ASSUME TypeOK, NEW how \in {"none", "ok", "failed", "rejected"}, EndAttempt(how)
  PROVE  /\ verdict' = "none" /\ resume' = 0
         /\ attempt' \in 0 .. MaxAttempts
         /\ pc' \in {"done", "connecting", "idle"}
         /\ how = "ok" <=> pc' = "done"
<1>1. CASE how = "ok"
  BY <1>1, Numbers DEF EndAttempt
<1>2. CASE how = "failed" /\ attempt < MaxAttempts
  BY <1>2, Numbers DEF EndAttempt, TypeOK
<1>3. CASE how # "ok" /\ ~(how = "failed" /\ attempt < MaxAttempts)
  BY <1>3, Numbers DEF EndAttempt
<1> QED
  BY <1>1, <1>2, <1>3

(* A window that is left is followed by the next, as far as there are blocks*)
LEMMA Advanced ==
  ASSUME TypeOK, WindowOfLeft, state # "none", Window \cap left = {}, Advance,
         UNCHANGED <<left, state, resume>>
  PROVE  /\ offset' \in 0 .. NumBlocks /\ count' \in 0 .. PerRequest
         /\ offset' = offset + count
         /\ nvsOffset' \in (0 .. NumBlocks) \cup {None}
         /\ WindowOfLeft'
<1>t. /\ offset \in Nat /\ count \in Nat /\ count <= PerRequest /\ left \subseteq Block
      /\ offset + count <= NumBlocks /\ Start <= offset
      /\ Start \in Nat
  BY StartType, Numbers DEF TypeOK, WindowOfLeft
<1>1. left = {b \in Block : offset + count <= b}
  <2>1. ASSUME NEW b \in left PROVE offset + count <= b
    <3>1. b \in Block /\ offset <= b /\ b \notin Window
      BY <2>1, <1>t DEF WindowOfLeft
    <3> QED
      BY <3>1, <1>t, Numbers DEF Window, Block
  <2> QED
    BY <2>1, <1>t DEF WindowOfLeft
<1>2. /\ Cardinality(left) \in Nat
      /\ offset + count + Cardinality(left) = NumBlocks
  BY <1>1, <1>t, BlocksFrom, Numbers
<1>3. /\ offset' = offset + count /\ count' \in Nat /\ offset' \in Nat
      /\ count' <= Cardinality(left) /\ count' <= count
  BY <1>t, <1>2, MinOfTwo DEF Advance
<1>4. nvsOffset' \in (0 .. NumBlocks) \cup {None}
  BY <1>t, Numbers DEF Advance, TypeOK
<1>5. WindowOfLeft'
  <2>1. Start' = Start
    BY DEF Start, Resuming
  <2>2. Start' <= offset' /\ offset' + count' <= NumBlocks
    <3>1. offset' + count' <= offset + count + Cardinality(left)
      BY <1>2, <1>3, <1>t
    <3>2. offset' + count' <= NumBlocks
      BY <1>2, <3>1
    <3> QED
      BY <1>3, <1>t, <2>1, <3>2
  <2>3. \A b \in left' : offset' <= b
    BY <1>1, <1>3
  <2>4. \A b \in Block : offset' + count' <= b => b \in left'
    <3>1. \A x, y, z \in Int : x + y <= z /\ y >= 0 => x <= z
      OBVIOUS
    <3>2. \A b \in Block : offset' + count' <= b => offset' <= b
      <4>1. Block \subseteq Int /\ offset' \in Int /\ count' \in Int /\ count' >= 0
        BY <1>3, Numbers DEF Block
      <4> QED
        BY <3>1, <4>1
    <3>3. \A b \in Block : offset' + count' <= b => offset + count <= b
      BY <1>3, <3>2
    <3> QED
      BY <1>1, <3>3
  <2> QED
    BY <2>2, <2>3, <2>4 DEF WindowOfLeft
<1> QED
  BY <1>3, <1>4, <1>5, <1>t, Numbers

(* What is asked for at a time fits in a request.                           *)
LEMMA WindowSize ==
  ASSUME TypeOK
  PROVE  /\ Cardinality(Window \cap left) \in 0 .. PerRequest
         /\ Window \cap left # {} => Cardinality(Window \cap left) > 0
<1>t. offset \in Nat /\ count \in Nat /\ count <= PerRequest
  BY Numbers DEF TypeOK
<1>1. /\ IsFiniteSet(offset .. offset + count - 1)
      /\ Cardinality(offset .. offset + count - 1) <= count
  BY <1>t, FS_Interval
<1>2. Window \cap left \in SUBSET (offset .. offset + count - 1)
  BY <1>t, Numbers DEF Window, Block
<1>3. /\ IsFiniteSet(Window \cap left)
      /\ Cardinality(Window \cap left) <= count
      /\ Cardinality(Window \cap left) \in Nat
  <2>1. /\ IsFiniteSet(Window \cap left)
        /\ Cardinality(Window \cap left) <= Cardinality(offset .. offset + count - 1)
    BY <1>1, <1>2, FS_Subset
  <2>2. Cardinality(Window \cap left) \in Nat /\ Cardinality(offset .. offset + count - 1) \in Nat
    BY <2>1, <1>1, FS_CardinalityType
  <2> QED
    BY <2>1, <2>2, <1>1, <1>t
<1> QED
  BY <1>3, <1>t, Numbers, FS_EmptySet

(* A handle that is not touched keeps its accounts.                         *)
LEMMA HandleKept ==
  ASSUME WindowOfLeft, Accounts,
         UNCHANGED <<flash, job, resume, left, offset, count, length, writing, state>>
  PROVE  WindowOfLeft' /\ Accounts'
<1>1. Start' = Start /\ Struck' = Struck /\ Good' = Good
  BY DEF Start, Resuming, Struck, Underway, Good
<1> QED
  BY <1>1 DEF WindowOfLeft, Accounts

(* ... and so it does when the task goes on without taking up a new state.  *)
LEMMA StateMoves ==
  ASSUME WindowOfLeft, Accounts,
         UNCHANGED <<flash, job, resume, left, offset, count, length, writing>>,
         state # "none", state' # "none",
         state' = "begin" => state = "begin",
         writing # None => state' # "success",
         state' = "success" => length = NumBlocks
  PROVE  WindowOfLeft' /\ Accounts'
<1>1. Start' = Start /\ Struck' = Struck /\ Good' = Good
  BY DEF Start, Resuming, Struck, Underway, Good
<1> QED
  BY <1>1 DEF WindowOfLeft, Accounts

LEMMA NoHandle ==
  ASSUME state' = "none", writing' = None
  PROVE  WindowOfLeft' /\ Accounts'
BY DEF WindowOfLeft, Accounts

LEMMA NoWriting == TypeOK /\ Accounts /\ state = "none" => writing = None
BY DEF Accounts

-----------------------------------------------------------------------------
(* Every step keeps the invariant.                                          *)
LEMMA InitHolds == Init => IInv
<1> SUFFICES ASSUME Init PROVE IInv
  OBVIOUS
<1>1. TypeOK
  <2>1. flash \in [Block -> Image \cup {Erased, Torn}]
    BY DEF Init
  <2>2. /\ nvsOffset = None /\ attempt = 0 /\ resume = 0 /\ offset = 0 /\ count = 0
        /\ length = 0 /\ received = 0 /\ needed = 0 /\ retries = 0
        /\ offers = 0 /\ faults = 0
    BY DEF Init
  <2>3. /\ attempt \in 0 .. MaxAttempts /\ resume \in 0 .. NumBlocks
        /\ offset \in 0 .. NumBlocks /\ count \in 0 .. PerRequest
        /\ length \in 0 .. NumBlocks /\ received \in 0 .. PerRequest
        /\ needed \in 0 .. PerRequest /\ retries \in 0 .. MaxRetries
        /\ offers \in 0 .. MaxOffers /\ faults \in 0 .. MaxFaults
    BY <2>2, Numbers
  <2> QED
    BY <2>1, <2>2, <2>3 DEF Init, TypeOK, Place
<1>2. Placed /\ Counts /\ BootIsLast
  BY DEF Init, Placed, Outside, Counts, Waits, BootIsLast
<1>3. WindowOfLeft /\ Accounts
  BY DEF Init, WindowOfLeft, Accounts
<1> QED
  BY <1>1, <1>2, <1>3 DEF IInv

(* Before a handle is opened.                                               *)
LEMMA OfferKeeps ==
  ASSUME IInv, NEW j \in Job, Offer(j)
  PROVE  IInv'
<1>1. state = "none" /\ writing = None
  <2>1. pc \in Outside /\ state = "none"
    BY DEF IInv, Placed, Offer, Outside
  <2> QED
    BY <2>1, NoWriting DEF IInv
<1>2. TypeOK'
  BY Numbers DEF IInv, TypeOK, Offer, Place, store, handle, loop, group
<1>3. Placed' /\ Counts' /\ BootIsLast'
  BY <1>1 DEF IInv, Offer, Placed, Outside, Counts, Waits, BootIsLast, store, handle
<1>4. WindowOfLeft' /\ Accounts'
  BY <1>1, NoHandle DEF Offer, handle
<1> QED
  BY <1>2, <1>3, <1>4 DEF IInv

LEMMA WaitForMqttKeeps ==
  ASSUME IInv, WaitForMqtt
  PROVE  IInv'
<1>t. TypeOK /\ pc = "connecting"
  BY DEF IInv, WaitForMqtt
<1>1. state = "none" /\ writing = None /\ boot = None /\ job \in Job
  <2>1. state = "none" /\ job \in Job
    BY <1>t DEF IInv, Placed, Outside
  <2> QED
    BY <2>1, <1>t, NoWriting DEF IInv, BootIsLast
<1>2. /\ pc' \in {"lookup", "connecting", "idle"}
      /\ attempt' \in 0 .. MaxAttempts /\ resume' \in 0 .. NumBlocks
      /\ verdict' \in {"none", "ok", "failed", "rejected"}
  <2>1. CASE conn
    BY <2>1, <1>t DEF WaitForMqtt, TypeOK
  <2>2. CASE ~conn
    <3>1. EndAttempt("failed")
      BY <2>2 DEF WaitForMqtt
    <3> QED
      BY <3>1, <1>t, AttemptEnded, Numbers
  <2> QED
    BY <2>1, <2>2
<1>3. TypeOK'
  BY <1>2, <1>t DEF TypeOK, WaitForMqtt, Place, store, handle, loop, group
<1>4. Placed' /\ Counts' /\ BootIsLast'
  BY <1>1, <1>2 DEF WaitForMqtt, Placed, Outside, Counts, Waits, BootIsLast, store, handle
<1>5. WindowOfLeft' /\ Accounts'
  BY <1>1, NoHandle DEF WaitForMqtt, handle
<1> QED
  BY <1>3, <1>4, <1>5 DEF IInv

LEMMA LookupKeeps ==
  ASSUME IInv, Lookup
  PROVE  IInv'
<1>t. TypeOK /\ pc = "lookup"
  BY DEF IInv, Lookup
<1>1. state = "none" /\ writing = None /\ boot = None /\ job \in Job
  <2>1. state = "none" /\ job \in Job
    BY <1>t DEF IInv, Placed, Outside
  <2> QED
    BY <2>1, <1>t, NoWriting DEF IInv, BootIsLast
<1>2. pc' \in {"open", "store", "wipe"} /\ resume' \in 0 .. NumBlocks
  <2>1. CASE HasResumeState /\ resume' = nvsOffset
    BY <2>1, <1>t DEF Lookup, HasResumeState, TypeOK
  <2>2. CASE resume' = 0
    BY <2>2, Numbers DEF Lookup
  <2> QED
    BY <2>1, <2>2 DEF Lookup
<1>3. TypeOK'
  BY <1>2, <1>t DEF TypeOK, Lookup, Place, store, handle, loop, group
<1>4. Placed' /\ Counts' /\ BootIsLast'
  BY <1>1, <1>2 DEF Lookup, Placed, Outside, Counts, Waits, BootIsLast, store, handle
<1>5. WindowOfLeft' /\ Accounts'
  BY <1>1, NoHandle DEF Lookup, handle
<1> QED
  BY <1>3, <1>4, <1>5 DEF IInv

LEMMA WriteKeysKeeps ==
  ASSUME IInv, WriteKeys
  PROVE  IInv'
<1>t. /\ TypeOK /\ pc \in {"wipe", "wipe_md5", "store", "store_md5"}
      /\ pc' \in {"wipe_md5", "store", "store_md5", "open"}
  BY DEF IInv, WriteKeys
<1>1. state = "none" /\ writing = None /\ boot = None /\ job \in Job
  <2>1. state = "none" /\ job \in Job
    BY <1>t DEF IInv, Placed, Outside
  <2> QED
    BY <2>1, <1>t, NoWriting DEF IInv, BootIsLast
<1>2. nvsOffset' \in (0 .. NumBlocks) \cup {None} /\ nvsMd5' \in Image \cup {None}
  <2>1. job.image \in Image
    BY <1>1 DEF Job
  <2> QED
    BY <2>1, <1>t, Numbers DEF WriteKeys, TypeOK
<1>3. TypeOK'
  BY <1>2, <1>t DEF TypeOK, WriteKeys, Place, handle, loop, group
<1>4. Placed' /\ Counts' /\ BootIsLast'
  BY <1>1, <1>t DEF WriteKeys, Placed, Outside, Counts, Waits, BootIsLast, handle
<1>5. WindowOfLeft' /\ Accounts'
  BY <1>1, NoHandle DEF WriteKeys, handle
<1> QED
  BY <1>3, <1>4, <1>5 DEF IInv
(* The handle is opened: all from the start on is left, none has come.      *)
LEMMA BeginKeeps ==
  ASSUME IInv, Begin
  PROVE  IInv'
<1>t. TypeOK /\ pc = "open"
  BY DEF IInv, Begin
<1>1. state = "none" /\ writing = None /\ writing' = None /\ boot = None /\ job \in Job
  <2>1. state = "none" /\ job \in Job
    BY <1>t DEF IInv, Placed, Outside
  <2> QED
    BY <2>1, <1>t, NoWriting DEF IInv, BootIsLast, Begin
<1>2. CASE /\ EndAttempt("failed")
           /\ UNCHANGED <<state, left, offset, count, length>>
  <2>1. /\ verdict' = "none" /\ resume' \in 0 .. NumBlocks
        /\ attempt' \in 0 .. MaxAttempts /\ pc' \in {"connecting", "idle"}
    BY <1>2, <1>t, AttemptEnded, Numbers
  <2>2. TypeOK'
    BY <1>2, <2>1, <1>t DEF TypeOK, Begin, Place, store, loop, group
  <2>3. Placed' /\ Counts' /\ BootIsLast'
    BY <1>1, <1>2, <2>1 DEF Begin, Placed, Outside, Counts, Waits, BootIsLast, store
  <2>4. WindowOfLeft' /\ Accounts'
    BY <1>1, <1>2, NoHandle
  <2> QED
    BY <2>2, <2>3, <2>4 DEF IInv
<1>3. CASE /\ state' = "begin"
           /\ left' = {b \in Block : Start <= b}
           /\ offset' = Start /\ length' = Start
           /\ count' = IF Resuming THEN Min({PerRequest, NumBlocks - resume})
                                   ELSE PerRequest
           /\ pc' = IF resume = 0 THEN "header" ELSE "perform"
           /\ UNCHANGED <<attempt, verdict, resume>>
  <2>s. Start \in 0 .. NumBlocks /\ Start \in Nat /\ Start < NumBlocks /\ Start' = Start
    BY <1>3, <1>t, StartType DEF Start, Resuming
  <2>1. count' \in Nat /\ count' <= PerRequest /\ Start + count' <= NumBlocks
    <3>1. CASE Resuming
      <4>1. NumBlocks - resume \in Nat /\ Start = resume /\ resume \in Nat
        BY <3>1, <1>t, Numbers DEF Resuming, Start, TypeOK
      <4>2. /\ count' \in {PerRequest, NumBlocks - resume}
            /\ count' <= PerRequest /\ count' <= NumBlocks - resume
        BY <3>1, <1>3, <4>1, MinOfTwo, Numbers
      <4>3. count' \in Nat
        BY <4>1, <4>2, Numbers
      <4>4. \A x, y, z \in Int : y <= z - x => x + y <= z
        OBVIOUS
      <4>5. resume + count' <= NumBlocks
        <5>1. resume \in Int /\ count' \in Int /\ NumBlocks \in Int
          BY <4>1, <4>3, Numbers
        <5> QED
          BY <4>2, <4>4, <5>1
      <4>6. Start + count' <= NumBlocks
        BY <4>1, <4>5
      <4> QED
        BY <4>2, <4>3, <4>6
    <3>2. CASE ~Resuming
      BY <3>2, <1>3, Numbers DEF Start
    <3> QED
      BY <3>1, <3>2
  <2>2. TypeOK'
    <3>1. /\ left' \subseteq Block /\ offset' \in 0 .. NumBlocks
          /\ length' \in 0 .. NumBlocks /\ count' \in 0 .. PerRequest
      BY <1>3, <2>s, <2>1, Numbers
    <3> QED
      BY <1>3, <3>1, <1>t DEF TypeOK, Begin, Place, store, loop, group
  <2>3. Placed' /\ Counts' /\ BootIsLast'
    BY <1>1, <1>3 DEF Begin, Placed, Outside, Counts, Waits, BootIsLast, store
  <2>4. WindowOfLeft'
    BY <1>3, <2>s, <2>1 DEF WindowOfLeft, Block
  <2>5. Accounts'
    <3>1. Struck' = {} /\ Good' = {}
      BY <1>3, <2>s DEF Struck, Good
    <3>2. Cardinality(Good') = 0
      BY <3>1, FS_EmptySet
    <3> QED
      BY <1>1, <1>3, <2>s, <3>1, <3>2 DEF Accounts
  <2> QED
    BY <2>2, <2>3, <2>4, <2>5 DEF IInv
<1> QED
  BY <1>2, <1>3 DEF Begin
-----------------------------------------------------------------------------
(* Before the first block.                                                  *)
LEMMA PlacedInside ==
  ASSUME IInv, pc \notin Outside
  PROVE  /\ state # "none" /\ boot = None /\ job \in Job
         /\ pc \in {"header", "perform"} => state = "begin"
         /\ pc \in {"fetch", "check", "tally"} => state = "progress"
         /\ pc \in Waits => state \in {"begin", "progress"}
         /\ state \in {"begin", "progress"} => pc # "unsubscribe"
BY DEF IInv, Placed, Outside, Waits, BootIsLast, TypeOK

(* What is done to the partition before the first block is asked for is     *)
(* nothing to the accounts.                                                 *)
LEMMA BeginMoves ==
  ASSUME WindowOfLeft, Accounts, state = "begin", state' \in {"begin", "progress"},
         UNCHANGED <<resume, left, offset, count, length, writing>>
  PROVE  WindowOfLeft' /\ Accounts'
<1>1. Start' = Start
  BY DEF Start, Resuming
<1>2. writing = None /\ left = {b \in Block : Start <= b}
  BY DEF Accounts
<1>3. Struck = {} /\ Good = {} /\ Struck' = {} /\ Good' = {}
  BY <1>1, <1>2 DEF Struck, Good
<1>4. Cardinality(Good') = Cardinality(Good)
  BY <1>3
<1> QED
  BY <1>1, <1>2, <1>3, <1>4 DEF WindowOfLeft, Accounts

LEMMA AskHeaderKeeps ==
  ASSUME IInv, AskHeader
  PROVE  IInv'
<1>t. TypeOK /\ pc = "header" /\ pc' \in {"enter", "close"}
  BY DEF IInv, AskHeader, Fail
<1>1. state = "begin" /\ boot = None /\ job \in Job
  BY <1>t, PlacedInside DEF Outside
<1>2. TypeOK'
  <2>1. Header \in Msg
    BY Numbers DEF Header, Msg, Block
  <2> QED
    BY <2>1, <1>t DEF TypeOK, AskHeader, Fail, Place, store, loop, group
<1>3. Placed' /\ Counts' /\ BootIsLast'
  BY <1>1, <1>t DEF AskHeader, Placed, Outside, Counts, Waits, BootIsLast, store
<1>4. WindowOfLeft' /\ Accounts'
  BY <1>1, BeginMoves DEF IInv, AskHeader
<1> QED
  BY <1>2, <1>3, <1>4 DEF IInv

LEMMA WaitKeeps ==
  ASSUME IInv, Wait \/ Timeout
  PROVE  IInv'
<1>t. /\ TypeOK /\ pc \in {"enter", "blocked"} /\ pc' \in {"blocked", "woken"}
      /\ UNCHANGED <<store, job, attempt, verdict, resume, handle, loop, writing>>
  BY DEF IInv, Wait, Timeout
<1>1. state \in {"begin", "progress"} /\ boot = None /\ job \in Job
  BY <1>t, PlacedInside DEF Outside, Waits
<1>2. TypeOK'
  BY <1>t DEF TypeOK, Wait, Timeout, Place, store, handle, loop
<1>3. Placed' /\ Counts' /\ BootIsLast'
  BY <1>1, <1>t DEF IInv, Placed, Outside, Counts, Waits, BootIsLast, store, handle, loop
<1>4. WindowOfLeft' /\ Accounts'
  BY <1>t, HandleKept DEF IInv, store, handle
<1> QED
  BY <1>2, <1>3, <1>4 DEF IInv

LEMMA HeaderWokenKeeps ==
  ASSUME IInv, HeaderWoken
  PROVE  IInv'
<1>t. /\ TypeOK /\ pc = "woken" /\ state = "begin"
      /\ \/ pc' \in {"perform", "close"} /\ state' = "begin"
         \/ pc' = "fetch" /\ state' = "progress"
         \/ pc' = "close" /\ state' = state
  BY DEF IInv, HeaderWoken, Fail
<1>1. boot = None /\ job \in Job
  BY <1>t, PlacedInside DEF Outside
<1>2. TypeOK'
  <2>1. header' \in {"none", "asked", "valid"}
    BY <1>t DEF HeaderWoken, TypeOK, Fail
  <2>2. verdict' \in {"none", "ok", "failed", "rejected"}
    BY <1>t DEF HeaderWoken, TypeOK, Fail
  <2> QED
    BY <2>1, <2>2, <1>t DEF TypeOK, HeaderWoken, Place, store, loop
<1>3. Placed' /\ Counts' /\ BootIsLast'
  BY <1>1, <1>t DEF HeaderWoken, Placed, Outside, Counts, Waits, BootIsLast, store
<1>4. WindowOfLeft' /\ Accounts'
  BY <1>t, BeginMoves DEF IInv, HeaderWoken
<1> QED
  BY <1>2, <1>3, <1>4 DEF IInv

LEMMA StartKeeps ==
  ASSUME IInv, StartErased \/ StartResumed
  PROVE  IInv'
<1>t. /\ TypeOK /\ pc = "perform"
      /\ \/ pc' \in {"close", "header"} /\ state' = state
         \/ pc' = "fetch" /\ state' = "progress"
      /\ UNCHANGED <<nvsOffset, nvsMd5, boot, conn, job, attempt, resume, left,
                   offset, count, length, loop, group, writing, net, offers, faults>>
  BY DEF IInv, StartErased, StartResumed, Fail
<1>1. state = "begin" /\ boot = None /\ job \in Job
  BY <1>t, PlacedInside DEF Outside
<1>2. TypeOK'
  <2>1. /\ header' \in {"none", "asked", "valid"}
        /\ verdict' \in {"none", "ok", "failed", "rejected"} /\ condemned' \in BOOLEAN
    BY <1>t DEF StartErased, StartResumed, TypeOK, Fail
  <2>2. flash' \in [Block -> Image \cup {Erased, Torn}]
    BY <1>t DEF StartErased, StartResumed, TypeOK
  <2> QED
    BY <2>1, <2>2, <1>1, <1>t DEF TypeOK, Place, loop, group
<1>3. Placed' /\ Counts' /\ BootIsLast'
  BY <1>1, <1>t DEF Placed, Outside, Counts, Waits, BootIsLast
<1>4. WindowOfLeft' /\ Accounts'
  BY <1>t, <1>1, BeginMoves DEF IInv
<1> QED
  BY <1>2, <1>3, <1>4 DEF IInv
-----------------------------------------------------------------------------
(* Window by window.                                                        *)
LEMMA AccountsKept ==
  ASSUME Accounts,
         UNCHANGED <<flash, job, resume, left, length, writing, state>>
  PROVE  Accounts'
<1>1. Start' = Start /\ Struck' = Struck /\ Good' = Good
  BY DEF Start, Resuming, Struck, Underway, Good
<1> QED
  BY <1>1 DEF Accounts

LEMMA SkipWindowKeeps ==
  ASSUME IInv, SkipWindow
  PROVE  IInv'
<1>t. TypeOK /\ WindowOfLeft /\ Accounts /\ pc = "fetch" /\ pc' = "tally" /\ Advance
  BY DEF IInv, SkipWindow
<1>1. state = "progress" /\ boot = None /\ job \in Job
  BY <1>t, PlacedInside DEF Outside
<1>2. /\ offset' \in 0 .. NumBlocks /\ count' \in 0 .. PerRequest
      /\ nvsOffset' \in (0 .. NumBlocks) \cup {None}
      /\ WindowOfLeft'
  BY <1>t, <1>1, Advanced DEF SkipWindow
<1>3. TypeOK'
  BY <1>2, <1>t DEF TypeOK, SkipWindow, Place, loop, group
<1>4. Placed' /\ Counts' /\ BootIsLast'
  BY <1>1, <1>t DEF SkipWindow, Placed, Outside, Counts, Waits, BootIsLast
<1>5. Accounts'
  BY <1>t, AccountsKept DEF SkipWindow
<1> QED
  BY <1>2, <1>3, <1>4, <1>5 DEF IInv

LEMMA RequestKeeps ==
  ASSUME IInv, Request
  PROVE  IInv'
<1>t. /\ TypeOK /\ pc = "fetch" /\ pc' \in {"enter", "close"}
      /\ received' = 0 /\ needed' = Cardinality(Window \cap left)
      /\ needed' > 0 /\ needed' \in 0 .. PerRequest
  BY WindowSize DEF IInv, Request, Fail
<1>1. state = "progress" /\ boot = None /\ job \in Job
  BY <1>t, PlacedInside DEF Outside
<1>2. TypeOK'
  <2>1. [block : Window \cap left, full : {TRUE}] \subseteq Msg
    BY DEF Window, Msg
  <2>2. net' \subseteq Msg
    BY <2>1, <1>t DEF Request, TypeOK, Fail
  <2>3. verdict' \in {"none", "ok", "failed", "rejected"}
    BY <1>t DEF Request, TypeOK, Fail
  <2>4. received' \in 0 .. PerRequest
    BY <1>t, Numbers
  <2> QED
    BY <2>2, <2>3, <2>4, <1>t DEF TypeOK, Request, Place, store, handle, group
<1>3. Placed' /\ BootIsLast'
  BY <1>1, <1>t DEF Request, Placed, Outside, Waits, BootIsLast, store, handle
<1>4. Counts'
  BY <1>t DEF Counts
<1>5. WindowOfLeft' /\ Accounts'
  BY HandleKept DEF IInv, Request, store, handle
<1> QED
  BY <1>2, <1>3, <1>4, <1>5 DEF IInv

LEMMA BlockWokenKeeps ==
  ASSUME IInv, BlockWoken
  PROVE  IInv'
<1>t. /\ TypeOK /\ Counts /\ pc = "woken" /\ state = "progress"
      /\ received \in Nat /\ needed \in Nat /\ received < needed /\ needed <= PerRequest
  BY Numbers DEF IInv, BlockWoken, Counts, Waits, TypeOK
<1>1. boot = None /\ job \in Job
  BY <1>t, PlacedInside DEF Outside
<1>2. /\ pc' \in {"enter", "check", "close"}
      /\ received' \in 0 .. PerRequest /\ retries' \in 0 .. MaxRetries
      /\ verdict' \in {"none", "ok", "failed", "rejected"}
      /\ pc' = "enter" => received' < needed
  <2>1. CASE got \cap {"fetched", "duplicate"} # {}
    <3>1. /\ received' = received + 1 /\ verdict' = verdict
          /\ retries' = 0 \/ retries' = retries
          /\ pc' = IF received + 1 < needed THEN "enter" ELSE "check"
      BY <2>1 DEF BlockWoken
    <3>2. received' \in 0 .. PerRequest /\ 0 \in 0 .. MaxRetries
      BY <3>1, <1>t, Numbers
    <3>3. pc' \in {"enter", "check"} /\ (pc' = "enter" => received' < needed)
      BY <3>1
    <3> QED
      BY <3>1, <3>2, <3>3, <1>t DEF TypeOK
  <2>2. CASE got \cap {"fetched", "duplicate"} = {} /\ got = {}
    <3>1. got # {"error"}
      BY <2>2
    <3>2. retries \in Nat /\ retries <= MaxRetries
      BY <1>t, Numbers DEF TypeOK
    <3>3. CASE retries < MaxRetries
      <4>0. retries # MaxRetries
        BY <3>2, <3>3, Numbers
      <4>1. /\ received' = received /\ verdict' = verdict /\ pc' = "check"
            /\ retries' = retries + 1
        BY <2>2, <3>1, <3>3, <4>0 DEF BlockWoken
      <4>2. retries' \in 0 .. MaxRetries
        BY <4>1, <3>2, <3>3, Numbers
      <4> QED
        BY <4>1, <4>2, <1>t DEF TypeOK
    <3>4. CASE retries = MaxRetries
      <4>1. ~(retries < MaxRetries)
        BY <3>4, Numbers
      <4>2. /\ received' = received /\ verdict' = "failed" /\ pc' = "close"
            /\ retries' = retries
        BY <2>2, <3>1, <3>4, <4>1 DEF BlockWoken, Fail
      <4> QED
        BY <4>2, <1>t DEF TypeOK
    <3> QED
      BY <3>2, <3>3, <3>4, Numbers
  <2>3. CASE got \cap {"fetched", "duplicate"} = {} /\ got # {}
    <3>1. got = {"error"}
      BY <2>3, <1>t DEF TypeOK, Events
    <3> QED
      BY <3>1, <1>t, Numbers DEF BlockWoken, TypeOK, Fail
  <2> QED
    BY <2>1, <2>2, <2>3
<1>3. TypeOK'
  BY <1>2, <1>t DEF TypeOK, BlockWoken, Place, store, handle
<1>4. Placed' /\ Counts' /\ BootIsLast'
  BY <1>1, <1>2, <1>t DEF BlockWoken, Placed, Outside, Counts, Waits, BootIsLast,
                          store, handle
<1>5. WindowOfLeft' /\ Accounts'
  BY HandleKept DEF IInv, BlockWoken, store, handle
<1> QED
  BY <1>3, <1>4, <1>5 DEF IInv

LEMMA CheckWindowKeeps ==
  ASSUME IInv, CheckWindow
  PROVE  IInv'
<1>t. TypeOK /\ WindowOfLeft /\ Accounts /\ pc = "check" /\ pc' = "tally"
  BY DEF IInv, CheckWindow
<1>1. state = "progress" /\ boot = None /\ job \in Job
  BY <1>t, PlacedInside DEF Outside
<1>2. /\ offset' \in 0 .. NumBlocks /\ count' \in 0 .. PerRequest
      /\ nvsOffset' \in (0 .. NumBlocks) \cup {None}
      /\ WindowOfLeft'
  <2>1. CASE Window \cap left = {}
    BY <2>1, <1>t, <1>1, Advanced DEF CheckWindow
  <2>2. CASE Window \cap left # {}
    <3>1. UNCHANGED <<offset, count, nvsOffset, left, state, resume>>
      BY <2>2 DEF CheckWindow
    <3>2. Start' = Start
      BY <3>1 DEF Start, Resuming
    <3> QED
      BY <3>1, <3>2, <1>t DEF TypeOK, WindowOfLeft
  <2> QED
    BY <2>1, <2>2
<1>3. TypeOK'
  <2>1. received' \in 0 .. PerRequest /\ needed' \in 0 .. PerRequest
    BY Numbers DEF CheckWindow
  <2> QED
    BY <2>1, <1>2, <1>t DEF TypeOK, CheckWindow, Place, group
<1>4. Placed' /\ Counts' /\ BootIsLast'
  BY <1>1, <1>t DEF CheckWindow, Placed, Outside, Counts, Waits, BootIsLast
<1>5. Accounts'
  BY <1>t, AccountsKept DEF CheckWindow
<1> QED
  BY <1>2, <1>3, <1>4, <1>5 DEF IInv

(* A length that says the whole image came means that each block was        *)
(* written, and that none is being written.                                 *)
LEMMA AllCame ==
  ASSUME TypeOK, Accounts, state # "none", length = NumBlocks
  PROVE  Good = {b \in Block : Start <= b} /\ writing = None
<1>1. Good \in SUBSET {b \in Block : Start <= b} /\ Start \in 0 .. NumBlocks
  BY StartType DEF Good, Struck
<1>2. Start + Cardinality(Good) = NumBlocks
  BY DEF Accounts
<1>3. Good = {b \in Block : Start <= b}
  BY <1>1, <1>2, BlocksFrom
<1>4. ASSUME writing # None PROVE FALSE
  <2>1. writing.block \in Block /\ Start <= writing.block
    BY <1>4 DEF TypeOK, Msg, Accounts
  <2>2. writing.block \in Good
    BY <2>1, <1>3
  <2> QED
    BY <2>2, <1>4 DEF Good, Struck, Underway
<1> QED
  BY <1>3, <1>4

LEMMA TallyKeeps ==
  ASSUME IInv, Tally
  PROVE  IInv'
<1>t. TypeOK /\ WindowOfLeft /\ Accounts /\ pc = "tally"
  BY DEF IInv, Tally
<1>1. state = "progress" /\ boot = None /\ job \in Job
  BY <1>t, PlacedInside DEF Outside
<1>2. \/ state' = "success" /\ pc' = "close" /\ length = NumBlocks /\ writing = None
      \/ state' = "progress" /\ pc' = "fetch"
  BY <1>t, <1>1, AllCame DEF Tally
<1>3. TypeOK'
  BY <1>2, <1>t DEF TypeOK, Tally, Place, store, loop, group
<1>4. Placed' /\ Counts' /\ BootIsLast'
  BY <1>1, <1>2, <1>t DEF Tally, Placed, Outside, Counts, Waits, BootIsLast, store
<1>5. WindowOfLeft' /\ Accounts'
  BY <1>t, <1>1, <1>2, StateMoves DEF Tally, store
<1> QED
  BY <1>3, <1>4, <1>5 DEF IInv
-----------------------------------------------------------------------------
(* The end of an attempt.                                                   *)
LEMMA CloseKeeps ==
  ASSUME IInv, Close
  PROVE  IInv'
<1>t. /\ TypeOK /\ WindowOfLeft /\ Accounts
      /\ pc = "close" /\ pc' = "unsubscribe" /\ state' = "invalid"
  BY DEF IInv, Close
<1>1. state # "none" /\ boot = None /\ job \in Job
  BY <1>t, PlacedInside DEF Outside
<1>2. TypeOK'
  BY <1>t DEF TypeOK, Close, Place, store, loop, group
<1>3. Placed' /\ Counts' /\ BootIsLast'
  BY <1>1, <1>t DEF Close, Placed, Outside, Counts, Waits, BootIsLast, store
<1>4. WindowOfLeft' /\ Accounts'
  BY <1>t, <1>1, StateMoves DEF Close, store
<1> QED
  BY <1>2, <1>3, <1>4 DEF IInv

LEMMA Freed ==
  ASSUME FreeHandle
  PROVE  /\ state' = "none" /\ left' \subseteq Block
         /\ offset' \in 0 .. NumBlocks /\ count' \in 0 .. PerRequest
         /\ length' \in 0 .. NumBlocks /\ header' = "none"
         /\ received' \in 0 .. PerRequest /\ needed' \in 0 .. PerRequest
         /\ retries' \in 0 .. MaxRetries /\ bits' \subseteq Events /\ got' \subseteq Events
<1>1. 0 \in 0 .. NumBlocks /\ 0 \in 0 .. PerRequest /\ 0 \in 0 .. MaxRetries
  BY Numbers
<1> QED
  BY <1>1 DEF FreeHandle

LEMMA EndKeeps ==
  ASSUME IInv, End
  PROVE  IInv'
<1>t. TypeOK /\ pc = "unsubscribe" /\ writing = None /\ writing' = None /\ FreeHandle
  BY DEF IInv, End
<1>1. boot = None /\ job \in Job /\ job.image \in Image
  BY <1>t, PlacedInside DEF Outside, Job
<1>2. /\ attempt' \in 0 .. MaxAttempts /\ resume' \in 0 .. NumBlocks
      /\ verdict' \in {"none", "ok", "failed", "rejected"}
      /\ condemned' \in BOOLEAN
      /\ \/ boot' = None /\ pc' \in {"connecting", "idle", "clear"}
         \/ /\ boot' = job.image /\ Whole(job.image)
            /\ pc' = "clear" /\ verdict' = "ok"
  <2>1. CASE verdict # "ok" /\ EndAttempt(verdict) /\ UNCHANGED <<boot, condemned>>
    <3>1. verdict \in {"none", "ok", "failed", "rejected"}
      BY <1>t DEF TypeOK
    <3>2. /\ verdict' = "none" /\ resume' = 0 /\ attempt' \in 0 .. MaxAttempts
          /\ pc' \in {"connecting", "idle"}
      BY <2>1, <3>1, <1>t, AttemptEnded
    <3>3. resume' \in 0 .. NumBlocks
      BY <3>2, Numbers
    <3> QED
      BY <2>1, <3>2, <3>3, <1>t, <1>1 DEF TypeOK
  <2>2. CASE /\ verdict = "ok" /\ Whole(job.image) /\ boot' = job.image
             /\ pc' = "clear" /\ UNCHANGED <<attempt, verdict, resume, condemned>>
    BY <2>2, <1>t DEF TypeOK
  <2>3. CASE /\ verdict' = "failed" /\ condemned' = ~Whole(job.image)
             /\ pc' = "clear" /\ UNCHANGED <<attempt, resume, boot>>
    BY <2>3, <1>t, <1>1 DEF TypeOK
  <2> QED
    BY <2>1, <2>2, <2>3 DEF End
<1>3. TypeOK'
  BY <1>1, <1>2, <1>t, Freed DEF TypeOK, End, Place
<1>4. Placed' /\ Counts' /\ WindowOfLeft' /\ Accounts'
  BY <1>1, <1>2, <1>t, NoHandle DEF End, FreeHandle, Placed, Outside, Counts, Waits
<1>5. BootIsLast'
  <2>1. flash' = flash
    BY DEF End
  <2> QED
    BY <1>2, <2>1 DEF BootIsLast, Whole
<1> QED
  BY <1>3, <1>4, <1>5 DEF IInv

LEMMA ClearResumeKeeps ==
  ASSUME IInv, ClearResume
  PROVE  IInv'
<1>t. /\ TypeOK /\ BootIsLast /\ pc \in {"clear", "clear_md5"}
      /\ UNCHANGED <<flash, boot, conn, job, handle, loop, group, writing, net,
                     condemned, offers, faults>>
  BY DEF IInv, ClearResume
<1>1. state = "none" /\ writing = None /\ job \in Job
  <2>1. state = "none" /\ job \in Job
    BY <1>t DEF IInv, Placed, Outside
  <2> QED
    BY <2>1, <1>t, NoWriting DEF IInv
<1>2. /\ attempt' \in 0 .. MaxAttempts /\ resume' \in 0 .. NumBlocks
      /\ verdict' \in {"none", "ok", "failed", "rejected"}
      /\ nvsOffset' \in (0 .. NumBlocks) \cup {None} /\ nvsMd5' \in Image \cup {None}
      /\ \/ pc' = "clear_md5" /\ verdict' = verdict
         \/ pc' \in {"connecting", "idle", "done"} /\ (verdict = "ok" <=> pc' = "done")
  <2>1. CASE pc = "clear" /\ nvsOffset' = None /\ pc' = "clear_md5"
             /\ UNCHANGED <<nvsMd5, attempt, verdict, resume>>
    BY <2>1, <1>t DEF TypeOK
  <2>2. CASE pc = "clear_md5" /\ nvsMd5' = None /\ EndAttempt(verdict)
             /\ UNCHANGED nvsOffset
    <3>1. verdict \in {"none", "ok", "failed", "rejected"}
      BY <1>t DEF TypeOK
    <3>2. /\ verdict' = "none" /\ resume' = 0 /\ attempt' \in 0 .. MaxAttempts
          /\ pc' \in {"connecting", "idle", "done"} /\ (verdict = "ok" <=> pc' = "done")
      BY <2>2, <3>1, <1>t, AttemptEnded
    <3>3. resume' \in 0 .. NumBlocks
      BY <3>2, Numbers
    <3> QED
      BY <2>2, <3>2, <3>3, <1>t DEF TypeOK
  <2> QED
    BY <2>1, <2>2 DEF ClearResume
<1>3. TypeOK'
  BY <1>2, <1>t DEF TypeOK, Place, handle, loop, group
<1>4. Placed' /\ Counts' /\ WindowOfLeft' /\ Accounts'
  BY <1>1, <1>2, <1>t, NoHandle DEF Placed, Outside, Counts, Waits, handle
<1>5. BootIsLast'
  BY <1>2, <1>t DEF BootIsLast, Whole
<1> QED
  BY <1>3, <1>4, <1>5 DEF IInv
-----------------------------------------------------------------------------
(* The callbacks, and the surroundings.                                     *)
LEMMA Aside ==
  ASSUME IInv, pc' = pc \/ (pc = "blocked" /\ pc' = "woken"),
         UNCHANGED <<state, job, received, needed, boot, verdict>>,
         flash' = flash \/ boot = None
  PROVE  Placed' /\ Counts' /\ BootIsLast'
BY DEF IInv, Placed, Outside, Counts, Waits, BootIsLast, Whole

LEMMA Faulted == TypeOK /\ Fault => faults' \in 0 .. MaxFaults
<1> SUFFICES ASSUME TypeOK, Fault PROVE faults' \in 0 .. MaxFaults
  OBVIOUS
<1>1. faults \in Nat /\ faults < MaxFaults /\ faults' = faults + 1
  BY Numbers DEF TypeOK, Fault
<1> QED
  BY <1>1, Numbers

LEMMA StreamDataKeeps ==
  ASSUME IInv, NEW m \in net, StreamData(m)
  PROVE  IInv'
<1>t. /\ TypeOK /\ WindowOfLeft /\ Accounts /\ state # "none" /\ writing = None
      /\ UNCHANGED <<store, conn, job, attempt, verdict, resume, state, offset,
                     count, length, header, loop, condemned, offers>>
  BY DEF IInv, StreamData
<1>1. m \in Msg /\ m # None /\ m.block \in Block
  BY <1>t, MqttOtaAssumption DEF TypeOK, Msg
<1>2. net' \subseteq Msg /\ faults' \in 0 .. MaxFaults
  BY <1>t, Faulted DEF StreamData, TypeOK
<1>3. CASE UNCHANGED <<pc, group, left, writing>>
  <2>1. TypeOK'
    BY <1>2, <1>3, <1>t DEF TypeOK, store, loop, group
  <2>2. Placed' /\ Counts' /\ BootIsLast'
    BY <1>3, <1>t, Aside DEF store, loop
  <2>3. WindowOfLeft' /\ Accounts'
    BY <1>3, <1>t, HandleKept DEF store
  <2> QED
    BY <2>1, <2>2, <2>3 DEF IInv
<1>4. ASSUME NEW e \in Events, Signal(e), UNCHANGED <<left, writing>>
      PROVE  IInv'
  <2>1. /\ bits' \subseteq Events /\ got' \subseteq Events /\ pc' \in Place
        /\ pc' = pc \/ (pc = "blocked" /\ pc' = "woken")
    BY <1>4, <1>t, Signalled
  <2>2. TypeOK'
    BY <2>1, <1>2, <1>4, <1>t DEF TypeOK, store, loop
  <2>3. Placed' /\ Counts' /\ BootIsLast'
    BY <2>1, <1>t, Aside DEF store, loop
  <2>4. WindowOfLeft' /\ Accounts'
    BY <1>4, <1>t, HandleKept DEF store
  <2> QED
    BY <2>2, <2>3, <2>4 DEF IInv
<1>5. CASE /\ state = "progress" /\ m.block \in Window \cap left
           /\ left' = left \ {m.block} /\ writing' = m
           /\ UNCHANGED <<pc, group>>
  <2>1. TypeOK'
    BY <1>1, <1>2, <1>5, <1>t DEF TypeOK, store, loop, group
  <2>2. Placed' /\ Counts' /\ BootIsLast'
    BY <1>5, <1>t, Aside DEF store, loop
  <2>3. /\ Start' = Start /\ Start \in Nat /\ offset \in Nat /\ count \in Nat
        /\ m.block \in Nat /\ offset <= m.block /\ ~(offset + count <= m.block)
        /\ Start <= m.block
    <3>1. /\ Start' = Start /\ Start \in Nat /\ offset \in Nat /\ count \in Nat
          /\ m.block \in Nat /\ offset <= m.block /\ m.block < offset + count
          /\ Start <= offset
      BY <1>1, <1>5, <1>t, StartType, Numbers
         DEF TypeOK, Window, Block, Start, Resuming, WindowOfLeft
    <3> QED
      BY <3>1
  <2>4. WindowOfLeft'
    BY <2>3, <1>5, <1>t DEF WindowOfLeft
  <2>5. Struck' = Struck /\ Good' = Good
    <3>1. Struck' = {b \in Block : Start <= b /\ b \notin left' /\ b # m.block}
      BY <2>3, <1>1, <1>5 DEF Struck, Underway
    <3>2. Struck = {b \in Block : Start <= b /\ b \notin left}
      BY <1>t DEF Struck, Underway
    <3>3. Struck' = Struck
      BY <3>1, <3>2, <1>5
    <3> QED
      BY <3>3, <1>t DEF Good, store
  <2>6. Accounts'
    BY <2>3, <2>5, <1>5, <1>t DEF Accounts, store
  <2> QED
    BY <2>1, <2>2, <2>4, <2>6 DEF IInv
<1> QED
  BY <1>3, <1>4, <1>5 DEF StreamData, Events

(* What is written of the block that was struck off: nothing, or the whole. *)
LEMMA WriteBlockKeeps ==
  ASSUME IInv, WriteBlock
  PROVE  IInv'
<1> DEFINE w == writing.block
<1>t. /\ TypeOK /\ WindowOfLeft /\ Accounts /\ writing # None /\ writing' = None
      /\ UNCHANGED <<nvsOffset, nvsMd5, boot, conn, job, attempt, verdict, resume,
                     state, left, offset, count, header, loop, net, condemned, offers>>
  BY DEF IInv, WriteBlock
<1>1. /\ writing \in Msg /\ w \in Block /\ w \notin left /\ Start <= w
      /\ state \in {"progress", "invalid"}
  BY <1>t DEF TypeOK, Msg, Accounts
<1>2. boot = None /\ job \in Job /\ job.image \in Image /\ Torn # job.image
  <2>1. boot = None /\ job \in Job
    BY <1>1, PlacedInside DEF IInv, Placed
  <2> QED
    BY <2>1, MqttOtaAssumption DEF Job
<1>3. /\ Start' = Start /\ Start \in 0 .. NumBlocks
      /\ Struck' = Struck \cup {w} /\ w \notin Struck
  BY <1>1, <1>t, StartType DEF Start, Resuming, Struck, Underway
<1>4. /\ IsFiniteSet(Good) /\ w \notin Good /\ Cardinality(Good) \in Nat
      /\ length = Start + Cardinality(Good)
      /\ \A b \in Struck : flash[b] \in {job.image, Torn}
  <2>1. Good \in SUBSET {b \in Block : Start <= b}
    BY DEF Good, Struck
  <2> QED
    BY <2>1, <1>1, <1>3, <1>t, BlocksFrom DEF Good, Accounts
<1>5. \E e \in Events : Signal(e)
  BY DEF WriteBlock, Events
<1>6. /\ bits' \subseteq Events /\ got' \subseteq Events /\ pc' \in Place
      /\ pc' = pc \/ (pc = "blocked" /\ pc' = "woken")
  BY <1>5, <1>t, Signalled
<1>7. faults' \in 0 .. MaxFaults
  BY <1>t, Faulted DEF WriteBlock, TypeOK
<1>8. ASSUME NEW x \in {job.image, Torn}, flash' = [flash EXCEPT ![w] = x],
             length' = IF x = job.image THEN length + 1 ELSE length
      PROVE  /\ flash' \in [Block -> Image \cup {Erased, Torn}]
             /\ length' \in 0 .. NumBlocks
             /\ length' = Start' + Cardinality(Good')
             /\ \A b \in Struck' : flash'[b] \in {job'.image, Torn}
  <2>1. flash \in [Block -> Image \cup {Erased, Torn}] /\ job' = job
    BY <1>t DEF TypeOK
  <2>2. flash' \in [Block -> Image \cup {Erased, Torn}]
    BY <2>1, <1>8, <1>2
  <2>3. flash'[w] = x /\ \A b \in Struck : flash'[b] = flash[b]
    BY <2>1, <1>8, <1>1, <1>3 DEF Struck
  <2>4. \A b \in Struck' : flash'[b] \in {job'.image, Torn}
    BY <2>1, <2>3, <1>3, <1>4
  <2>5. Good' = IF x = job.image THEN Good \cup {w} ELSE Good
    BY <2>1, <2>3, <1>3, <1>2 DEF Good
  <2>6. Cardinality(Good') = IF x = job.image THEN Cardinality(Good) + 1
                                              ELSE Cardinality(Good)
    BY <2>5, <1>4, FS_AddElement
  <2>7. length' = Start + Cardinality(Good')
    BY <2>6, <1>4, <1>8, <1>3
  <2>8. Good' \in SUBSET {b \in Block : Start <= b}
    BY <1>3, <1>1 DEF Good, Struck
  <2>9. /\ Cardinality(Good') \in Nat /\ Start + Cardinality(Good') <= NumBlocks
    BY <2>8, <1>3, BlocksFrom
  <2> QED
    BY <2>2, <2>4, <2>7, <2>9, <1>3, Numbers
<1>9. \E x \in {job.image, Torn} :
         /\ flash' = [flash EXCEPT ![w] = x]
         /\ length' = IF x = job.image THEN length + 1 ELSE length
  BY <1>2 DEF WriteBlock
<1>10. /\ flash' \in [Block -> Image \cup {Erased, Torn}]
       /\ length' \in 0 .. NumBlocks
       /\ length' = Start' + Cardinality(Good')
       /\ \A b \in Struck' : flash'[b] \in {job'.image, Torn}
  BY <1>8, <1>9
<1>11. TypeOK'
  BY <1>6, <1>7, <1>10, <1>t DEF TypeOK, loop
<1>12. Placed' /\ Counts' /\ BootIsLast'
  BY <1>2, <1>6, <1>t, Aside DEF loop
<1>13. WindowOfLeft'
  BY <1>3, <1>t DEF WindowOfLeft
<1>14. Accounts'
  BY <1>1, <1>10, <1>t DEF Accounts
<1> QED
  BY <1>11, <1>12, <1>13, <1>14 DEF IInv

LEMMA SignalKeeps ==
  ASSUME IInv, Refused \/ Disconnect
  PROVE  IInv'
<1>t. /\ TypeOK /\ WindowOfLeft /\ Accounts
      /\ UNCHANGED <<store, job, attempt, verdict, resume, handle, loop,
                     writing, net, condemned, offers>>
      /\ conn' \in BOOLEAN
  BY DEF IInv, Refused, Disconnect, TypeOK
<1>1. faults' \in 0 .. MaxFaults
  BY <1>t, Faulted DEF Refused, Disconnect
<1>2. /\ bits' \subseteq Events /\ got' \subseteq Events /\ pc' \in Place
      /\ pc' = pc \/ (pc = "blocked" /\ pc' = "woken")
  <2>1. CASE UNCHANGED <<pc, group>>
    BY <2>1, <1>t DEF TypeOK, group
  <2>2. CASE Signal("error")
    BY <2>2, <1>t, Signalled DEF Events
  <2> QED
    BY <2>1, <2>2 DEF Refused, Disconnect
<1>3. TypeOK'
  BY <1>1, <1>2, <1>t DEF TypeOK, store, handle, loop
<1>4. Placed' /\ Counts' /\ BootIsLast'
  BY <1>2, <1>t, Aside DEF store, handle, loop
<1>5. WindowOfLeft' /\ Accounts'
  BY <1>t, HandleKept DEF store, handle
<1> QED
  BY <1>3, <1>4, <1>5 DEF IInv

LEMMA ReconnectKeeps ==
  ASSUME IInv, Reconnect
  PROVE  IInv'
<1>t. TypeOK /\ WindowOfLeft /\ Accounts
  BY DEF IInv
<1>1. TypeOK'
  BY <1>t DEF TypeOK, Reconnect, store, task, handle, loop, group
<1>2. Placed' /\ Counts' /\ BootIsLast'
  BY Aside DEF Reconnect, store, task, handle, loop
<1>3. WindowOfLeft' /\ Accounts'
  BY <1>t, HandleKept DEF Reconnect, store, task, handle
<1> QED
  BY <1>1, <1>2, <1>3 DEF IInv

LEMMA CrashKeeps ==
  ASSUME IInv, Crash
  PROVE  IInv'
<1>t. /\ TypeOK /\ FreeHandle /\ writing' = None /\ condemned' = FALSE
      /\ pc' \in {"idle", "done"} /\ (boot # None => pc' = "done")
      /\ attempt' = 0 /\ verdict' = "none" /\ resume' = 0
      /\ UNCHANGED <<nvsOffset, nvsMd5, boot, conn, job, net, offers>>
  BY DEF IInv, Crash
<1>1. faults' \in 0 .. MaxFaults
  BY <1>t, Faulted DEF Crash
<1>2. flash' \in [Block -> Image \cup {Erased, Torn}]
  BY <1>t DEF Crash, TypeOK
<1>3. attempt' \in 0 .. MaxAttempts /\ resume' \in 0 .. NumBlocks
  BY <1>t, Numbers
<1>4. TypeOK'
  BY <1>1, <1>2, <1>3, <1>t, Freed DEF TypeOK, Place
<1>5. Placed' /\ Counts' /\ WindowOfLeft' /\ Accounts'
  BY <1>t, NoHandle DEF FreeHandle, Placed, Outside, Counts, Waits
<1>6. BootIsLast'
  <2>1. ASSUME boot # None PROVE writing = None /\ Whole(boot)
    BY <2>1, <1>t, NoWriting DEF IInv, BootIsLast, Placed, Outside
  <2>2. ASSUME boot # None PROVE \A b \in Block : flash'[b] = flash[b]
    BY <2>1, <2>2 DEF Crash
  <2> QED
    BY <2>1, <2>2, <1>t DEF BootIsLast, Whole
<1> QED
  BY <1>4, <1>5, <1>6 DEF IInv

LEMMA StepKeeps == IInv /\ [Next]_vars => IInv'
<1> SUFFICES ASSUME IInv, [Next]_vars PROVE IInv'
  OBVIOUS
<1>1. ASSUME NEW j \in Job, Offer(j) PROVE IInv'
  BY <1>1, OfferKeeps
<1>2. CASE Download
  BY <1>2, WaitForMqttKeeps, LookupKeeps, WriteKeysKeeps, BeginKeeps, AskHeaderKeeps,
     WaitKeeps, HeaderWokenKeeps, StartKeeps, SkipWindowKeeps, RequestKeeps,
     BlockWokenKeeps, CheckWindowKeeps, TallyKeeps, CloseKeeps, EndKeeps,
     ClearResumeKeeps DEF Download
<1>3. ASSUME NEW m \in net, StreamData(m) PROVE IInv'
  BY <1>3, StreamDataKeeps
<1>4. CASE WriteBlock \/ Refused \/ Disconnect \/ Reconnect \/ Crash
  BY <1>4, WriteBlockKeeps, SignalKeeps, ReconnectKeeps, CrashKeeps
<1>5. CASE UNCHANGED vars
  <2>1. TypeOK' /\ Placed' /\ Counts' /\ BootIsLast'
    BY <1>5 DEF vars, store, task, handle, loop, group, IInv, TypeOK, Placed, Outside,
                Counts, Waits, BootIsLast, Whole
  <2>2. WindowOfLeft' /\ Accounts'
    BY <1>5, HandleKept DEF vars, store, task, handle, IInv
  <2> QED
    BY <2>1, <2>2 DEF IInv
<1> QED
  BY <1>1, <1>2, <1>3, <1>4, <1>5 DEF Next

(* The state says what ImageIsWhole says.                                   *)
LEMMA InvariantSays == IInv => ImageIsWhole
<1> SUFFICES ASSUME IInv PROVE CompleteMeansWritten
  BY DEF IInv, BootIsLast, ImageIsWhole, BootsWhole
<1> SUFFICES ASSUME state = "success" PROVE \A b \in Block : Start <= b => flash[b] = job.image
  BY DEF CompleteMeansWritten
<1>1. Good = {b \in Block : Start <= b}
  BY AllCame DEF IInv, Accounts
<1> QED
  BY <1>1 DEF Good

(* A download said to be complete is complete from where it began, whatever *)
(* the stream lost, repeated or reordered and whichever write failed; and   *)
(* the boot partition is only set to a whole image, which nothing touches   *)
(* any more (esp_mqtt_ota_perform, esp_mqtt_ota_end, stream_data_cb).       *)
THEOREM OnlyWholeImagesBoot == Spec => []ImageIsWhole
<1>1. Spec => []IInv
  BY InitHolds, StepKeeps, PTL DEF Spec
<1> QED
  BY <1>1, InvariantSays, PTL
-----------------------------------------------------------------------------
(* What esp_ota_end refused.  The resume state is cleared before another    *)
(* attempt can read it, and no attempt is under way that has read it.       *)
CondemnedCleared ==
    condemned /\ pc # "clear" =>
        /\ nvsOffset \in {None, 0} /\ state \notin {"progress", "success"}
        /\ pc # "clear_md5" => resume = 0

LEMMA CondemnedAside ==
  ASSUME CondemnedCleared, UNCHANGED <<nvsOffset, state, resume, condemned>>,
         pc' = pc \/ {pc, pc'} \cap {"clear", "clear_md5"} = {}
  PROVE  CondemnedCleared'
BY DEF CondemnedCleared

LEMMA CondemnedOutside ==
  ASSUME IInv, CondemnedCleared, WaitForMqtt \/ Lookup \/ WriteKeys \/ Begin
  PROVE  CondemnedCleared'
<1>t. TypeOK /\ pc \notin {"clear", "clear_md5"} /\ condemned' = condemned
  BY DEF IInv, WaitForMqtt, Lookup, WriteKeys, Begin
<1>1. CASE WaitForMqtt
  <2>1. resume' = resume \/ resume' = 0
    BY <1>1 DEF WaitForMqtt, EndAttempt
  <2> QED
    BY <1>1, <1>t, <2>1 DEF WaitForMqtt, CondemnedCleared, store, handle
<1>2. CASE Lookup
  <2>1. resume' = 0 \/ (resume' = nvsOffset /\ nvsOffset # None)
    BY <1>2 DEF Lookup, HasResumeState
  <2> QED
    BY <1>2, <1>t, <2>1 DEF Lookup, CondemnedCleared, store, handle
<1>3. CASE WriteKeys
  <2>1. nvsOffset' \in {nvsOffset, None, 0} /\ pc' # "clear" /\ pc' # "clear_md5"
    BY <1>3 DEF WriteKeys
  <2> QED
    BY <1>3, <1>t, <2>1 DEF WriteKeys, CondemnedCleared, handle
<1>4. CASE Begin
  <2>1. resume' = resume \/ resume' = 0
    BY <1>4 DEF Begin, EndAttempt
  <2>2. state' = state \/ state' = "begin"
    BY <1>4 DEF Begin
  <2> QED
    BY <1>4, <1>t, <2>1, <2>2 DEF Begin, CondemnedCleared, store
<1> QED
  BY <1>1, <1>2, <1>3, <1>4

LEMMA CondemnedInside ==
  ASSUME IInv, CondemnedCleared,
         HeaderWoken \/ StartErased \/ StartResumed \/ SkipWindow \/ CheckWindow
           \/ Tally \/ Close \/ End \/ ClearResume
  PROVE  CondemnedCleared'
<1>t. TypeOK
  BY DEF IInv
<1>1. CASE HeaderWoken
  <2>1. resume' = resume /\ pc # "clear" /\ pc # "clear_md5"
    BY <1>1 DEF HeaderWoken
  <2>2. resume = 0 => state' = state
    BY <1>1 DEF HeaderWoken, Fail
  <2> QED
    BY <1>1, <2>1, <2>2 DEF HeaderWoken, CondemnedCleared, store
<1>2. CASE StartErased
  <2>1. \/ condemned' = FALSE
        \/ UNCHANGED <<condemned, state>>
    BY <1>2 DEF StartErased
  <2> QED
    BY <1>2, <2>1 DEF StartErased, CondemnedCleared
<1>3. CASE StartResumed
  <2>1. resume # 0
    BY <1>3, <1>t, Numbers DEF StartResumed, Resuming, TypeOK
  <2> QED
    BY <1>3, <2>1 DEF StartResumed, CondemnedCleared
<1>4. CASE SkipWindow \/ CheckWindow \/ Tally
  <2>1. state = "progress" /\ pc # "clear" /\ condemned' = condemned
    BY <1>4, PlacedInside DEF SkipWindow, CheckWindow, Tally, Outside
  <2> QED
    BY <2>1 DEF CondemnedCleared
<1>5. CASE Close
  BY <1>5 DEF Close, CondemnedCleared, store
<1>6. CASE End
  <2>1. \/ pc' = "clear"
        \/ condemned' = condemned /\ resume' = 0
    BY <1>6 DEF End, EndAttempt
  <2> QED
    BY <1>6, <2>1 DEF End, FreeHandle, CondemnedCleared
<1>7. CASE ClearResume
  <2>1. state = "none" /\ state' = state /\ condemned' = condemned
    BY <1>7 DEF ClearResume, IInv, Placed, Outside, handle
  <2>2. \/ pc' = "clear_md5" /\ nvsOffset' = None
        \/ pc = "clear_md5" /\ nvsOffset' = nvsOffset /\ resume' = 0
    BY <1>7 DEF ClearResume, EndAttempt
  <2> QED
    BY <2>1, <2>2 DEF CondemnedCleared
<1> QED
  BY <1>1, <1>2, <1>3, <1>4, <1>5, <1>6, <1>7

LEMMA CondemnedStep == IInv /\ CondemnedCleared /\ [Next]_vars => CondemnedCleared'
<1> SUFFICES ASSUME IInv, CondemnedCleared, [Next]_vars PROVE CondemnedCleared'
  OBVIOUS
<1>1. ASSUME NEW j \in Job, Offer(j) PROVE CondemnedCleared'
  BY <1>1, CondemnedAside DEF Offer, store, handle
<1>2. CASE Wait \/ Timeout \/ AskHeader \/ Request
  BY <1>2, CondemnedAside DEF Wait, Timeout, AskHeader, Request, Fail, store, handle
<1>3. CASE BlockWoken
  <2>1. /\ UNCHANGED <<nvsOffset, state, resume, condemned>>
        /\ pc \notin {"clear", "clear_md5"}
    BY <1>3 DEF BlockWoken, store, handle
  <2> QED
    BY <2>1 DEF CondemnedCleared
<1>4. ASSUME NEW m \in net, StreamData(m) PROVE CondemnedCleared'
  <2>1. pc' = pc \/ {pc, pc'} \cap {"clear", "clear_md5"} = {}
    BY <1>4 DEF StreamData, Signal
  <2> QED
    BY <1>4, <2>1, CondemnedAside DEF StreamData, store
<1>5. CASE WriteBlock \/ Refused \/ Disconnect \/ Reconnect
  <2>1. pc' = pc \/ {pc, pc'} \cap {"clear", "clear_md5"} = {}
    BY <1>5 DEF WriteBlock, Refused, Disconnect, Reconnect, Signal, task
  <2> QED
    BY <1>5, <2>1, CondemnedAside
       DEF WriteBlock, Refused, Disconnect, Reconnect, store, handle, task
<1>6. CASE Crash
  BY <1>6 DEF Crash, CondemnedCleared
<1>7. CASE UNCHANGED vars
  BY <1>7, CondemnedAside DEF vars, store, handle, task
<1> QED
  BY <1>1, <1>2, <1>3, <1>4, <1>5, <1>6, <1>7, CondemnedOutside, CondemnedInside
     DEF Next, Download

(* A partition that esp_ota_end refused is not resumed: the next attempt    *)
(* begins with an erasure (esp_mqtt_ota_end, mqtt_ota_clear_resume_state).  *)
THEOREM RefusedIsErased == Spec => CondemnedIsErased
<1>1. Init => CondemnedCleared
  BY DEF Init, CondemnedCleared
<1>2. IInv /\ CondemnedCleared /\ [Next]_vars
        => [StartResumed /\ state' = "progress" => ~condemned]_vars
  <2> SUFFICES ASSUME IInv, CondemnedCleared, StartResumed, condemned PROVE FALSE
    OBVIOUS
  <2>1. pc = "perform" /\ resume # 0
    BY Numbers DEF StartResumed, Resuming, IInv, TypeOK
  <2> QED
    BY <2>1 DEF CondemnedCleared
<1> QED
  BY <1>1, <1>2, InitHolds, StepKeeps, CondemnedStep, PTL DEF Spec, CondemnedIsErased
-----------------------------------------------------------------------------
(* What NVS promises, where every job comes with a digest.  Before an       *)
(* attempt touches the partition, NVS holds its own image and its own       *)
(* offset, so that nothing it erases is promised.                           *)
Opening == {"wipe", "wipe_md5", "store", "store_md5", "open"}

Keyed ==
    /\ pc \in Opening \ {"open"} => resume = 0
    /\ pc = "store_md5" => nvsOffset = 0
    /\ pc = "open" \/ state = "begin" => nvsOffset = resume
    /\ pc = "open" \/ state # "none" =>
          /\ nvsMd5 = job.image
          /\ \A b \in Block : Resuming /\ b < resume => flash[b] \in {job.image, Torn}

LEMMA KeyedAside ==
  ASSUME Keyed, UNCHANGED <<flash, nvsOffset, nvsMd5, job, resume>>,
         pc' = pc \/ pc' \notin Opening,
         state' \in {state, "none"} \/ (state # "none" /\ state' # "begin")
  PROVE  Keyed'
BY DEF Keyed, Resuming, Opening

LEMMA KeyedNowhere == state' = "none" /\ pc' \notin Opening => Keyed'
BY DEF Keyed, Opening

LEMMA NoGapAside ==
  ASSUME ResumesBehindNoGap, UNCHANGED <<flash, nvsOffset, nvsMd5>>,
         writing = None \/ writing' = writing
  PROVE  ResumesBehindNoGap'
BY DEF ResumesBehindNoGap, HasResumeState

LEMMA ResumeLookup ==
  ASSUME IInv, Keyed, ResumesBehindNoGap, Lookup, Digests \subseteq {TRUE}
  PROVE  Keyed' /\ ResumesBehindNoGap'
<1>t. /\ TypeOK /\ pc = "lookup" /\ state = "none" /\ state' = "none" /\ writing = None
      /\ job \in Job /\ job.md5
      /\ UNCHANGED <<flash, nvsOffset, nvsMd5, job, writing>>
  <2>1. TypeOK /\ pc = "lookup" /\ state = "none" /\ job \in Job
    BY DEF IInv, Lookup, Placed, Outside
  <2>2. job.md5
    BY <2>1 DEF Job
  <2> QED
    BY <2>1, <2>2, NoWriting DEF IInv, Lookup, store, handle
<1>1. CASE HasResumeState /\ nvsMd5 = job.image /\ resume' = nvsOffset
           /\ pc' = IF nvsOffset = 0 THEN "store" ELSE "open"
  <2>1. nvsOffset \in 0 .. NumBlocks
    BY <1>1, <1>t DEF HasResumeState, TypeOK
  <2>2. \A b \in Block : Resuming' /\ b < resume' => flash[b] \in {job.image, Torn}
    BY <1>1, <1>t, <2>1 DEF Resuming, ResumesBehindNoGap
  <2> QED
    BY <1>1, <1>t, <2>2, NoGapAside DEF Keyed, Opening
<1>2. CASE resume' = 0 /\ pc' \in {"wipe", "store"}
  BY <1>2, <1>t, NoGapAside DEF Keyed, Opening
<1> QED
  BY <1>1, <1>2, <1>t DEF Lookup

LEMMA ResumeKeys ==
  ASSUME IInv, Keyed, ResumesBehindNoGap, WriteKeys
  PROVE  Keyed' /\ ResumesBehindNoGap'
<1>t. /\ TypeOK /\ state = "none" /\ state' = "none" /\ pc \in Opening \ {"open"}
      /\ resume = 0 /\ resume' = 0 /\ job' = job
  BY DEF IInv, WriteKeys, Placed, Outside, Keyed, Opening, handle
<1>1. Keyed'
  <2>1. ~Resuming'
    BY <1>t DEF Resuming
  <2> QED
    BY <1>t, <2>1 DEF WriteKeys, Keyed, Opening
<1>2. ResumesBehindNoGap'
  <2>1. nvsOffset' \in {None, 0} \/ nvsMd5' = None
    BY <1>t DEF WriteKeys, Keyed, Opening
  <2> QED
    BY <2>1 DEF ResumesBehindNoGap, HasResumeState
<1> QED
  BY <1>1, <1>2

LEMMA ResumeBegin ==
  ASSUME IInv, Keyed, ResumesBehindNoGap, Begin
  PROVE  Keyed' /\ ResumesBehindNoGap'
<1>t. /\ pc = "open" /\ state = "none" /\ UNCHANGED <<flash, nvsOffset, nvsMd5, job, writing>>
  BY DEF IInv, Begin, Placed, Outside, store
<1>1. CASE state' = state /\ EndAttempt("failed")
  BY <1>1, <1>t, KeyedNowhere, NoGapAside DEF EndAttempt, Opening
<1>2. CASE state' = "begin" /\ resume' = resume /\ pc' \in {"header", "perform"}
  BY <1>2, <1>t, NoGapAside DEF Keyed, Opening, Resuming
<1> QED
  BY <1>1, <1>2 DEF Begin

LEMMA ResumeStart ==
  ASSUME IInv, Keyed, ResumesBehindNoGap, StartErased \/ StartResumed
  PROVE  Keyed' /\ ResumesBehindNoGap'
<1>t. /\ TypeOK /\ state = "begin" /\ pc' \notin Opening
      /\ state' \in {"begin", "progress"} /\ writing = None
      /\ nvsOffset = resume /\ nvsMd5 = job.image
      /\ UNCHANGED <<nvsOffset, nvsMd5, job, resume, writing>>
  <2>1. TypeOK /\ pc = "perform" /\ pc' \notin Opening
    BY DEF IInv, StartErased, StartResumed, Fail, Opening
  <2>2. state = "begin"
    BY <2>1, PlacedInside DEF Outside
  <2> QED
    BY <2>1, <2>2 DEF IInv, Accounts, Keyed, StartErased, StartResumed
<1>1. CASE StartErased
  <2>1. ~Resuming /\ ~Resuming'
    BY <1>1, <1>t DEF StartErased, Resuming
  <2>2. Keyed'
    BY <1>t, <2>1 DEF Keyed, Opening
  <2>3. ResumesBehindNoGap'
    BY <1>t, <2>1 DEF ResumesBehindNoGap, Resuming
  <2> QED
    BY <2>2, <2>3
<1>2. CASE StartResumed
  <2>1. \A b \in Block : b < resume => flash'[b] = flash[b]
    BY <1>2, <1>t DEF StartResumed, TypeOK
  <2>2. Keyed'
    BY <1>t, <2>1 DEF Keyed, Opening, Resuming
  <2>3. ResumesBehindNoGap'
    BY <1>t, <2>1 DEF ResumesBehindNoGap, HasResumeState
  <2> QED
    BY <2>2, <2>3
<1> QED
  BY <1>1, <1>2

(* A window is left when all of it was struck off, and what is below the    *)
(* window was before: the offset promises nothing that was not begun.       *)
LEMMA ResumeAdvance ==
  ASSUME IInv, Keyed, ResumesBehindNoGap, SkipWindow \/ CheckWindow,
         Digests \subseteq {TRUE}
  PROVE  Keyed' /\ ResumesBehindNoGap'
<1>t. /\ TypeOK /\ state = "progress" /\ job \in Job /\ job.md5 /\ pc' = "tally"
      /\ UNCHANGED <<flash, nvsMd5, job, resume, state, left, writing>>
      /\ nvsMd5 = job.image
  <2>1. TypeOK /\ state = "progress" /\ job \in Job
    BY PlacedInside DEF IInv, SkipWindow, CheckWindow, Outside
  <2>2. job.md5
    BY <2>1 DEF Job
  <2> QED
    BY <2>1, <2>2 DEF SkipWindow, CheckWindow, Keyed
<1>1. Keyed'
  BY <1>t DEF Keyed, Opening, Resuming
<1>2. CASE nvsOffset' = nvsOffset
  BY <1>2, <1>t, <1>1, NoGapAside
<1>3. CASE Window \cap left = {} /\ nvsOffset' = offset + count
  <2>1. ASSUME NEW b \in Block, b < offset + count
        PROVE  flash[b] \in {job.image, Torn} \/ Underway(b)
    <3>1. CASE Start <= b
      <4>1. b \notin left
        <5>1. \A x \in left : offset <= x
          BY <1>t DEF IInv, WindowOfLeft
        <5> QED
          BY <5>1, <2>1, <1>3 DEF Window
      <4> QED
        BY <3>1, <4>1, <1>t DEF IInv, Accounts, Struck
    <3>2. CASE ~(Start <= b)
      <4>1. Resuming /\ b < resume
        BY <3>2, <1>t, Numbers DEF Start, TypeOK, Block
      <4> QED
        BY <4>1, <1>t DEF Keyed
    <3> QED
      BY <3>1, <3>2
  <2> QED
    BY <2>1, <1>1, <1>3, <1>t DEF ResumesBehindNoGap, Underway
<1> QED
  BY <1>2, <1>3, <1>t DEF SkipWindow, CheckWindow, Advance

LEMMA ResumeWrite ==
  ASSUME IInv, Keyed, ResumesBehindNoGap, WriteBlock
  PROVE  Keyed' /\ ResumesBehindNoGap'
<1> DEFINE w == writing.block
<1>t. /\ TypeOK /\ state # "none" /\ writing # None /\ writing' = None /\ w \in Block
      /\ nvsMd5 = job.image
      /\ UNCHANGED <<nvsOffset, nvsMd5, job, resume, state>>
      /\ pc' \in {pc, "woken"}
  BY DEF IInv, TypeOK, Msg, Accounts, WriteBlock, Keyed, Signal
<1>1. \A b \in Block : flash'[b] \in {job.image, Torn} \/ (b # w /\ flash'[b] = flash[b])
  BY <1>t DEF WriteBlock, TypeOK
<1>2. Keyed'
  BY <1>t, <1>1 DEF Keyed, Opening, Resuming
<1>3. ResumesBehindNoGap'
  BY <1>t, <1>1 DEF ResumesBehindNoGap, HasResumeState
<1> QED
  BY <1>2, <1>3

LEMMA ResumeOver ==
  ASSUME IInv, Keyed, ResumesBehindNoGap, End \/ ClearResume \/ Crash
  PROVE  Keyed' /\ ResumesBehindNoGap'
<1>1. state' = "none" /\ pc' \notin Opening
  BY DEF IInv, Placed, Outside, End, ClearResume, Crash, FreeHandle, EndAttempt,
         Opening, handle
<1>2. ASSUME End PROVE ResumesBehindNoGap'
  BY <1>2, NoGapAside DEF End
<1>3. ASSUME ClearResume PROVE ResumesBehindNoGap'
  <2>1. nvsOffset' = None \/ nvsMd5' = None
    BY <1>3 DEF ClearResume
  <2> QED
    BY <2>1 DEF ResumesBehindNoGap, HasResumeState
<1>4. ASSUME Crash PROVE ResumesBehindNoGap'
  <2>1. /\ UNCHANGED <<nvsOffset, nvsMd5>>
        /\ \A b \in Block : \/ flash'[b] = flash[b] /\ ~Underway(b)
                           \/ flash'[b] = Torn
    BY <1>4 DEF Crash, Underway
  <2> QED
    BY <2>1 DEF ResumesBehindNoGap, HasResumeState, Underway
<1> QED
  BY <1>1, <1>2, <1>3, <1>4, KeyedNowhere

LEMMA ResumeStep ==
  ASSUME IInv, Keyed, ResumesBehindNoGap, [Next]_vars, Digests \subseteq {TRUE}
  PROVE  Keyed' /\ ResumesBehindNoGap'
<1>1. ASSUME NEW j \in Job, Offer(j) PROVE Keyed' /\ ResumesBehindNoGap'
  <2>1. state' = "none"
    BY <1>1 DEF Offer, IInv, Placed, Outside, handle
  <2> QED
    BY <1>1, <2>1, KeyedNowhere, NoGapAside DEF Offer, Opening, store
<1>2. CASE WaitForMqtt
  <2>1. state' = "none" /\ pc' \notin Opening
    BY <1>2 DEF WaitForMqtt, IInv, Placed, Outside, handle, EndAttempt, Opening
  <2> QED
    BY <1>2, <2>1, KeyedNowhere, NoGapAside DEF WaitForMqtt, store
<1>3. CASE \/ AskHeader \/ Wait \/ Timeout \/ HeaderWoken \/ Request \/ BlockWoken
           \/ Tally \/ Close
  <2>1. UNCHANGED <<flash, nvsOffset, nvsMd5, job, resume, writing>>
    BY <1>3 DEF AskHeader, Wait, Timeout, HeaderWoken, Request, BlockWoken, Tally, Close,
                store
  <2>2. pc \notin Outside
    BY <1>3 DEF AskHeader, Wait, Timeout, HeaderWoken, Request, BlockWoken, Tally, Close,
                Outside
  <2>3. state # "none" /\ state' # "none" /\ (state' = state \/ state' # "begin")
    <3>1. state # "none"
      BY <2>2, PlacedInside
    <3> QED
      BY <1>3, <3>1 DEF AskHeader, Wait, Timeout, HeaderWoken, Request, BlockWoken,
                        Tally, Close, Fail, handle
  <2>4. pc' \notin Opening
    BY <2>3, StepKeeps DEF IInv, Placed, Outside, Opening
  <2> QED
    BY <2>1, <2>3, <2>4, KeyedAside, NoGapAside
<1>4. ASSUME NEW m \in net, StreamData(m) PROVE Keyed' /\ ResumesBehindNoGap'
  <2>1. pc' = pc \/ pc' \notin Opening
    BY <1>4 DEF StreamData, Signal, Opening
  <2> QED
    BY <1>4, <2>1, KeyedAside, NoGapAside DEF StreamData, store
<1>5. CASE Refused \/ Disconnect \/ Reconnect \/ UNCHANGED vars
  <2>1. pc' = pc \/ pc' \notin Opening
    BY <1>5 DEF Refused, Disconnect, Reconnect, Signal, task, vars, Opening
  <2> QED
    BY <1>5, <2>1, KeyedAside, NoGapAside
       DEF Refused, Disconnect, Reconnect, vars, store, handle, task
<1> QED
  BY <1>1, <1>2, <1>3, <1>4, <1>5, ResumeLookup, ResumeKeys, ResumeBegin, ResumeStart,
     ResumeAdvance, ResumeWrite, ResumeOver DEF Next, Download

(* What NVS promises a later attempt was begun, for jobs that come with a   *)
(* digest: no block below the offset is one that never came, or one of      *)
(* another image (mqtt_ota_set_resume_state, esp_rmaker_ota_use_mqtt,       *)
(* _received_complete_response).  Where a job without a digest may come     *)
(* between two attempts at another it is false: that one erases the         *)
(* partition and leaves the resume state.                                   *)
THEOREM NothingPromisedInVain ==
  ASSUME Digests \subseteq {TRUE}
  PROVE  Spec => []ResumesBehindNoGap
<1>1. Init => Keyed /\ ResumesBehindNoGap
  BY DEF Init, Keyed, Opening, ResumesBehindNoGap, HasResumeState
<1>2. IInv /\ Keyed /\ ResumesBehindNoGap /\ [Next]_vars => Keyed' /\ ResumesBehindNoGap'
  BY ResumeStep
<1> QED
  BY <1>1, <1>2, InitHolds, StepKeeps, PTL DEF Spec
=============================================================================
