--------------------------- MODULE OtaUpdateProofs ---------------------------
(***************************************************************************)
(* One update at a time, for any jobs, offers, crashes and failures, with   *)
(* or without overlapping offers; and that success is reported of the image *)
(* that runs, without them.                                                 *)
(***************************************************************************)
EXTENDS OtaUpdate, TLAPS

-----------------------------------------------------------------------------
(* The inductive invariant.  A handler, a waiting task or a running one     *)
(* owns the update, or nobody does; who owns it knows its job.              *)

Nobody == queued = 0 /\ cb = "none" /\ url = "idle"

OneOwner ==
    \/ Nobody
    \/ queued = 0 /\ cb = "none" /\ url = "storing" /\ offered \in Job
    \/ queued = 1 /\ cb = "none" /\ url = "idle" /\ transient \in Job
    \/ queued = 0 /\ cb # "none" /\ url = "idle" /\ transient \in Job

(* ota_in_progress is set while somebody owns an update, or a verdict is    *)
(* awaited or not yet noted; so that none of these begins under another.    *)
Owned ==
    /\ OneOwner
    /\ ~Nobody => inProgress /\ sys = "up"
    /\ ~verified => Nobody /\ other # Broken /\ (sys = "up" => inProgress)
    /\ validator \in {"mark", "erase", "clear"} => Nobody /\ inProgress
    /\ validator \in {"erase", "clear"} => verified
    /\ conn \/ validator # "idle" => sys = "up"

IInv == TypeOK /\ Owned

-----------------------------------------------------------------------------
LEMMA InitIInv == Init => IInv
<1> SUFFICES ASSUME Init PROVE IInv
  OBVIOUS
<1>1. TypeOK
  <2>1. /\ running \in Image /\ other \in Image \cup {Broken} /\ approved \subseteq Image
        /\ {nvsJob, failJob, transient, offered} \subseteq Job \cup {NoJob}
    BY DEF Init, Image
  <2>2. /\ {verified, bootOther, flag, inProgress, rolledBack, rebootDue, conn, late}
              \subseteq BOOLEAN
        /\ reports \subseteq Job \X Status
    BY DEF Init
  <2>3. offers \in 0 .. MaxOffers /\ crashes \in 0 .. MaxCrashes /\ lost \in 0 .. MaxLost
    BY OtaAssumption DEF Init
  <2> QED BY <2>1, <2>2, <2>3 DEF Init, TypeOK
<1>2. Owned
  BY DEF Init, Owned, OneOwner, Nobody
<1> QED BY <1>1, <1>2 DEF IInv

(* A boot leaves nothing in RAM, and whichever image runs after it, one that *)
(* is not verified has another to go back to.                                *)
LEMMA Booted ==
    ASSUME IInv, RamAtBoot,
           Bootloader \/ (/\ other # Broken /\ SwapSlots /\ verified' = ~bootOther
                          /\ bootOther' = FALSE /\ UNCHANGED approved),
           UNCHANGED <<nvs, cloud, offers, late>>,
           crashes' \in 0 .. MaxCrashes
    PROVE  IInv'
<1>1. /\ running' \in Image /\ other' \in Image \cup {Broken}
      /\ verified' \in BOOLEAN /\ bootOther' = FALSE /\ approved' = approved
      /\ ~verified' => other' # Broken
  <2>1. Broken \notin Image
    BY OtaAssumption DEF Image
  <2> QED BY <2>1 DEF IInv, TypeOK, Owned, Bootloader, SwapSlots
<1>2. TypeOK'
  BY <1>1 DEF IInv, TypeOK, RamAtBoot, nvs, cloud
<1>3. Owned'
  BY <1>1 DEF Owned, OneOwner, Nobody, RamAtBoot
<1> QED BY <1>2, <1>3 DEF IInv

LEMMA RolledBackAndRebooted == IInv /\ RollBackAndReboot => IInv'
<1> SUFFICES ASSUME IInv, RollBackAndReboot PROVE IInv'
  OBVIOUS
<1>1. crashes' \in 0 .. MaxCrashes /\ UNCHANGED late
  BY DEF IInv, TypeOK, RollBackAndReboot, bounds
<1> QED BY <1>1, Booted DEF RollBackAndReboot

(* What a report of the job in RAM, or else in NVS, leaves.                  *)
LEMMA ReportTypes ==
    ASSUME TypeOK, NEW status \in Status, Report(status)
    PROVE  /\ nvsJob' \in Job \cup {NoJob}
           /\ reports' \subseteq Job \X Status
           /\ lost' \in 0 .. MaxLost
<1>1. Named \in Job \cup {NoJob}
  BY DEF TypeOK, Named
<1>2. reports' \subseteq Job \X Status
  BY <1>1 DEF TypeOK, Report
<1>3. lost' \in 0 .. MaxLost
  BY OtaAssumption DEF TypeOK, Report
<1>4. nvsJob' \in Job \cup {NoJob}
  BY DEF TypeOK, Report
<1> QED BY <1>2, <1>3, <1>4

-----------------------------------------------------------------------------
LEMMA BootSteps ==
    IInv /\ (Reboot \/ Crash \/ ManageRollback \/ DiagnosticsFail) => IInv'
<1> SUFFICES ASSUME IInv, Reboot \/ Crash \/ ManageRollback \/ DiagnosticsFail
             PROVE  IInv'
  OBVIOUS
<1>1. CASE Reboot
  <2>1. crashes' \in 0 .. MaxCrashes /\ UNCHANGED late
    BY <1>1 DEF IInv, TypeOK, Reboot, bounds
  <2> QED BY <1>1, <2>1, Booted DEF Reboot
<1>2. CASE Crash
  <2>1. crashes' \in 0 .. MaxCrashes
    BY <1>2, OtaAssumption DEF IInv, TypeOK, Crash
  <2> QED BY <1>2, <2>1, Booted DEF Crash
<1>3. CASE ManageRollback
  <2>1. TypeOK'
    BY <1>3, ZenonT(60)
       DEF IInv, TypeOK, ManageRollback, flash, mqtt, queue, cloud, bounds
  <2>2. Owned'
    BY <1>3 DEF IInv, TypeOK, Owned, OneOwner, Nobody, ManageRollback, flash, mqtt, queue
  <2> QED BY <2>1, <2>2 DEF IInv
<1>4. CASE DiagnosticsFail
  BY <1>4, RolledBackAndRebooted DEF DiagnosticsFail
<1> QED BY <1>1, <1>2, <1>3, <1>4

LEMMA VerdictSteps ==
    IInv /\ (Connects \/ PostMqttDiagnosticsFail \/ AppValidates \/ AppInvalidates)
        => IInv'
<1> SUFFICES ASSUME IInv, \/ Connects \/ PostMqttDiagnosticsFail
                          \/ AppValidates \/ AppInvalidates
             PROVE  IInv'
  OBVIOUS
<1>1. CASE Connects
  <2>1. TypeOK'
    BY <1>1 DEF IInv, TypeOK, Connects, flash, nvs, update, queue, cloud, bounds
  <2>2. Owned'
    BY <1>1 DEF IInv, TypeOK, Owned, OneOwner, Nobody, Connects, flash, update, queue
  <2> QED BY <2>1, <2>2 DEF IInv
<1>2. CASE AppValidates
  <2>1. TypeOK'
    BY <1>2 DEF IInv, TypeOK, AppValidates, flash, nvs, update, mqtt, queue, cloud, bounds
  <2>2. Owned'
    BY <1>2
       DEF IInv, TypeOK, Owned, OneOwner, Nobody, AppValidates, flash, update, mqtt, queue
  <2> QED BY <2>1, <2>2 DEF IInv
<1>3. CASE PostMqttDiagnosticsFail \/ AppInvalidates
  BY <1>3, RolledBackAndRebooted DEF PostMqttDiagnosticsFail, AppInvalidates
<1> QED BY <1>1, <1>2, <1>3

LEMMA ValidationSteps == IInv /\ Validation => IInv'
<1> SUFFICES ASSUME IInv, Validation PROVE IInv'
  OBVIOUS
<1>1. CASE MarkValid
  <2>1. TypeOK'
    BY <1>1 DEF IInv, TypeOK, MarkValid, nvs, update, mqtt, queue, cloud
  <2>2. Owned'
    BY <1>1 DEF IInv, TypeOK, Owned, OneOwner, Nobody, MarkValid, update, mqtt, queue
  <2> QED BY <2>1, <2>2 DEF IInv
<1>2. CASE EraseFlag
  <2>1. TypeOK'
    BY <1>2, ZenonT(60)
       DEF IInv, TypeOK, EraseFlag, flash, update, mqtt, queue, cloud, bounds
  <2>2. Owned'
    BY <1>2 DEF IInv, TypeOK, Owned, OneOwner, Nobody, EraseFlag, flash, update, mqtt, queue
  <2> QED BY <2>1, <2>2 DEF IInv
<1>3. CASE ClearProgress
  <2>1. TypeOK'
    BY <1>3 DEF IInv, TypeOK, ClearProgress, flash, nvs, mqtt, queue, cloud, bounds
  <2>2. Owned'
    BY <1>3
       DEF IInv, TypeOK, Owned, OneOwner, Nobody, ClearProgress, flash, mqtt, queue
  <2> QED BY <2>1, <2>2 DEF IInv
<1>4. CASE ReportSuccess
  <2>1. TypeOK'
    BY <1>4, ReportTypes
       DEF IInv, TypeOK, ReportSuccess, Status, flash, update, mqtt, queue, bounds
  <2>2. Owned'
    BY <1>4
       DEF IInv, TypeOK, Owned, OneOwner, Nobody, ReportSuccess, flash, update, mqtt, queue
  <2> QED BY <2>1, <2>2 DEF IInv
<1> QED BY <1>1, <1>2, <1>3, <1>4 DEF Validation

LEMMA RollbackSteps == IInv /\ RollbackTimer => IInv'
<1> SUFFICES ASSUME IInv, RollbackTimer PROVE IInv'
  OBVIOUS
<1>1. CASE RollbackExpires
  <2>1. TypeOK'
    BY <1>1
       DEF IInv, TypeOK, RollbackExpires, flash, update, mqtt, queue, cloud
  <2>2. Owned'
    BY <1>1
       DEF IInv, TypeOK, Owned, OneOwner, Nobody, RollbackExpires, flash, update, mqtt, queue
  <2> QED BY <2>1, <2>2 DEF IInv
<1>2. CASE RollbackChecks \/ RollbackImpossible
  <2>1. TypeOK'
    BY <1>2
       DEF IInv, TypeOK, RollbackChecks, RollbackImpossible, flash, nvs, update, mqtt,
           queue, cloud, bounds
  <2>2. Owned'
    BY <1>2
       DEF IInv, TypeOK, Owned, OneOwner, Nobody, RollbackChecks, RollbackImpossible,
           flash, update, mqtt, queue
  <2> QED BY <2>1, <2>2 DEF IInv
<1>3. CASE RollbackActs
  BY <1>3, RolledBackAndRebooted DEF RollbackActs
<1> QED BY <1>1, <1>2, <1>3 DEF RollbackTimer

LEMMA WorkSteps == IInv /\ WorkFn => IInv'
<1> SUFFICES ASSUME IInv, WorkFn PROVE IInv'
  OBVIOUS
<1>1. CASE WorkFnReportsFailed
  <2>1. /\ reports' \subseteq Job \X Status /\ lost' \in 0 .. MaxLost
    BY <1>1, OtaAssumption DEF IInv, TypeOK, WorkFnReportsFailed, Status
  <2>2. TypeOK'
    BY <1>1, <2>1
       DEF IInv, TypeOK, WorkFnReportsFailed, flash, nvs, update, mqtt, verdict, bounds
  <2>3. Owned'
    BY <1>1
       DEF IInv, TypeOK, Owned, OneOwner, Nobody, WorkFnReportsFailed, flash, update, mqtt,
           verdict
  <2> QED BY <2>2, <2>3 DEF IInv
<1>2. CASE WorkFnErases
  <2>1. TypeOK'
    BY <1>2, ZenonT(60)
       DEF IInv, TypeOK, WorkFnErases, flash, mqtt, verdict, cloud, bounds
  <2>2. Owned'
    BY <1>2 DEF IInv, TypeOK, Owned, OneOwner, Nobody, WorkFnErases, flash, mqtt, verdict
  <2> QED BY <2>1, <2>2 DEF IInv
<1>3. CASE WorkFnReportsRejected
  <2>1. /\ nvsJob' \in Job \cup {NoJob} /\ reports' \subseteq Job \X Status
        /\ lost' \in 0 .. MaxLost
    BY <1>3, ReportTypes DEF IInv, WorkFnReportsRejected, Status
  <2>2. TypeOK'
    BY <1>3, <2>1, ZenonT(60)
       DEF IInv, TypeOK, WorkFnReportsRejected, flash, mqtt, verdict, bounds
  <2>3. Owned'
    BY <1>3
       DEF IInv, TypeOK, Owned, OneOwner, Nobody, WorkFnReportsRejected, flash, mqtt, verdict
  <2> QED BY <2>2, <2>3 DEF IInv
<1>4. CASE WorkFnSubscribes
  <2>1. TypeOK'
    BY <1>4
       DEF IInv, TypeOK, WorkFnSubscribes, flash, nvs, update, mqtt, verdict, cloud, bounds
  <2>2. Owned'
    BY <1>4
       DEF IInv, TypeOK, Owned, OneOwner, Nobody, WorkFnSubscribes, flash, update, mqtt, verdict
  <2> QED BY <2>1, <2>2 DEF IInv
<1> QED BY <1>1, <1>2, <1>3, <1>4 DEF WorkFn

LEMMA UrlSteps == IInv /\ Url => IInv'
<1> SUFFICES ASSUME IInv, Url PROVE IInv'
  OBVIOUS
<1>1. ASSUME NEW j \in Job, UrlArrives(j) PROVE IInv'
  <2>1. Nobody /\ verified
    BY <1>1 DEF IInv, Owned, UrlArrives
  <2>2. offers' \in 0 .. MaxOffers
    BY <1>1, OtaAssumption DEF IInv, TypeOK, UrlArrives
  <2>3. TypeOK'
    BY <1>1, <2>2
       DEF IInv, TypeOK, UrlArrives, flash, nvs, queue, verdict, cloud, bounds
  <2>4. Owned'
    BY <1>1, <2>1
       DEF IInv, TypeOK, Owned, OneOwner, Nobody, UrlArrives, flash, queue, verdict
  <2> QED BY <2>3, <2>4 DEF IInv
<1>2. CASE UrlQueues
  <2>1. queued = 0 /\ cb = "none" /\ offered \in Job /\ inProgress /\ verified
    BY <1>2 DEF IInv, Owned, OneOwner, Nobody, UrlQueues
  <2>2. TypeOK'
    BY <1>2, <2>1 DEF IInv, TypeOK, UrlQueues, flash, verdict, cloud, bounds
  <2>3. Owned'
    BY <1>2, <2>1 DEF IInv, TypeOK, Owned, OneOwner, Nobody, UrlQueues, flash, verdict
  <2> QED BY <2>2, <2>3 DEF IInv
<1>3. CASE UrlAborts
  <2>1. queued = 0 /\ cb = "none" /\ offered \in Job /\ verified
        /\ validator \notin {"mark", "erase", "clear"}
    BY <1>3 DEF IInv, Owned, OneOwner, Nobody, UrlAborts
  <2>2. reports' \subseteq Job \X Status
    BY <1>3, <2>1 DEF IInv, TypeOK, UrlAborts, Status
  <2>3. TypeOK'
    BY <1>3, <2>1, <2>2
       DEF IInv, TypeOK, UrlAborts, Finish, flash, queue, verdict, bounds
  <2>4. Owned'
    BY <1>3, <2>1
       DEF IInv, TypeOK, Owned, OneOwner, Nobody, UrlAborts, Finish, flash, queue, verdict
  <2> QED BY <2>3, <2>4 DEF IInv
<1> QED BY <1>1, <1>2, <1>3 DEF Url

LEMMA DownloadSteps == IInv /\ Download => IInv'
<1> SUFFICES ASSUME IInv, Download PROVE IInv'
  OBVIOUS
<1>0. cb # "none" \/ queued > 0 =>
        /\ url = "idle" /\ transient \in Job /\ inProgress /\ sys = "up" /\ verified
        /\ validator \notin {"mark", "erase", "clear"}
        /\ IF cb = "none" THEN queued = 1 ELSE queued = 0
  BY DEF IInv, TypeOK, Owned, OneOwner, Nobody
<1>1. CASE CbStarts
  <2>1. TypeOK'
    BY <1>0, <1>1
       DEF IInv, TypeOK, CbStarts, flash, nvs, update, mqtt, verdict, cloud, bounds
  <2>2. Owned'
    BY <1>0, <1>1
       DEF IInv, TypeOK, Owned, OneOwner, Nobody, CbStarts, flash, update, mqtt, verdict
  <2> QED BY <2>1, <2>2 DEF IInv
<1>2. CASE CbGivesUp
  <2>1. reports' \subseteq Job \X Status
    BY <1>0, <1>2 DEF IInv, TypeOK, CbGivesUp, Status
  <2>2. TypeOK'
    BY <1>0, <1>2, <2>1
       DEF IInv, TypeOK, CbGivesUp, Finish, flash, nvs, mqtt, verdict, bounds
  <2>3. Owned'
    BY <1>0, <1>2
       DEF IInv, TypeOK, Owned, OneOwner, Nobody, CbGivesUp, Finish, flash, mqtt, verdict
  <2> QED BY <2>2, <2>3 DEF IInv
<1>3. CASE CbRejects
  <2>1. /\ nvsJob' \in Job \cup {NoJob} /\ reports' \subseteq Job \X Status
        /\ lost' \in 0 .. MaxLost
    BY <1>3, ReportTypes DEF IInv, CbRejects, Status
  <2>2. TypeOK'
    BY <1>0, <1>3, <2>1
       DEF IInv, TypeOK, CbRejects, Finish, flash, mqtt, verdict, bounds
  <2>3. Owned'
    BY <1>0, <1>3
       DEF IInv, TypeOK, Owned, OneOwner, Nobody, CbRejects, Finish, flash, mqtt, verdict
  <2> QED BY <2>2, <2>3 DEF IInv
<1>4. CASE CbWrites
  <2>1. TypeOK'
    BY <1>0, <1>4
       DEF IInv, TypeOK, CbWrites, nvs, update, mqtt, verdict, cloud, bounds
  <2>2. Owned'
    BY <1>0, <1>4
       DEF IInv, TypeOK, Owned, OneOwner, Nobody, CbWrites, update, mqtt, verdict
  <2> QED BY <2>1, <2>2 DEF IInv
<1>5. CASE CbCompletes
  <2>1. TypeOK'
    BY <1>0, <1>5
       DEF IInv, TypeOK, Image, CbCompletes, nvs, update, mqtt, verdict, cloud, bounds
  <2>2. Owned'
    BY <1>0, <1>5
       DEF IInv, TypeOK, Owned, OneOwner, Nobody, CbCompletes, update, mqtt, verdict
  <2> QED BY <2>1, <2>2 DEF IInv
<1>6. CASE CbFlags
  <2>1. TypeOK'
    BY <1>0, <1>6
       DEF IInv, TypeOK, CbFlags, flash, update, mqtt, verdict, cloud, bounds
  <2>2. Owned'
    BY <1>0, <1>6
       DEF IInv, TypeOK, Owned, OneOwner, Nobody, CbFlags, flash, update, mqtt, verdict
  <2> QED BY <2>1, <2>2 DEF IInv
<1>7. CASE CbReboots
  <2>1. TypeOK'
    BY <1>0, <1>7
       DEF IInv, TypeOK, CbReboots, Finish, flash, nvs, mqtt, verdict, cloud, bounds
  <2>2. Owned'
    BY <1>0, <1>7
       DEF IInv, TypeOK, Owned, OneOwner, Nobody, CbReboots, Finish, flash, mqtt, verdict
  <2> QED BY <2>1, <2>2 DEF IInv
<1> QED BY <1>1, <1>2, <1>3, <1>4, <1>5, <1>6, <1>7 DEF Download

LEMMA NextIInv == IInv /\ [Next]_vars => IInv'
<1>1. IInv /\ UNCHANGED vars => IInv'
  BY DEF IInv, TypeOK, Owned, OneOwner, Nobody, vars, flash, nvs, update, mqtt, queue,
         verdict, cloud, bounds
<1> QED
  BY <1>1, BootSteps, VerdictSteps, ValidationSteps, RollbackSteps, WorkSteps, UrlSteps,
     DownloadSteps
  DEF Next

(* An update is owned by one handler or task at a time, and by none while the *)
(* image that runs awaits its verdict, whose predecessor stays whole in the   *)
(* other slot: whenever it is rolled back, there is something to roll back to.*)
THEOREM UpdatesKeptApart == Spec => []UpdatesAreApart
<1>1. IInv => UpdatesAreApart
  BY DEF IInv, TypeOK, Owned, OneOwner, Nobody, UpdatesAreApart, OneUpdate
<1> QED BY <1>1, InitIInv, NextIInv, PTL DEF Spec
-----------------------------------------------------------------------------
(* A report names the job in RAM, and the one in NVS if there is none, so   *)
(* that SUCCESS is about the image that runs only because the job in NVS is *)
(* that of the image being downloaded, to be booted or to be judged.        *)

Working  == queued > 0 \/ cb # "none"
ToBeBooted == bootOther /\ other # Broken

RamJobKnown ==
    /\ transient # NoJob => Working
    /\ url = "idle" => offered = NoJob
    /\ validator # "idle" => Nobody

JudgedIsRunning ==
    /\ validator # "idle" \/ ~verified => nvsJob \in {running, NoJob}
    /\ validator \in {"erase", "clear", "report"} => running \in approved

DownloadedIsStored == Working => nvsJob \in {transient, NoJob}

NextIsStored ==
    ToBeBooted => /\ other \in Job
                  /\ {nvsJob, transient, offered} \subseteq {other, NoJob}

JobKnown ==
    /\ RamJobKnown /\ JudgedIsRunning /\ DownloadedIsStored /\ NextIsStored
    /\ NoFalseSuccess

(* What a boot leaves to be judged is what was to be booted.                *)
LEMMA BootedKnown ==
  ASSUME IInv, JobKnown, RamAtBoot, UNCHANGED <<nvs, reports, approved>>,
         \/ Bootloader
         \/ SwapSlots /\ verified' = ~bootOther /\ bootOther' = FALSE /\ other # Broken
  PROVE  JobKnown'
<1>1. RamJobKnown' /\ DownloadedIsStored' /\ NoFalseSuccess'
  BY DEF RamAtBoot, RamJobKnown, Working, Nobody, DownloadedIsStored, JobKnown, NoFalseSuccess
<1>2. bootOther' = FALSE
  BY DEF Bootloader
<1>3. ~verified' => ToBeBooted /\ running' = other
  <2>1. bootOther \in BOOLEAN /\ (~verified => other # Broken)
    BY DEF IInv, TypeOK, Owned
  <2>2. CASE Bootloader
    BY <2>1, <2>2 DEF Bootloader, SwapSlots, ToBeBooted
  <2>3. CASE SwapSlots /\ verified' = ~bootOther /\ other # Broken
    BY <2>1, <2>3 DEF SwapSlots, ToBeBooted
  <2> QED
    BY <2>2, <2>3
<1>4. JudgedIsRunning' /\ NextIsStored'
  BY <1>2, <1>3 DEF RamAtBoot, JudgedIsRunning, NextIsStored, ToBeBooted, JobKnown, nvs
<1> QED
  BY <1>1, <1>4 DEF JobKnown

LEMMA RolledBackKnown == IInv /\ JobKnown /\ RollBackAndReboot => JobKnown'
BY BootedKnown DEF RollBackAndReboot, cloud

LEMMA BootKnown ==
    IInv /\ JobKnown /\ (Reboot \/ Crash \/ ManageRollback \/ DiagnosticsFail) => JobKnown'
<1> SUFFICES ASSUME IInv, JobKnown, Reboot \/ Crash \/ ManageRollback \/ DiagnosticsFail
             PROVE  JobKnown'
  OBVIOUS
<1>1. CASE Reboot \/ Crash
  BY <1>1, BootedKnown DEF Reboot, Crash, Bootloader, cloud
<1>2. CASE ManageRollback
  BY <1>2 DEF ManageRollback, flash, mqtt, queue, cloud, JobKnown, RamJobKnown, Working,
     Nobody, JudgedIsRunning, DownloadedIsStored, NextIsStored, ToBeBooted, NoFalseSuccess
<1>3. CASE DiagnosticsFail
  BY <1>3, RolledBackKnown DEF DiagnosticsFail
<1> QED
  BY <1>1, <1>2, <1>3

LEMMA VerdictKnown ==
    IInv /\ JobKnown /\ (\/ Connects \/ PostMqttDiagnosticsFail \/ AppValidates
                         \/ AppInvalidates \/ RollbackTimer)
        => JobKnown'
<1> SUFFICES ASSUME IInv, JobKnown,
                    \/ Connects \/ PostMqttDiagnosticsFail \/ AppValidates
                    \/ AppInvalidates \/ RollbackTimer
             PROVE  JobKnown'
  OBVIOUS
<1> USE DEF JobKnown, RamJobKnown, Working, Nobody, JudgedIsRunning, DownloadedIsStored,
            NextIsStored, ToBeBooted, NoFalseSuccess, IInv, Owned
<1>1. CASE Connects
  BY <1>1 DEF Connects, flash, nvs, update, queue, cloud
<1>2. CASE AppValidates
  BY <1>2 DEF AppValidates, flash, nvs, update, mqtt, queue, cloud
<1>3. CASE RollbackExpires
  BY <1>3 DEF RollbackExpires, flash, update, mqtt, queue, cloud
<1>4. CASE RollbackChecks \/ RollbackImpossible
  BY <1>4 DEF RollbackChecks, RollbackImpossible, flash, nvs, update, mqtt, queue, cloud
<1>5. CASE PostMqttDiagnosticsFail \/ AppInvalidates \/ RollbackActs
  BY <1>5, RolledBackKnown DEF PostMqttDiagnosticsFail, AppInvalidates, RollbackActs
<1> QED
  BY <1>1, <1>2, <1>3, <1>4, <1>5 DEF RollbackTimer

(* The job of the image just marked valid is the one reported.              *)
LEMMA ValidationKnown == IInv /\ JobKnown /\ Validation => JobKnown'
<1> SUFFICES ASSUME IInv, JobKnown, Validation PROVE JobKnown'
  OBVIOUS
<1> USE DEF JobKnown, RamJobKnown, Working, Nobody, JudgedIsRunning, DownloadedIsStored,
            NextIsStored, ToBeBooted
<1>1. CASE MarkValid
  BY <1>1 DEF MarkValid, NoFalseSuccess, nvs, update, mqtt, queue, cloud
<1>2. CASE EraseFlag \/ ClearProgress
  BY <1>2 DEF EraseFlag, ClearProgress, NoFalseSuccess, flash, nvs, update, mqtt, queue, cloud
<1>3. CASE ReportSuccess
  <2>1. transient = NoJob /\ running \in approved /\ nvsJob \in {running, NoJob}
    BY <1>3 DEF ReportSuccess, IInv, TypeOK
  <2>2. /\ nvsJob' = NoJob /\ validator' = "idle"
        /\ reports' \subseteq reports \cup {<<running, "success">>}
        /\ UNCHANGED <<flash, update, mqtt, queue>>
    BY <1>3, <2>1 DEF ReportSuccess, Report, Named
  <2>3. NoFalseSuccess'
    BY <2>1, <2>2 DEF NoFalseSuccess, flash
  <2> QED
    BY <1>3, <2>1, <2>2, <2>3 DEF flash, update, mqtt, queue
<1> QED
  BY <1>1, <1>2, <1>3 DEF Validation

LEMMA WorkKnown == IInv /\ JobKnown /\ WorkFn => JobKnown'
<1> SUFFICES ASSUME IInv, JobKnown, WorkFn PROVE JobKnown'
  OBVIOUS
<1>1. reports' \subseteq reports \cup {<<j, s>> : j \in Job \cup {NoJob},
                                                  s \in {"failed", "rejected"}}
  BY DEF WorkFn, WorkFnReportsFailed, WorkFnErases, WorkFnReportsRejected,
     WorkFnSubscribes, Report, Named, cloud, IInv, TypeOK
<1>2. nvsJob' \in {nvsJob, NoJob}
      /\ UNCHANGED <<flash, transient, mqtt, queued, cb, validator>>
  BY DEF WorkFn, WorkFnReportsFailed, WorkFnErases, WorkFnReportsRejected,
     WorkFnSubscribes, Report, nvs, update, verdict
<1>3. NoFalseSuccess'
  BY <1>1, <1>2 DEF JobKnown, NoFalseSuccess, flash
<1> QED
  BY <1>2, <1>3 DEF JobKnown, RamJobKnown, Working, Nobody, JudgedIsRunning,
     DownloadedIsStored, NextIsStored, ToBeBooted, flash, mqtt

(* Only here does it matter that no job is offered while another is decided.*)
LEMMA UrlKnown == IInv /\ JobKnown /\ ~Overlap /\ Url => JobKnown'
<1> SUFFICES ASSUME IInv, JobKnown, ~Overlap, Url PROVE JobKnown'
  OBVIOUS
<1> USE DEF JobKnown, RamJobKnown, Working, Nobody, JudgedIsRunning, DownloadedIsStored,
            NextIsStored, ToBeBooted
<1>1. ASSUME NEW j \in Job, UrlArrives(j) PROVE JobKnown'
  <2>1. validator = "idle" /\ verified /\ (ToBeBooted => j = other)
    BY <1>1 DEF UrlArrives, Offerable, Busy, IInv, Owned
  <2> QED
    BY <1>1, <2>1 DEF UrlArrives, NoFalseSuccess, flash, nvs, queue, verdict, cloud
<1>2. CASE UrlQueues
  <2>1. validator = "idle" /\ verified /\ queued = 0 /\ offered \in Job
    BY <1>2 DEF UrlQueues, IInv, Owned, OneOwner
  <2> QED
    BY <1>2, <2>1 DEF UrlQueues, NoFalseSuccess, flash, verdict, cloud
<1>3. CASE UrlAborts
  <2>1. validator = "idle" /\ verified /\ queued = 0 /\ cb = "none" /\ offered \in Job
    BY <1>3 DEF UrlAborts, IInv, Owned, OneOwner
  <2>2. reports' \subseteq reports \cup {<<offered, "failed">>} /\ UNCHANGED approved
    BY <1>3 DEF UrlAborts, flash
  <2>3. NoFalseSuccess'
    BY <2>2 DEF NoFalseSuccess
  <2> QED
    BY <1>3, <2>1, <2>3 DEF UrlAborts, Finish, flash, queue, verdict
<1> QED
  BY <1>1, <1>2, <1>3 DEF Url

LEMMA DownloadKnown == IInv /\ JobKnown /\ Download => JobKnown'
<1> SUFFICES ASSUME IInv, JobKnown, Download PROVE JobKnown'
  OBVIOUS
<1> USE DEF JobKnown, RamJobKnown, Working, Nobody, JudgedIsRunning, DownloadedIsStored,
            NextIsStored, ToBeBooted
<1>0. /\ validator = "idle" /\ verified /\ url = "idle" /\ transient \in Job
      /\ IF cb = "none" THEN queued = 1 ELSE queued = 0
  BY DEF Download, CbStarts, CbGivesUp, CbRejects, CbWrites, CbCompletes, CbFlags,
     CbReboots, IInv, TypeOK, Owned, OneOwner
<1>1. CASE CbStarts
  BY <1>0, <1>1 DEF CbStarts, NoFalseSuccess, flash, nvs, update, mqtt, verdict, cloud
<1>2. CASE CbGivesUp \/ CbRejects
  <2>1. reports' \subseteq reports \cup {<<transient, s>> : s \in {"failed", "rejected"}}
        /\ UNCHANGED approved
    BY <1>0, <1>2, OtaAssumption DEF CbGivesUp, CbRejects, Report, Named, flash
  <2>2. NoFalseSuccess'
    BY <2>1 DEF NoFalseSuccess
  <2>3. /\ cb' = "none" /\ transient' = NoJob /\ nvsJob' = nvsJob
        /\ UNCHANGED <<flash, mqtt, queued, verdict>>
    BY <1>0, <1>2, OtaAssumption DEF CbGivesUp, CbRejects, Report, Finish, nvs
  <2> QED
    BY <1>0, <1>2, <2>2, <2>3 DEF CbGivesUp, CbRejects, flash, mqtt, verdict
<1>3. CASE CbWrites \/ CbCompletes
  <2>1. ToBeBooted' => other' = transient
    BY <1>3 DEF CbWrites, CbCompletes
  <2>2. /\ offered = NoJob /\ nvsJob \in {transient, NoJob}
        /\ cb' # "none"
        /\ UNCHANGED <<running, verified, approved, nvs, update, mqtt, queued, verdict, cloud>>
    BY <1>0, <1>3 DEF CbWrites, CbCompletes
  <2>3. NoFalseSuccess'
    BY <2>2 DEF NoFalseSuccess, cloud
  <2> QED
    BY <1>0, <2>1, <2>2, <2>3 DEF nvs, update, mqtt, verdict
<1>4. CASE CbFlags \/ CbReboots
  <2>1. /\ cb # "none"
        /\ (cb' = "flagged" /\ transient' = transient) \/ (cb' = "none" /\ transient' = NoJob)
        /\ UNCHANGED <<flash, nvsJob, mqtt, queued, verdict, cloud>>
    BY <1>4 DEF CbFlags, CbReboots, Finish, nvs, update
  <2>2. NoFalseSuccess'
    BY <2>1 DEF NoFalseSuccess, flash, cloud
  <2> QED
    BY <1>0, <2>1, <2>2 DEF flash, mqtt, verdict
<1> QED
  BY <1>1, <1>2, <1>3, <1>4 DEF Download

LEMMA NextKnown == IInv /\ JobKnown /\ ~Overlap /\ [Next]_vars => JobKnown'
<1>1. JobKnown /\ UNCHANGED vars => JobKnown'
  BY DEF vars, flash, nvs, update, mqtt, queue, verdict, cloud, JobKnown, RamJobKnown,
     Working, Nobody, JudgedIsRunning, DownloadedIsStored, NextIsStored, ToBeBooted,
     NoFalseSuccess
<1> QED
  BY <1>1, BootKnown, VerdictKnown, ValidationKnown, WorkKnown, UrlKnown, DownloadKnown
  DEF Next

(* As long as the cloud offers no other job while one is being decided, it  *)
(* hears SUCCESS only of jobs whose image was marked valid, however updates *)
(* fail, are rolled back, crash or lose reports.  (With Overlap an image is *)
(* marked valid under the job of another: nvsJob is that of the last offer.)*)
THEOREM SuccessIsTrue == ~Overlap => (Spec => []NoFalseSuccess)
<1> SUFFICES ASSUME ~Overlap PROVE Spec => []NoFalseSuccess
  OBVIOUS
<1>1. Init => JobKnown
  BY DEF Init, JobKnown, RamJobKnown, Working, Nobody, JudgedIsRunning,
     DownloadedIsStored, NextIsStored, ToBeBooted, NoFalseSuccess
<1>2. IInv /\ JobKnown /\ [Next]_vars => JobKnown'
  BY NextKnown
<1>3. JobKnown => NoFalseSuccess
  BY DEF JobKnown
<1> QED
  BY <1>1, <1>2, <1>3, InitIInv, NextIInv, PTL DEF Spec
=============================================================================
