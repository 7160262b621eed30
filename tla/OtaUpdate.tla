------------------------------ MODULE OtaUpdate ------------------------------
(***************************************************************************)
(* A firmware update over topics (ota/esp_rmaker_ota.c and                 *)
(* ota/esp_rmaker_ota_using_topics.c), from the URL message to the verdict *)
(* on the new firmware, across the reboots in between.                     *)
(*                                                                         *)
(* Four tasks take part: the MQTT task runs ota_url_handler, the work      *)
(* queue downloads and reports rollbacks, whoever validates the firmware   *)
(* (the event loop on an MQTT connection, or the application) runs         *)
(* esp_rmaker_ota_mark_valid, and the timer task rolls back an image that  *)
(* is not validated in time.  Only flash and NVS survive a boot, and a     *)
(* power failure may come between any two writes.                          *)
(*                                                                         *)
(* An image is named by the job that brings it.  The transfer itself, the  *)
(* download window and the fetch requests are left out: any job the cloud  *)
(* still wants done may be offered at any time.                            *)
(***************************************************************************)
EXTENDS Naturals, FiniteSets

CONSTANTS Job,
          NoJob,
          Base,          (* the image the node was made with                 *)
          Broken,        (* a slot without a complete image                  *)
          ReportFailed,  (* CONFIG_ESP_RMAKER_OTA_ROLLBACK_REPORT_FAILED     *)
          Overlap,       (* may a job be offered while another is decided?   *)
          MaxOffers, MaxCrashes, MaxLost

ASSUME OtaAssumption ==
    /\ NoJob \notin Job /\ Base \notin Job /\ Broken \notin Job \cup {Base}
    /\ ReportFailed \in BOOLEAN /\ Overlap \in BOOLEAN
    /\ MaxOffers \in Nat /\ MaxCrashes \in Nat /\ MaxLost \in Nat

VARIABLES running,    (* the image that runs                                 *)
          verified,   (* is it marked valid, or pending verification?        *)
          other,      (* what the other slot holds                           *)
          bootOther,  (* does the next boot try the other slot?              *)
          flag,       (* NVS: RMAKER_OTA_UPDATE_FLAG_NVS_NAME                *)
          nvsJob,     (* NVS: RMAKER_OTA_JOB_ID_NVS_NAME                     *)
          failJob,    (* NVS: RMAKER_OTA_FAIL_JOB_ID_NVS_NAME                *)
          sys,        (* "boot" until esp_rmaker_ota_enable, then "up"       *)
          inProgress, (* ota->ota_in_progress                                *)
          transient,  (* ota->transient_priv, the job being worked on        *)
          rolledBack, (* ota->rolled_back                                    *)
          url,        (* the URL handler: "idle" or "storing"                *)
          offered,    (* the job in the URL message being handled            *)
          queued,     (* esp_rmaker_ota_common_cb tasks waiting              *)
          cb,         (* where the running one stands, "none" if none        *)
          rebootDue,  (* esp_rmaker_reboot was called                        *)
          conn,       (* is MQTT connected?                                  *)
          work,       (* esp_rmaker_ota_work_fn                              *)
          validator,  (* where mark_valid stands                             *)
          judge,      (* the task that runs it: "loop" or "app"              *)
          timer,      (* ota->rollback_timer                                 *)
          rollback,   (* where the timer task stands in esp_ota_rollback     *)
          reports,    (* statuses the cloud was told                         *)
          approved,   (* images ever marked valid                            *)
          late,       (* did the timer ever expire as mark_valid ran?        *)
          offers, crashes, lost

flash   == <<running, verified, other, bootOther, approved>>
nvs     == <<flag, nvsJob, failJob>>
update  == <<inProgress, transient, rolledBack>>
mqtt    == <<url, offered, conn, offers>>
queue   == <<queued, cb, rebootDue, work>>
verdict == <<validator, judge, timer, rollback>>
cloud   == <<reports, lost>>
bounds  == <<crashes, late>>
vars    == <<flash, nvs, update, mqtt, queue, verdict, cloud, sys, bounds>>

Image  == Job \cup {Base}
Status == {"success", "failed", "rejected"}

TypeOK ==
    /\ running \in Image /\ other \in Image \cup {Broken}
    /\ approved \subseteq Image
    /\ {verified, bootOther, flag, inProgress, rolledBack, rebootDue, conn, late}
           \subseteq BOOLEAN
    /\ {nvsJob, failJob, transient, offered} \subseteq Job \cup {NoJob}
    /\ sys \in {"boot", "up"}
    /\ url \in {"idle", "storing"}
    /\ queued \in Nat
    /\ cb \in {"none", "download", "writing", "complete", "flagged"}
    /\ work \in {"waiting", "reported", "subscribed"}
    /\ validator \in {"idle", "mark", "erase", "clear", "report"}
    /\ judge \in {"loop", "app"}
    /\ timer \in {"off", "armed"}
    /\ rollback \in {"idle", "stored", "decided"}
    /\ reports \subseteq (Job \X Status)
    /\ offers \in 0..MaxOffers /\ crashes \in 0..MaxCrashes /\ lost \in 0..MaxLost

RamAtBoot ==
    /\ sys' = "boot"
    /\ inProgress' = FALSE /\ transient' = NoJob /\ rolledBack' = FALSE
    /\ url' = "idle" /\ offered' = NoJob /\ conn' = FALSE
    /\ queued' = 0 /\ cb' = "none" /\ rebootDue' = FALSE /\ work' = "waiting"
    /\ validator' = "idle" /\ judge' = "loop" /\ timer' = "off" /\ rollback' = "idle"

Init ==
    /\ running = Base /\ verified = TRUE /\ other = Broken /\ bootOther = FALSE
    /\ flag = FALSE /\ nvsJob = NoJob /\ failJob = NoJob
    /\ sys = "boot"
    /\ inProgress = FALSE /\ transient = NoJob /\ rolledBack = FALSE
    /\ url = "idle" /\ offered = NoJob /\ conn = FALSE
    /\ queued = 0 /\ cb = "none" /\ rebootDue = FALSE /\ work = "waiting"
    /\ validator = "idle" /\ judge = "loop" /\ timer = "off" /\ rollback = "idle"
    /\ reports = {} /\ approved = {Base}
    /\ late = FALSE /\ offers = 0 /\ crashes = 0 /\ lost = 0

-----------------------------------------------------------------------------
(* The bootloader: it boots the other slot if asked to and if that holds an *)
(* image, and leaves an image that was booted once and not marked valid.    *)
SwapSlots == running' = other /\ other' = running

Bootloader ==
    /\ bootOther' = FALSE
    /\ \/ bootOther /\ other # Broken /\ SwapSlots /\ verified' = FALSE
       \/ bootOther /\ other = Broken /\ UNCHANGED <<running, other, verified>>
       \/ ~bootOther /\ ~verified /\ SwapSlots /\ verified' = TRUE
       \/ ~bootOther /\ verified /\ UNCHANGED <<running, other, verified>>
    /\ UNCHANGED approved

(* esp_ota_mark_app_invalid_rollback_and_reboot boots the other slot,        *)
(* whatever the state of the image that runs; it fails if that slot holds no *)
(* image.                                                                    *)
RollBackAndReboot ==
    /\ other # Broken
    /\ SwapSlots /\ verified' = ~bootOther /\ bootOther' = FALSE
    /\ RamAtBoot
    /\ UNCHANGED <<approved, nvs, cloud, offers, bounds>>

Reboot ==
    /\ rebootDue
    /\ Bootloader /\ RamAtBoot
    /\ UNCHANGED <<nvs, cloud, offers, bounds>>

Crash ==
    /\ crashes < MaxCrashes
    /\ crashes' = crashes + 1
    /\ Bootloader /\ RamAtBoot
    /\ UNCHANGED <<nvs, cloud, offers, late>>

-----------------------------------------------------------------------------
(* esp_rmaker_ota_report_status_using_topics: without a current job the one *)
(* in NVS is meant, and is erased before the message is published.          *)
Named == IF transient # NoJob THEN transient ELSE nvsJob

Report(status) ==
    /\ nvsJob' = IF transient # NoJob THEN nvsJob ELSE NoJob
    /\ \/ /\ reports' = IF Named = NoJob THEN reports
                        ELSE reports \cup {<<Named, status>>}
          /\ UNCHANGED lost
       \/ /\ lost < MaxLost /\ Named # NoJob
          /\ lost' = lost + 1
          /\ UNCHANGED reports

-----------------------------------------------------------------------------
(* MUTANT of ManageRollback: no timer for a pending image.                 *)
ManageRollbackNoTimer ==
    /\ sys = "boot"
    /\ sys' = "up"
    /\ IF verified
       THEN /\ rolledBack' = flag /\ flag' = FALSE
            /\ UNCHANGED <<inProgress, timer>>
       ELSE /\ inProgress' = TRUE /\ UNCHANGED timer
            /\ UNCHANGED <<rolledBack, flag>>
    /\ UNCHANGED <<flash, nvsJob, failJob, transient, mqtt, queue, validator, judge,
                   rollback, cloud, bounds>>

(* esp_rmaker_ota_manage_rollback, when the application enables OTA: a      *)
(* pending image counts as an update in progress and gets a rollback timer, *)
(* unless the diagnostics fail; otherwise the flag tells of a rollback.     *)
ManageRollback ==
    /\ sys = "boot"
    /\ sys' = "up"
    /\ IF verified
       THEN /\ rolledBack' = flag /\ flag' = FALSE
            /\ UNCHANGED <<inProgress, timer>>
       ELSE /\ inProgress' = TRUE /\ timer' = "armed"
            /\ UNCHANGED <<rolledBack, flag>>
    /\ UNCHANGED <<flash, nvsJob, failJob, transient, mqtt, queue, validator, judge,
                   rollback, cloud, bounds>>

DiagnosticsFail ==
    /\ sys = "boot" /\ ~verified
    /\ RollBackAndReboot

(* MQTT connects; event_handler runs for the first connection of a pending  *)
(* image.  The diagnostics callback, the application's code, passes, fails,  *)
(* or leaves it to the application to call mark_valid or mark_invalid.       *)
Connects ==
    /\ sys = "up" /\ ~conn
    /\ conn' = TRUE
    /\ judge' = "loop"
    /\ validator' \in IF verified THEN {"idle"} ELSE {"idle", "mark"}
    /\ UNCHANGED <<flash, nvs, update, url, offered, offers, queue, timer, rollback,
                   cloud, sys, bounds>>

PostMqttDiagnosticsFail ==
    /\ sys = "up" /\ ~conn /\ ~verified
    /\ RollBackAndReboot

AppValidates ==
    /\ conn /\ ~verified /\ validator = "idle"
    /\ validator' = "mark" /\ judge' = "app"
    /\ UNCHANGED <<flash, nvs, update, mqtt, queue, timer, rollback, cloud, sys, bounds>>

AppInvalidates ==
    /\ conn /\ ~verified /\ validator = "idle"
    /\ RollBackAndReboot

-----------------------------------------------------------------------------
(* esp_rmaker_ota_mark_valid                                                *)
MarkValid ==
    /\ validator = "mark"
    /\ verified' = TRUE /\ approved' = approved \cup {running}
    /\ late' = (late \/ rollback # "idle")
    /\ validator' = "erase"
    /\ UNCHANGED <<running, other, bootOther, nvs, update, mqtt, queue, judge, timer, rollback,
                   cloud, sys, crashes>>

EraseFlag ==
    /\ validator = "erase"
    /\ flag' = FALSE
    /\ validator' = "clear"
    /\ UNCHANGED <<flash, nvsJob, failJob, update, mqtt, queue, judge, timer, rollback,
                   cloud, sys, bounds>>

ClearProgress ==
    /\ validator = "clear"
    /\ inProgress' = FALSE /\ timer' = "off"
    /\ validator' = "report"
    /\ UNCHANGED <<flash, nvs, transient, rolledBack, mqtt, queue, judge, rollback, cloud,
                   sys, bounds>>

ReportSuccess ==
    /\ validator = "report"
    /\ Report("success")
    /\ validator' = "idle"
    /\ UNCHANGED <<flash, flag, failJob, update, mqtt, queue, judge, timer, rollback, sys,
                   bounds>>

-----------------------------------------------------------------------------
(* esp_ota_rollback, the rollback timer's callback, and the end of          *)
(* esp_rmaker_ota_mark_invalid, which checks before it rolls back.          *)
RollbackExpires ==
    /\ timer = "armed" /\ rollback = "idle"
    /\ rollback' = "stored"
    /\ late' = (late \/ verified)
    /\ IF ReportFailed
       THEN /\ failJob' = IF nvsJob # NoJob THEN nvsJob ELSE failJob
            /\ nvsJob' = NoJob
       ELSE UNCHANGED <<failJob, nvsJob>>
    /\ UNCHANGED <<flash, flag, update, mqtt, queue, validator, judge, timer, cloud, sys, crashes>>

RollbackChecks ==
    /\ rollback = "stored"
    /\ rollback' = IF verified THEN "idle" ELSE "decided"
    /\ UNCHANGED <<flash, nvs, update, mqtt, queue, validator, judge, timer, cloud, sys, bounds>>

RollbackActs ==
    /\ rollback = "decided"
    /\ RollBackAndReboot

RollbackImpossible ==
    /\ rollback = "decided" /\ other = Broken
    /\ rollback' = "idle"
    /\ UNCHANGED <<flash, nvs, update, mqtt, queue, validator, judge, timer, cloud, sys,
                   bounds>>

-----------------------------------------------------------------------------
(* esp_rmaker_ota_work_fn, once the agent has started, an event dispatched  *)
(* after the connection's: a rollback is reported, as FAILED if the image    *)
(* that failed left its job, and the topic of the URL messages is subscribed *)
(* to.                                                                       *)
WorkFnStarts ==
    /\ sys = "up" /\ conn
    /\ validator = "idle" \/ judge = "app"
    /\ work = "waiting"

WorkFnReportsFailed ==
    /\ WorkFnStarts
    /\ rolledBack /\ failJob # NoJob
    /\ work' = "reported"
    /\ \/ reports' = reports \cup {<<failJob, "failed">>} /\ UNCHANGED lost
       \/ lost < MaxLost /\ lost' = lost + 1 /\ UNCHANGED reports
    /\ UNCHANGED <<flash, nvs, update, mqtt, queued, cb, rebootDue, verdict, sys, bounds>>

WorkFnErases ==
    /\ work = "reported"
    /\ failJob' = NoJob /\ nvsJob' = NoJob
    /\ rolledBack' = FALSE
    /\ work' = "subscribed"
    /\ UNCHANGED <<flash, flag, inProgress, transient, mqtt, queued, cb, rebootDue,
                   verdict, cloud, sys, bounds>>

WorkFnReportsRejected ==
    /\ WorkFnStarts
    /\ rolledBack /\ failJob = NoJob
    /\ Report("rejected")
    /\ rolledBack' = FALSE
    /\ work' = "subscribed"
    /\ UNCHANGED <<flash, flag, failJob, inProgress, transient, mqtt, queued, cb, rebootDue,
                   verdict, sys, bounds>>

WorkFnSubscribes ==
    /\ WorkFnStarts
    /\ ~rolledBack
    /\ work' = "subscribed"
    /\ UNCHANGED <<flash, nvs, update, mqtt, queued, cb, rebootDue, verdict, cloud, sys,
                   bounds>>

-----------------------------------------------------------------------------
(* The cloud offers a job it still wants done.  Without Overlap it offers no *)
(* other while one is worked on, to be booted, or to be judged.              *)
Closed(j) == <<j, "success">> \in reports \/ <<j, "rejected">> \in reports

Busy(j) ==
    \/ j \in {offered, transient}
    \/ other = j /\ bootOther
    \/ running = j /\ ~verified

Offerable(j) ==
    /\ ~Closed(j)
    /\ Overlap \/ (validator = "idle" /\ \A k \in Job \ {j} : ~Busy(k))

(* esp_rmaker_ota_finish_using_topics                                       *)
Finish == transient' = NoJob /\ inProgress' = FALSE

(* MUTANT of UrlArrives(j): taken though one is in progress.               *)
UrlArrivesAnyway(j) ==
    /\ sys = "up" /\ work = "subscribed" /\ url = "idle"
    /\ offers < MaxOffers /\ Offerable(j)
    /\ inProgress' = TRUE
    /\ url' = "storing" /\ offered' = j
    /\ offers' = offers + 1
    /\ UNCHANGED <<flash, nvs, transient, rolledBack, conn, queue, verdict, cloud, sys,
                   bounds>>

(* ota_url_handler: refuse while an update is in progress, store the job    *)
(* and queue the download.                                                  *)
UrlArrives(j) ==
    /\ sys = "up" /\ work = "subscribed" /\ url = "idle"
    /\ offers < MaxOffers /\ Offerable(j)
    /\ ~inProgress
    /\ inProgress' = TRUE
    /\ url' = "storing" /\ offered' = j
    /\ offers' = offers + 1
    /\ UNCHANGED <<flash, nvs, transient, rolledBack, conn, queue, verdict, cloud, sys,
                   bounds>>

(* MUTANT of UrlQueues: a job left in NVS is kept.                         *)
UrlQueuesKeepsJob ==
    /\ url = "storing"
    /\ nvsJob' = IF nvsJob = NoJob THEN offered ELSE nvsJob
    /\ transient' = offered
    /\ queued' = queued + 1
    /\ url' = "idle" /\ offered' = NoJob
    /\ UNCHANGED <<flash, flag, failJob, inProgress, rolledBack, conn, offers, cb, rebootDue,
                   work, verdict, cloud, sys, bounds>>

UrlQueues ==
    /\ url = "storing"
    /\ nvsJob' = offered
    /\ transient' = offered
    /\ queued' = queued + 1
    /\ url' = "idle" /\ offered' = NoJob
    /\ UNCHANGED <<flash, flag, failJob, inProgress, rolledBack, conn, offers, cb, rebootDue,
                   work, verdict, cloud, sys, bounds>>

(* A field is missing, memory is short or the work queue is full.           *)
UrlAborts ==
    /\ url = "storing"
    /\ nvsJob' = offered
    /\ Finish
    /\ reports' \in {reports, reports \cup {<<offered, "failed">>}}
    /\ url' = "idle" /\ offered' = NoJob
    /\ UNCHANGED <<flash, flag, failJob, rolledBack, conn, offers, queue, verdict, lost, sys,
                   bounds>>

-----------------------------------------------------------------------------
(* esp_rmaker_ota_common_cb with the default callback.                      *)
CbStarts ==
    /\ cb = "none" /\ queued > 0 /\ work # "reported"
    /\ queued' = queued - 1
    /\ cb' = "download"
    /\ UNCHANGED <<flash, nvs, update, mqtt, rebootDue, work, verdict, cloud, sys, bounds>>

(* The metadata says later, or the retries are used up.                     *)
CbGivesUp ==
    /\ cb \in {"download", "writing"}
    /\ cb' = "none"
    /\ Finish
    /\ reports' \in {reports, reports \cup {<<transient, "failed">>}}
    /\ UNCHANGED <<flash, nvs, rolledBack, mqtt, queued, rebootDue, work, verdict, lost, sys,
                   bounds>>

(* validate_image_header: the image already runs, or is for another product *)
(* or chip.                                                                 *)
CbRejects ==
    /\ cb \in {"download", "writing"}
    /\ cb' = "none"
    /\ Report("rejected")
    /\ Finish
    /\ UNCHANGED <<flash, flag, failJob, rolledBack, mqtt, queued, rebootDue, work, verdict,
                   sys, bounds>>

CbWrites ==
    /\ cb = "download" /\ transient # running
    /\ cb' = "writing"
    /\ other' = Broken
    /\ UNCHANGED <<running, verified, bootOther, approved, nvs, update, mqtt, queued,
                   rebootDue, work, verdict, cloud, sys, bounds>>

CbCompletes ==
    /\ cb = "writing"
    /\ cb' = "complete"
    /\ other' = transient /\ bootOther' = TRUE
    /\ UNCHANGED <<running, verified, approved, nvs, update, mqtt, queued, rebootDue, work,
                   verdict, cloud, sys, bounds>>

(* MUTANT of CbFlags: the boot cannot tell of a rollback.                  *)
CbForgetsFlag ==
    /\ cb = "complete"
    /\ cb' = "flagged"
    /\ UNCHANGED flag
    /\ UNCHANGED <<flash, nvsJob, failJob, update, mqtt, queued, rebootDue, work, verdict,
                   cloud, sys, bounds>>

(* esp_rmaker_ota_success_reboot_sequence                                   *)
CbFlags ==
    /\ cb = "complete"
    /\ cb' = "flagged"
    /\ flag' = TRUE
    /\ UNCHANGED <<flash, nvsJob, failJob, update, mqtt, queued, rebootDue, work, verdict,
                   cloud, sys, bounds>>

CbReboots ==
    /\ cb = "flagged"
    /\ cb' = "none"
    /\ rebootDue' = TRUE
    /\ Finish
    /\ UNCHANGED <<flash, nvs, rolledBack, mqtt, queued, work, verdict, cloud, sys, bounds>>

-----------------------------------------------------------------------------
Validation == MarkValid \/ EraseFlag \/ ClearProgress \/ ReportSuccess
RollbackTimer == RollbackExpires \/ RollbackChecks \/ RollbackActs \/ RollbackImpossible
WorkFn == WorkFnReportsFailed \/ WorkFnErases \/ WorkFnReportsRejected \/ WorkFnSubscribes
Download == CbStarts \/ CbGivesUp \/ CbRejects \/ CbWrites \/ CbCompletes \/ CbFlags
            \/ CbReboots
Url == (\E j \in Job : UrlArrives(j)) \/ UrlQueues \/ UrlAborts

Next ==
    \/ Reboot \/ Crash
    \/ ManageRollback \/ DiagnosticsFail \/ Connects \/ PostMqttDiagnosticsFail
    \/ AppValidates \/ AppInvalidates
    \/ Validation \/ RollbackTimer \/ WorkFn \/ Url \/ Download

Spec == Init /\ [][Next]_vars

(* Every task runs on and timers expire.  An image that was validated       *)
(* connects; one that was not may never do so.                              *)
Fairness ==
    /\ WF_vars(Reboot) /\ WF_vars(ManageRollback \/ DiagnosticsFail)
    /\ WF_vars(verified /\ Connects)
    /\ WF_vars(Validation) /\ WF_vars(RollbackTimer) /\ WF_vars(WorkFn)
    /\ WF_vars(UrlQueues \/ UrlAborts) /\ WF_vars(Download)

FairSpec == Spec /\ Fairness

-----------------------------------------------------------------------------
(* ota_in_progress keeps updates apart: one download at a time, and none    *)
(* over the image a pending one would be rolled back to.                    *)
OneUpdate ==
    /\ queued + (IF cb = "none" THEN 0 ELSE 1) + (IF url = "idle" THEN 0 ELSE 1) <= 1
    /\ ~verified => other # Broken /\ queued = 0 /\ cb = "none" /\ url = "idle"

(* The cloud hears SUCCESS only of a job whose image was marked valid.      *)
NoFalseSuccess == \A j \in Job : <<j, "success">> \in reports => j \in approved

(* An image is marked valid or rolled back in the end.                      *)
NoLimbo == (~verified) ~> verified

(* The job of an image that was booted gets a verdict, unless there is a     *)
(* crash, a publish fails or the timer expires while the image is validated. *)
Judged(j) == \E s \in Status : <<j, s>> \in reports

VerdictReported ==
    \A j \in Job :
        (running = j /\ ~verified) ~> (Judged(j) \/ crashes > 0 \/ lost > 0 \/ late)

(* The types hold, and updates come one at a time.                           *)
UpdatesAreApart == TypeOK /\ OneUpdate
=============================================================================
