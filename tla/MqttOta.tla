------------------------------- MODULE MqttOta -------------------------------
(***************************************************************************)
(* The download of a firmware image over MQTT in blocks                    *)
(* (ota/esp_rmaker_mqtt_ota.c), with the resumption of a broken download   *)
(* from the offset kept in NVS, and the retry loop around the attempts     *)
(* (esp_rmaker_ota_retry_loop).                                            *)
(*                                                                         *)
(* The work queue task asks the stream service for a window of blocks and  *)
(* waits on an event group; the MQTT task strikes a block that comes off   *)
(* the bitmap, writes it to flash and only then sets a bit of the group.   *)
(* Replies may be lost, late (also from an earlier attempt), repeated and  *)
(* out of order; the connection may drop, a flash write fail, the power go *)
(* off at any step.  A full block counts 1 in the lengths, the short block *)
(* 0 that answers a header request counts 0.                               *)
(*                                                                         *)
(* An event group hands its bits to a task that waits at the moment one is *)
(* set, and keeps them for the next wait otherwise: see Signal.            *)
(***************************************************************************)
EXTENDS Naturals, FiniteSets, FiniteSetsExt

CONSTANTS Image,        (* firmware images the cloud may offer               *)
          None,
          Erased, Torn, (* a block of flash that holds no image              *)
          NumBlocks,    (* blocks of an image                                *)
          PerRequest,   (* CONFIG_ESP_RMAKER_MQTT_OTA_NO_OF_BLOCKS           *)
          MaxRetries,   (* CONFIG_ESP_RMAKER_MQTT_OTA_MAX_RETRIES            *)
          MaxAttempts,  (* ESP_RMAKER_OTA_MAX_RETRIES                        *)
          Digests,      (* may a job come with file_md5, without it?         *)
          MaxOffers, MaxFaults

Block  == 0 .. NumBlocks - 1
Msg    == [block : Block, full : BOOLEAN]
Header == [block |-> 0, full |-> FALSE]
Job    == [image : Image, md5 : Digests]

ASSUME MqttOtaAssumption ==
    /\ None \notin Image \cup Msg
    /\ {Erased, Torn} \cap Image = {} /\ Erased # Torn
    /\ NumBlocks \in Nat \ {0} /\ PerRequest \in 1 .. NumBlocks
    /\ MaxRetries \in Nat /\ MaxAttempts \in Nat \ {0}
    /\ Digests \subseteq BOOLEAN
    /\ MaxOffers \in Nat /\ MaxFaults \in Nat

VARIABLES
    flash,     (* the update partition, block by block                       *)
    nvsOffset, (* NVS: mqtt_ota_off                                          *)
    nvsMd5,    (* NVS: mqtt_ota_md5, named by its image                      *)
    boot,      (* the image the boot partition was set to                    *)
    conn,      (* esp_rmaker_is_mqtt_connected()                             *)
    pc,        (* where the work queue task stands                           *)
    job, attempt, verdict,
    resume,    (* resume_offset_blocks                                       *)
    state,     (* handle->state, "none" without a handle                     *)
    left,      (* block_bitmap (and blocks_remaining, its size)              *)
    offset, count,      (* current_offset, current_no_of_blocks              *)
    length,    (* binary_file_len                                            *)
    header,    (* image_header_buf: "none", "asked" or "valid"               *)
    received, needed, retries,
    bits, got, (* the event group, and what the wait returned                *)
    writing,   (* the block stream_data_cb is writing                        *)
    net,       (* replies of the stream service on their way                 *)
    condemned, (* did esp_ota_end refuse what the partition holds?           *)
    offers, faults

store   == <<flash, nvsOffset, nvsMd5, boot>>
task    == <<pc, job, attempt, verdict, resume>>
handle  == <<state, left, offset, count, length, header>>
loop    == <<received, needed, retries>>
group   == <<bits, got>>
vars    == <<store, conn, task, handle, loop, group, writing, net, condemned,
             offers, faults>>

Window == {b \in Block : offset <= b /\ b < offset + count}
Events == {"fetched", "duplicate", "error"}

\* Is the image on flash, the whole of it?
Whole(image) == \A b \in Block : flash[b] = image

Init ==
    /\ flash = [b \in Block |-> Erased]
    /\ nvsOffset = None /\ nvsMd5 = None /\ boot = None
    /\ conn = TRUE
    /\ pc = "idle" /\ job = None /\ attempt = 0 /\ verdict = "none" /\ resume = 0
    /\ state = "none" /\ left = {} /\ offset = 0 /\ count = 0 /\ length = 0
    /\ header = "none"
    /\ received = 0 /\ needed = 0 /\ retries = 0
    /\ bits = {} /\ got = {}
    /\ writing = None /\ net = {}
    /\ condemned = FALSE
    /\ offers = 0 /\ faults = 0

-----------------------------------------------------------------------------
(* The event group.                                                        *)

\* xEventGroupSetBits: a task blocked in xEventGroupWaitBits gets the bit,
\* which is cleared; otherwise it stays set for the next wait.
Signal(e) ==
    IF pc = "blocked"
    THEN pc' = "woken" /\ got' = {e} /\ bits' = {}
    ELSE bits' = bits \cup {e} /\ UNCHANGED <<pc, got>>

Wait ==
    /\ pc = "enter"
    /\ IF bits = {} THEN pc' = "blocked" ELSE pc' = "woken"
    /\ got' = bits /\ bits' = {}
    /\ UNCHANGED <<store, conn, job, attempt, verdict, resume, handle, loop,
                   writing, net, condemned, offers, faults>>

Timeout ==
    /\ pc = "blocked"
    /\ pc' = "woken" /\ got' = {}
    /\ UNCHANGED <<store, conn, job, attempt, verdict, resume, handle, loop,
                   bits, writing, net, condemned, offers, faults>>

-----------------------------------------------------------------------------
(* Between the attempts.                                                   *)

\* A job comes.  The stream of another job has other topics.
Offer(j) ==
    /\ pc = "idle" /\ offers < MaxOffers
    /\ offers' = offers + 1
    /\ job' = j /\ net' = IF j = job THEN net ELSE {}
    /\ pc' = "connecting" /\ attempt' = 1
    /\ UNCHANGED <<store, conn, verdict, resume, handle, loop, group, writing,
                   condemned, faults>>

\* esp_rmaker_ota_retry_loop after an attempt: `how` is "ok", "failed" or
\* "rejected" (ESP_ERR_INVALID_STATE).
EndAttempt(how) ==
    /\ verdict' = "none" /\ resume' = 0
    /\ CASE how = "ok" -> pc' = "done" /\ attempt' = 0
         [] how = "failed" /\ attempt < MaxAttempts ->
                pc' = "connecting" /\ attempt' = attempt + 1
         [] OTHER -> pc' = "idle" /\ attempt' = 0

\* wait_for_mqtt
WaitForMqtt ==
    /\ pc = "connecting"
    /\ IF conn
       THEN pc' = "lookup" /\ UNCHANGED <<attempt, verdict, resume>>
       ELSE EndAttempt("failed")
    /\ UNCHANGED <<store, conn, job, handle, loop, group, writing, net,
                   condemned, offers, faults>>

\* mqtt_ota_get_resume_state: half a pair counts as none.
HasResumeState == nvsOffset # None /\ nvsMd5 # None

\* The choice of the offset in esp_rmaker_ota_use_mqtt.
Lookup ==
    /\ pc = "lookup"
    /\ \/ /\ ~job.md5
          /\ pc' = "open" /\ resume' = 0
       \/ /\ job.md5 /\ HasResumeState /\ nvsMd5 = job.image
          /\ resume' = nvsOffset
          /\ pc' = IF nvsOffset = 0 THEN "store" ELSE "open"
       \/ /\ job.md5 /\ HasResumeState /\ nvsMd5 # job.image
          /\ resume' = 0 /\ pc' = "wipe"
       \/ /\ job.md5 /\ ~HasResumeState
          /\ resume' = 0 /\ pc' = "store"
    /\ UNCHANGED <<store, conn, job, attempt, verdict, handle, loop, group,
                   writing, net, condemned, offers, faults>>

\* The keys are written one by one: mqtt_ota_clear_resume_state erases the
\* offset, then the digest; mqtt_ota_set_resume_state writes them in that order.
WriteKeys ==
    /\ \/ /\ pc = "wipe" /\ nvsOffset' = None /\ pc' = "wipe_md5"
          /\ UNCHANGED nvsMd5
       \/ /\ pc = "wipe_md5" /\ nvsMd5' = None /\ pc' = "store"
          /\ UNCHANGED nvsOffset
       \/ /\ pc = "store" /\ nvsOffset' = 0 /\ pc' = "store_md5"
          /\ UNCHANGED nvsMd5
       \/ /\ pc = "store_md5" /\ nvsMd5' = job.image /\ pc' = "open"
          /\ UNCHANGED nvsOffset
    /\ UNCHANGED <<flash, boot, conn, job, attempt, verdict, resume, handle,
                   loop, group, writing, net, condemned, offers, faults>>

\* ota_resumption: does the attempt start in the middle?
Resuming == 0 < resume /\ resume < NumBlocks
Start    == IF Resuming THEN resume ELSE 0

\* esp_mqtt_ota_begin; a subscription that fails ends the attempt.
Begin ==
    /\ pc = "open"
    /\ \/ /\ state' = "begin"
          /\ left' = {b \in Block : Start <= b}
          /\ offset' = Start /\ length' = Start
          /\ count' = IF Resuming THEN Min({PerRequest, NumBlocks - resume})
                                  ELSE PerRequest
          /\ pc' = IF resume = 0 THEN "header" ELSE "perform"
          /\ UNCHANGED <<attempt, verdict, resume>>
       \/ /\ EndAttempt("failed")
          /\ UNCHANGED <<state, left, offset, count, length>>
    /\ UNCHANGED <<store, conn, job, header, loop, group, writing, net,
                   condemned, offers, faults>>

-----------------------------------------------------------------------------
(* The header, and esp_mqtt_ota_perform in the state BEGIN.                *)

Fail(how) == pc' = "close" /\ verdict' = how

\* read_header: the request for block 0 in the length of a header.
AskHeader ==
    /\ pc = "header"
    /\ header' = "asked"
    /\ \/ pc' = "enter" /\ net' = net \cup {Header} /\ UNCHANGED verdict
       \/ Fail("failed") /\ UNCHANGED net
    /\ UNCHANGED <<store, conn, job, attempt, resume, state, left, offset, count,
                   length, loop, group, writing, condemned, offers, faults>>

\* The end of read_header, with the checks of the header: the description of
\* the image when it is read before the erasure, the chip when after it.
HeaderWoken ==
    /\ pc = "woken" /\ state = "begin"
    /\ got' = {}
    /\ IF "fetched" \in got
       THEN \/ /\ pc' = IF resume = 0 THEN "perform" ELSE "fetch"
               /\ state' = IF resume = 0 THEN "begin" ELSE "progress"
               /\ header' = IF resume = 0 THEN "valid" ELSE "none"
               /\ UNCHANGED verdict
            \/ Fail("rejected") /\ UNCHANGED <<state, header>>
       ELSE Fail("failed") /\ UNCHANGED <<state, header>>
    /\ UNCHANGED <<store, conn, job, attempt, resume, left, offset, count, length,
                   loop, bits, writing, net, condemned, offers, faults>>

\* esp_ota_begin erases the partition.  A header already read is checked for
\* the chip and dropped.
StartErased ==
    /\ pc = "perform" /\ ~Resuming
    /\ \/ /\ flash' = [b \in Block |-> Erased] /\ condemned' = FALSE
          /\ \/ /\ header = "valid" /\ header' = "none"
                /\ state' = "progress" /\ pc' = "fetch"
                /\ UNCHANGED verdict
             \/ /\ header = "valid" /\ Fail("rejected")
                /\ UNCHANGED <<header, state>>
             \/ /\ header # "valid" /\ pc' = "header"
                /\ UNCHANGED <<verdict, header, state>>
       \/ Fail("failed") /\ UNCHANGED <<flash, condemned, header, state>>
    /\ UNCHANGED <<nvsOffset, nvsMd5, boot, conn, job, attempt, resume, left,
                   offset, count, length, loop, group, writing, net,
                   offers, faults>>

\* esp_ota_resume keeps what is below the offset and erases the rest.
StartResumed ==
    /\ pc = "perform" /\ Resuming
    /\ \/ /\ flash' = [b \in Block |-> IF b < resume THEN flash[b] ELSE Erased]
          /\ state' = "progress" /\ pc' = "fetch"
          /\ UNCHANGED verdict
       \/ Fail("failed") /\ UNCHANGED <<flash, state>>
    /\ UNCHANGED <<nvsOffset, nvsMd5, boot, conn, job, attempt, resume, left,
                   offset, count, length, header, loop, group, writing, net,
                   condemned, offers, faults>>

-----------------------------------------------------------------------------
(* esp_rmaker_mqtt_fetch_file, and the rest of esp_mqtt_ota_perform.       *)

\* The next window, and the offset a later attempt may resume from.
Advance ==
    /\ offset' = offset + count
    /\ count' = Min({Cardinality(left), count})
    /\ nvsOffset' = IF job.md5 THEN offset + count ELSE nvsOffset

\* Nothing of the window is missing: no request is made.
SkipWindow ==
    /\ pc = "fetch" /\ Window \cap left = {}
    /\ Advance /\ pc' = "tally"
    /\ UNCHANGED <<flash, nvsMd5, boot, conn, job, attempt, verdict, resume,
                   state, left, length, header, loop, group, writing, net,
                   condemned, offers, faults>>

\* The blocks of the window that are missing are asked for.
Request ==
    /\ pc = "fetch" /\ Window \cap left # {}
    /\ received' = 0 /\ needed' = Cardinality(Window \cap left)
    /\ \/ /\ net' = net \cup [block : Window \cap left, full : {TRUE}]
          /\ pc' = "enter"
          /\ UNCHANGED verdict
       \/ Fail("failed") /\ UNCHANGED net
    /\ UNCHANGED <<store, conn, job, attempt, resume, handle, retries, group,
                   writing, condemned, offers, faults>>

(* MUTANT of BlockWoken: a timeout is not counted. *)
BlockWokenForever ==
    /\ pc = "woken" /\ state = "progress"
    /\ got' = {}
    /\ UNCHANGED retries
    /\ CASE got \cap {"fetched", "duplicate"} # {} ->
              /\ received' = received + 1
              /\ pc' = IF received + 1 < needed THEN "enter" ELSE "check"
              /\ UNCHANGED verdict
         [] got = {"error"} -> Fail("failed") /\ UNCHANGED received
         [] got = {} -> pc' = "check" /\ UNCHANGED <<received, verdict>>
    /\ UNCHANGED <<store, conn, job, attempt, resume, handle, needed, bits,
                   writing, net, condemned, offers, faults>>

\* One turn of the wait loop.  A block that came counts before an error that
\* came with it.
BlockWoken ==
    /\ pc = "woken" /\ state = "progress"
    /\ got' = {}
    /\ CASE got \cap {"fetched", "duplicate"} # {} ->
              /\ received' = received + 1
              /\ retries' = IF "fetched" \in got THEN 0 ELSE retries
              /\ pc' = IF received + 1 < needed THEN "enter" ELSE "check"
              /\ UNCHANGED verdict
         [] got = {"error"} -> Fail("failed") /\ UNCHANGED <<received, retries>>
         [] got = {} /\ retries < MaxRetries ->
              /\ retries' = retries + 1 /\ pc' = "check"
              /\ UNCHANGED <<received, verdict>>
         [] got = {} /\ retries = MaxRetries ->
              Fail("failed") /\ UNCHANGED <<received, retries>>
    /\ UNCHANGED <<store, conn, job, attempt, resume, handle, needed, bits,
                   writing, net, condemned, offers, faults>>

(* MUTANT of CheckWindow: as many events as blocks were asked for do. *)
CheckWindowByCount ==
    /\ pc = "check"
    /\ IF received = needed THEN Advance
                            ELSE UNCHANGED <<offset, count, nvsOffset>>
    /\ pc' = "tally" /\ received' = 0 /\ needed' = 0
    /\ UNCHANGED <<flash, nvsMd5, boot, conn, job, attempt, verdict, resume,
                   state, left, length, header, retries, group, writing, net,
                   condemned, offers, faults>>

\* _received_complete_response: the window is left when the bitmap has no bit
\* of it, whatever became of the blocks.
CheckWindow ==
    /\ pc = "check"
    /\ IF Window \cap left = {} THEN Advance
                                ELSE UNCHANGED <<offset, count, nvsOffset>>
    /\ pc' = "tally" /\ received' = 0 /\ needed' = 0
    /\ UNCHANGED <<flash, nvsMd5, boot, conn, job, attempt, verdict, resume,
                   state, left, length, header, retries, group, writing, net,
                   condemned, offers, faults>>

\* The image is there when its length is; otherwise the loop goes on.
Tally ==
    /\ pc = "tally"
    /\ IF length = NumBlocks
       THEN state' = "success" /\ pc' = "close" /\ verdict' = "ok"
       ELSE pc' = "fetch" /\ UNCHANGED <<state, verdict>>
    /\ UNCHANGED <<store, conn, job, attempt, resume, left, offset, count, length,
                   header, loop, group, writing, net, condemned, offers, faults>>

-----------------------------------------------------------------------------
(* esp_mqtt_ota_end.                                                       *)

\* The fence: later callbacks find the state invalid.
Close ==
    /\ pc = "close"
    /\ state' = "invalid" /\ pc' = "unsubscribe"
    /\ UNCHANGED <<store, conn, job, attempt, verdict, resume, left, offset,
                   count, length, header, loop, group, writing, net,
                   condemned, offers, faults>>

FreeHandle ==
    /\ state' = "none" /\ left' = {} /\ offset' = 0 /\ count' = 0
    /\ length' = 0 /\ header' = "none"
    /\ received' = 0 /\ needed' = 0 /\ retries' = 0
    /\ bits' = {} /\ got' = {}

\* The unsubscription takes the lock of the MQTT client, which a callback that
\* runs holds.  Then esp_ota_end verifies the image, and a whole one is booted
\* next, unless esp_ota_set_boot_partition fails.
End ==
    /\ pc = "unsubscribe" /\ writing = None
    /\ FreeHandle
    /\ \/ /\ verdict # "ok"
          /\ EndAttempt(verdict)
          /\ UNCHANGED <<boot, condemned>>
       \/ /\ verdict = "ok" /\ Whole(job.image)
          /\ boot' = job.image
          /\ pc' = "clear" /\ UNCHANGED <<attempt, verdict, resume, condemned>>
       \/ /\ verdict = "ok"
          /\ verdict' = "failed" /\ condemned' = ~Whole(job.image)
          /\ pc' = "clear" /\ UNCHANGED <<attempt, resume, boot>>
    /\ UNCHANGED <<flash, nvsOffset, nvsMd5, conn, job, writing, net,
                   offers, faults>>

(* MUTANT of ClearResume: only a verified image clears it. *)
ClearResumeIfVerified ==
    /\ \/ /\ pc = "clear" /\ verdict = "ok" /\ nvsOffset' = None
          /\ pc' = "clear_md5"
          /\ UNCHANGED <<nvsMd5, attempt, verdict, resume>>
       \/ /\ pc = "clear" /\ verdict # "ok"
          /\ EndAttempt(verdict)
          /\ UNCHANGED <<nvsOffset, nvsMd5>>
       \/ /\ pc = "clear_md5" /\ nvsMd5' = None
          /\ EndAttempt(verdict)
          /\ UNCHANGED nvsOffset
    /\ UNCHANGED <<flash, boot, conn, job, handle, loop, group, writing, net,
                   condemned, offers, faults>>

\* An image that came whole leaves no resume state, verified or not.
ClearResume ==
    /\ \/ /\ pc = "clear" /\ nvsOffset' = None /\ pc' = "clear_md5"
          /\ UNCHANGED <<nvsMd5, attempt, verdict, resume>>
       \/ /\ pc = "clear_md5" /\ nvsMd5' = None
          /\ EndAttempt(verdict)
          /\ UNCHANGED nvsOffset
    /\ UNCHANGED <<flash, boot, conn, job, handle, loop, group, writing, net,
                   condemned, offers, faults>>

-----------------------------------------------------------------------------
(* The MQTT task.                                                          *)

Fault == faults < MaxFaults /\ faults' = faults + 1

\* stream_data_cb up to the write of the block.
StreamData(m) ==
    /\ conn /\ state # "none" /\ m \in net /\ writing = None
    /\ \/ net' = net \ {m} /\ UNCHANGED faults
       \/ net' = net /\ Fault
    /\ \/ /\ \/ state \notin {"begin", "progress"}
             \/ m.block \notin offset .. offset + count - 1
          /\ UNCHANGED <<pc, group, left, writing>>
       \/ /\ state = "begin" /\ m.block \in Window
          /\ IF m.block = 0 /\ header # "none" THEN Signal("fetched")
                                               ELSE Signal("error")
          /\ UNCHANGED <<left, writing>>
       \/ /\ state = "progress" /\ m.block \in Window \ left
          /\ Signal("duplicate")
          /\ UNCHANGED <<left, writing>>
       \/ /\ state = "progress" /\ m.block \in Window \cap left
          /\ left' = left \ {m.block} /\ writing' = m
          /\ UNCHANGED <<pc, group>>
    /\ UNCHANGED <<store, conn, job, attempt, verdict, resume, state, offset,
                   count, length, header, loop, condemned, offers>>

(* MUTANT of WriteBlock: a block that could not be written counts too. *)
WriteBlockUnchecked ==
    /\ writing # None /\ writing' = None
    /\ length' = IF writing.full THEN length + 1 ELSE length
    /\ \/ /\ flash' = [flash EXCEPT ![writing.block] =
                           IF writing.full THEN job.image ELSE Torn]
          /\ Signal("fetched")
          /\ UNCHANGED faults
       \/ /\ Fault
          /\ flash' = [flash EXCEPT ![writing.block] = Torn]
          /\ Signal("error")
    /\ UNCHANGED <<nvsOffset, nvsMd5, boot, conn, job, attempt, verdict, resume,
                   state, left, offset, count, header, loop, net, condemned,
                   offers>>

\* Its end, after the write: a short block leaves most of its place empty.
WriteBlock ==
    /\ writing # None /\ writing' = None
    /\ \/ /\ flash' = [flash EXCEPT ![writing.block] =
                           IF writing.full THEN job.image ELSE Torn]
          /\ length' = IF writing.full THEN length + 1 ELSE length
          /\ Signal("fetched")
          /\ UNCHANGED faults
       \/ /\ Fault
          /\ flash' = [flash EXCEPT ![writing.block] = Torn]
          /\ Signal("error")
          /\ UNCHANGED length
    /\ UNCHANGED <<nvsOffset, nvsMd5, boot, conn, job, attempt, verdict, resume,
                   state, left, offset, count, header, loop, net, condemned,
                   offers>>

\* error_cb: the service refuses a request.
Refused ==
    /\ Fault
    /\ conn /\ state # "none"
    /\ Signal("error")
    /\ UNCHANGED <<store, conn, job, attempt, verdict, resume, handle, loop,
                   writing, net, condemned, offers>>

-----------------------------------------------------------------------------
(* The surroundings.                                                       *)

\* mqtt_disconnect_handler is registered from begin to the fence.
Disconnect ==
    /\ Fault
    /\ conn /\ conn' = FALSE
    /\ IF state \in {"none", "invalid"}
       THEN UNCHANGED <<pc, group>>
       ELSE Signal("error")
    /\ UNCHANGED <<store, job, attempt, verdict, resume, handle, loop, writing,
                   net, condemned, offers>>

Reconnect ==
    /\ ~conn /\ conn' = TRUE
    /\ UNCHANGED <<store, task, handle, loop, group, writing, net,
                   condemned, offers, faults>>

\* The power goes off: the block being written is left half written, and a
\* node whose boot partition was set wakes up as the new firmware.
Crash ==
    /\ Fault
    /\ pc \notin {"idle", "done"}
    /\ flash' = [b \in Block |-> IF writing # None /\ writing.block = b
                                 THEN Torn ELSE flash[b]]
    /\ pc' = IF boot = None THEN "idle" ELSE "done"
    /\ attempt' = 0 /\ verdict' = "none" /\ resume' = 0
    /\ FreeHandle
    /\ writing' = None /\ condemned' = FALSE
    /\ UNCHANGED <<nvsOffset, nvsMd5, boot, conn, job, net, offers>>

Download == \/ WaitForMqtt \/ Lookup \/ WriteKeys \/ Begin
            \/ AskHeader \/ Wait \/ Timeout \/ HeaderWoken
            \/ StartErased \/ StartResumed
            \/ SkipWindow \/ Request \/ BlockWoken \/ CheckWindow \/ Tally
            \/ Close \/ End \/ ClearResume

Next == \/ \E j \in Job : Offer(j)
        \/ Download
        \/ \E m \in net : StreamData(m)
        \/ WriteBlock \/ Refused
        \/ Disconnect \/ Reconnect \/ Crash

\* The two tasks run; a wait ends by its timeout.  No reply need ever come.
Spec == Init /\ [][Next]_vars /\ WF_vars(Download) /\ WF_vars(WriteBlock)

-----------------------------------------------------------------------------
(* Properties.                                                             *)

Place == {"idle", "connecting", "lookup", "wipe", "wipe_md5", "store",
          "store_md5", "open", "header", "perform", "enter", "blocked", "woken",
          "fetch", "check", "tally", "close", "unsubscribe", "clear", "clear_md5",
          "done"}

(* Every variable keeps its type; the window, the bitmap and the lengths of  *)
(* an open handle stay within the image.                                     *)
TypeOK ==
    /\ flash \in [Block -> Image \cup {Erased, Torn}]
    /\ nvsOffset \in (0 .. NumBlocks) \cup {None}
    /\ nvsMd5 \in Image \cup {None} /\ boot \in Image \cup {None}
    /\ conn \in BOOLEAN
    /\ pc \in Place /\ job \in Job \cup {None}
    /\ attempt \in 0 .. MaxAttempts
    /\ verdict \in {"none", "ok", "failed", "rejected"}
    /\ resume \in 0 .. NumBlocks
    /\ state \in {"none", "begin", "progress", "success", "invalid"}
    /\ left \subseteq Block
    /\ offset \in 0 .. NumBlocks /\ count \in 0 .. PerRequest
    /\ length \in 0 .. NumBlocks
    /\ header \in {"none", "asked", "valid"}
    /\ received \in 0 .. PerRequest /\ needed \in 0 .. PerRequest
    /\ retries \in 0 .. MaxRetries
    /\ bits \subseteq Events /\ got \subseteq Events
    /\ writing \in Msg \cup {None} /\ net \subseteq Msg
    /\ condemned \in BOOLEAN
    /\ offers \in 0 .. MaxOffers /\ faults \in 0 .. MaxFaults

(* What NVS promises a later attempt was at least begun: no block below the  *)
(* offset is one that never came, or one of another image.  (A block that    *)
(* was torn by a power failure or a failed write may be counted: the bitmap  *)
(* is struck before the write, and only esp_ota_end finds out.)              *)
ResumesBehindNoGap ==
    HasResumeState /\ 0 < nvsOffset /\ nvsOffset < NumBlocks =>
        \A b \in Block : b < nvsOffset =>
            \/ flash[b] \in {nvsMd5, Torn}
            \/ writing # None /\ writing.block = b

(* A download said to be complete is complete from where this attempt began: *)
(* no repeated block and no failed write was taken for a block that is       *)
(* missing.                                                                  *)
CompleteMeansWritten ==
    state = "success" =>
        \A b \in Block : Start <= b => flash[b] = job.image

(* The boot partition is only ever set to a whole image, and the partition   *)
(* is not touched any more once it is.                                       *)
BootsWhole == boot # None => Whole(boot)

(* A partition that esp_ota_end refused is not resumed: the next attempt     *)
(* begins with an erasure, or a torn block would be met again for ever.      *)
CondemnedIsErased == [][StartResumed /\ state' = "progress" => ~condemned]_vars

\* Every block was struck off but one was not written whole, and no callback
\* is at work that could still write it.
Starved == state = "progress" /\ left = {} /\ writing = None /\ length < NumBlocks

(* The work for a job comes to an end, whatever is lost: every wait has a    *)
(* timeout, every retry a bound.  The one exception is a block that was      *)
(* struck off and never written, whose error no wait saw or whose place a    *)
(* late reply to a header request took: nothing is left to ask for, and the  *)
(* loop spins.                                                               *)
JobEnds == pc = "connecting" ~> (pc \in {"idle", "done"} \/ Starved)

(* The types hold, a complete download was written, and what boots is whole. *)
ImageIsWhole == TypeOK /\ CompleteMeansWritten /\ BootsWhole
=============================================================================
