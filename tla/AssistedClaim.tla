--------------------------- MODULE AssistedClaim ---------------------------
(***************************************************************************)
(* Assisted claiming (core/esp_rmaker_claim.c): a phone carries messages   *)
(* between the node and the claiming service, until the node has a node id *)
(* and a certificate for it; and what the agent does with the outcome      *)
(* (core/esp_rmaker_core.c).                                               *)
(*                                                                         *)
(* The node sends its certificate signing request, and receives the        *)
(* certificate, in fragments; both go through the same buffer.  The phone  *)
(* sends commands in whatever order, may repeat one, lose the response to  *)
(* it, start over or abort.  The handler of the commands, the rmaker task, *)
(* which waits for the end of the claim and frees its data, and the event  *)
(* loop interleave; the node may restart at any time.                      *)
(*                                                                         *)
(* A signing request and a certificate are given by the node id in them; a *)
(* cell of the buffer by the message it holds a fragment of.               *)
(***************************************************************************)
EXTENDS Naturals, Sequences

CONSTANTS NodeId,       (* ids the claiming service gives                    *)
          Mac,          (* the id of a node that has none                    *)
          None, Request,
          NumFrags,     (* fragments of a long message                       *)
          MaxCommands, MaxFaults, MaxReboots

ASSUME ClaimAssumption ==
    /\ Mac \notin NodeId /\ None \notin NodeId \cup {Mac}
    /\ Request \notin NodeId \cup {None}
    /\ NumFrags \in Nat \ {0} /\ MaxCommands \in Nat
    /\ MaxFaults \in Nat /\ MaxReboots \in Nat

Frag == 0 .. NumFrags - 1

\* esp_rmaker_claim_state_t, in order; CSR_GENERATED is never seen outside of
\* handle_assisted_claim_init_response.
Pk == 1   Initiated == 2   InitDone == 3   Verify == 4   VerifyDone == 5

VARIABLES
    nvsId, nvsCert,     (* in the factory partition                          *)
    nodeId,             (* the node id in RAM                                *)
    state,              (* claim_data->state                                 *)
    payload,            (* claim_data->payload, cell by cell                 *)
    offset,             (* claim_data->payload_offset while sending          *)
    csr,                (* claim_data->csr                                   *)
    freed,              (* was the claim data freed?                         *)
    bit,                (* CLAIM_TASK_BIT                                    *)
    task,               (* the rmaker task: "wait", "network", "running",    *)
                        (* "gave up"                                         *)
    needClaim, claimDone,
    handler,            (* is claim_event_handler registered?                *)
    events,             (* claim events that were not handled yet            *)
    lwt,                (* the node id in the last will                      *)
    client,             (* node id and will of the MQTT client, or None      *)
    got,                (* fragments of the signing request the phone has    *)
    cert,               (* the certificate the phone has                     *)
    sent,               (* fragments sent since the request was made         *)
    spoiled,            (* what kept the claim from being regular: begun too *)
                        (* "late", an attempt "failed", an "id" not saved    *)
    commands, faults, reboots

nvs     == <<nvsId, nvsCert>>
claim   == <<state, payload, offset, csr, bit>>
core    == <<task, needClaim, claimDone, handler, lwt, client>>
phone   == <<got, cert>>
history == <<sent, spoiled>>
bounds  == <<commands, faults, reboots>>
vars    == <<nvs, nodeId, claim, freed, core, events, phone, history, bounds>>

Blank == [k \in Frag |-> None]

\* esp_rmaker_init: a node that has a certificate is not claimed again.
Boot(id, crt) ==
    [nodeId    |-> IF id = None THEN Mac ELSE id,
     claimed   |-> crt # None]

Init ==
    /\ nvsId = None /\ nvsCert = None /\ nodeId = Mac
    /\ state = Pk /\ payload = Blank /\ offset = 0 /\ csr = None
    /\ freed = FALSE /\ bit = FALSE
    /\ task = "wait" /\ needClaim = TRUE /\ claimDone = FALSE
    /\ handler = TRUE /\ events = <<>> /\ lwt = Mac /\ client = None
    /\ got = {} /\ cert = None
    /\ sent = {} /\ spoiled = {}
    /\ commands = 0 /\ faults = 0 /\ reboots = 0

Fault == faults < MaxFaults /\ faults' = faults + 1

-----------------------------------------------------------------------------
(* esp_rmaker_claiming_handler.                                            *)

\* A command finds the claim data.  After the end of the claim the endpoint
\* still has a pointer to it: see the README.
Command ==
    /\ commands < MaxCommands /\ commands' = commands + 1
    /\ ~freed
    /\ UNCHANGED <<freed, core, reboots>>

\* A claim begun anew when the end of one was already signalled is late.
Spoiled(marks) == spoiled \cup marks \cup (IF bit THEN {"late"} ELSE {})

Start ==
    /\ Command
    /\ state' = Initiated /\ offset' = 0
    /\ payload' = [payload EXCEPT ![0] = Request]
    /\ events' = Append(events, "started")
    /\ got' = {} /\ cert' = None
    /\ sent' = {} /\ spoiled' = Spoiled({})
    /\ UNCHANGED <<nvs, nodeId, csr, bit, faults>>

\* The next fragment of the signing request, whose response may be lost.  A
\* phone that has all of them gets a certificate.
SendFragment(from, id) ==
    /\ offset' = from + 1
    /\ state' = IF from + 1 = NumFrags THEN Verify ELSE InitDone
    /\ sent' = (IF from = 0 THEN {} ELSE sent) \cup {from}
    /\ LET had == IF from = 0 THEN {} ELSE got
       IN  got' \in {had, had \cup {from}}
    /\ cert' = IF got' = Frag THEN id ELSE None

(* MUTANT of InitResponse: an id that was saved before stays.                *)
InitResponseFirst(id) ==
    /\ Command /\ state \notin {Pk, InitDone}
    /\ nodeId' = id /\ nvsId' = (IF nvsId = None THEN id ELSE nvsId)
    /\ csr' = id /\ payload' = [k \in Frag |-> Request]
    /\ SendFragment(0, id)
    /\ spoiled' = Spoiled({})
    /\ UNCHANGED <<nvsCert, bit, events, faults>>

(* MUTANT of InitResponse: the offset is not reset with the new request.     *)
InitResponseResuming(id) ==
    /\ Command /\ state \notin {Pk, InitDone}
    /\ nodeId' = id /\ nvsId' = id
    /\ csr' = id /\ payload' = [k \in Frag |-> Request]
    /\ IF offset < NumFrags THEN SendFragment(offset, id)
       ELSE state' = Verify /\ sent' = {} /\ UNCHANGED <<offset, phone>>
    /\ spoiled' = Spoiled({})
    /\ UNCHANGED <<nvsCert, bit, events, faults>>

\* handle_assisted_claim_init_response: the node takes the id at once.  To
\* save it may fail, which is not looked at; to make the request may fail.
InitResponse(id) ==
    /\ Command /\ state \notin {Pk, InitDone}
    /\ nodeId' = id
    /\ \/ nvsId' = id /\ spoiled' = Spoiled({}) /\ UNCHANGED faults
       \/ Fault /\ spoiled' = Spoiled({"id"}) /\ UNCHANGED nvsId
    /\ csr' = id /\ payload' = [k \in Frag |-> Request]
    /\ SendFragment(0, id)
    /\ UNCHANGED <<nvsCert, bit, events>>

InitFails(id) ==
    /\ Command /\ state \notin {Pk, InitDone}
    /\ Fault
    /\ nodeId' = id /\ nvsId' = id
    /\ payload' = Blank /\ csr' = None /\ cert' = None
    /\ spoiled' = Spoiled({})
    /\ UNCHANGED <<nvsCert, state, offset, bit, events, got, sent>>

InitMore ==
    /\ Command /\ state = InitDone
    /\ SendFragment(offset, csr)
    /\ spoiled' = Spoiled({})
    /\ UNCHANGED <<nvs, nodeId, payload, csr, bit, events, faults>>

(* MUTANT of VerifyFragment: the end of the claim is not signalled.          *)
VerifyFragmentSilent(k) ==
    /\ Command /\ state \in {Verify, VerifyDone}
    /\ cert # None /\ (k > 0 => payload[k - 1] = cert)
    /\ payload' = [(IF k = 0 THEN Blank ELSE payload) EXCEPT ![k] = cert]
    /\ IF k < NumFrags - 1 THEN UNCHANGED <<nvsCert, state, events>>
       ELSE /\ nvsCert' = cert /\ state' = VerifyDone
            /\ events' = Append(events, "successful")
    /\ UNCHANGED <<nvsId, nodeId, offset, csr, bit, phone, sent, spoiled, faults>>

\* A fragment of the certificate; the phone sends them in order, and may begin
\* again.  With the last one the certificate is parsed and saved, or is not.
VerifyFragment(k) ==
    /\ Command /\ state \in {Verify, VerifyDone}
    /\ cert # None /\ (k > 0 => payload[k - 1] = cert)
    /\ payload' = [(IF k = 0 THEN Blank ELSE payload) EXCEPT ![k] = cert]
    /\ \/ /\ k < NumFrags - 1
          /\ UNCHANGED <<nvsCert, state, bit, events, spoiled, faults>>
       \/ /\ k = NumFrags - 1
          /\ nvsCert' = cert /\ state' = VerifyDone /\ bit' = TRUE
          /\ events' = Append(events, "successful")
          /\ UNCHANGED <<spoiled, faults>>
       \/ /\ k = NumFrags - 1 /\ Fault
          /\ bit' = TRUE
          /\ events' = Append(events, "failed")
          /\ spoiled' = spoiled \cup {"failed"}
          /\ UNCHANGED <<nvsCert, state>>
    /\ UNCHANGED <<nvsId, nodeId, offset, csr, phone, sent>>

Abort ==
    /\ Command
    /\ payload' = Blank /\ offset' = 0 /\ state' = Pk /\ bit' = TRUE
    /\ events' = Append(events, "failed")
    /\ spoiled' = spoiled \cup {"failed"}
    /\ got' = {} /\ cert' = None
    /\ UNCHANGED <<nvs, nodeId, csr, sent, faults>>

-----------------------------------------------------------------------------
(* The rmaker task.                                                        *)

\* esp_rmaker_assisted_claim_perform, in esp_rmaker_task.
ClaimEnds ==
    /\ task = "wait" /\ bit
    /\ freed' = TRUE /\ bit' = FALSE
    /\ task' = IF state = VerifyDone THEN "network" ELSE "gave up"
    /\ UNCHANGED <<nvs, nodeId, state, payload, offset, csr, needClaim,
                   claimDone, handler, lwt, client, events, phone, history,
                   bounds>>

\* The network comes up, long after the phone was told of the end of the claim
\* and its events were handled.
NetworkUp ==
    /\ task = "network" /\ events = <<>>
    /\ task' = "running"
    /\ client' = IF needClaim \/ claimDone THEN [id |-> nodeId, will |-> lwt]
                                           ELSE client
    /\ needClaim' = FALSE /\ claimDone' = FALSE
    /\ UNCHANGED <<nvs, nodeId, claim, freed, handler, lwt, events, phone,
                   history, bounds>>

\* claim_event_handler in the event loop
HandleEvent ==
    /\ events # <<>> /\ events' = Tail(events)
    /\ IF handler /\ Head(events) = "successful"
       THEN needClaim' = FALSE /\ claimDone' = TRUE /\ lwt' = nodeId
       ELSE UNCHANGED <<needClaim, claimDone, lwt>>
    /\ handler' = (handler /\ Head(events) = "started")
    /\ UNCHANGED <<nvs, nodeId, claim, freed, task, client, phone, history,
                   bounds>>

\* A restart, with the claim data made anew unless there is a certificate.
Reboot ==
    /\ reboots < MaxReboots /\ reboots' = reboots + 1
    /\ LET b == Boot(nvsId, nvsCert)
       IN  /\ nodeId' = b.nodeId /\ lwt' = b.nodeId
           /\ needClaim' = ~b.claimed /\ handler' = ~b.claimed
           /\ task' = IF b.claimed THEN "network" ELSE "wait"
           /\ freed' = b.claimed
           /\ client' = IF b.claimed THEN [id |-> b.nodeId, will |-> b.nodeId]
                                     ELSE None
    /\ claimDone' = FALSE
    /\ state' = Pk /\ payload' = Blank /\ offset' = 0 /\ csr' = None
    /\ bit' = FALSE /\ events' = <<>>
    /\ got' = {} /\ cert' = None /\ sent' = {}
    /\ spoiled' = spoiled \ {"failed"}
    /\ UNCHANGED <<nvs, commands, faults>>

Next == \/ Start \/ InitMore \/ Abort
        \/ \E id \in NodeId : InitResponse(id) \/ InitFails(id)
        \/ \E k \in Frag : VerifyFragment(k)
        \/ ClaimEnds \/ NetworkUp \/ HandleEvent \/ Reboot

\* The tasks of the node run, and once it is claimed the network comes up.
Spec == Init /\ [][Next]_vars
             /\ WF_vars(ClaimEnds) /\ WF_vars(NetworkUp) /\ WF_vars(HandleEvent)

-----------------------------------------------------------------------------
(* Properties.                                                             *)

Content == NodeId \cup {None, Request}

(* Every variable keeps its type.                                            *)
TypeOK ==
    /\ {nvsId, nvsCert, csr, cert} \subseteq NodeId \cup {None}
    /\ {nodeId, lwt} \subseteq NodeId \cup {Mac}
    /\ state \in Pk .. VerifyDone /\ payload \in [Frag -> Content]
    /\ offset \in 0 .. NumFrags /\ got \cup sent \subseteq Frag
    /\ {freed, bit, needClaim, claimDone, handler} \subseteq BOOLEAN
    /\ task \in {"wait", "network", "running", "gave up"}
    /\ events \in Seq({"started", "successful", "failed"})
    /\ spoiled \subseteq {"late", "failed", "id"}

(* The certificate that a node goes on with is for the node id that it uses  *)
(* and that it has saved, however the phone repeated or restarted the claim  *)
(* and wherever a power failure cut it short.  The exceptions are an id that *)
(* could not be saved, and a claim begun anew after it was over, before the  *)
(* agent took note.                                                          *)
CertificateIsForNode ==
    nvsCert # None /\ spoiled \cap {"id", "late"} = {} =>
        nvsCert = nvsId /\ nvsCert = nodeId

(* A node that waits for a certificate has sent all of its signing request,  *)
(* of the id it has, whichever responses were lost; a request that could not *)
(* be made leaves none.                                                      *)
RequestWasSent ==
    state \in {Verify, VerifyDone} /\ csr # None => sent = Frag /\ csr = nodeId

(* After a claim that went without a failed attempt, the MQTT client has the *)
(* claimed id, and its last will is for the topic of this id.                *)
ClientIsClaimed ==
    client # None /\ spoiled = {} =>
        client.id = nvsCert /\ client.will = nvsCert

(* An agent whose claim was successful goes on to the network and to MQTT,   *)
(* unless another attempt had failed or a late command came.                 *)
EndsWell ==
    (state = VerifyDone /\ ~freed /\ spoiled = {}) ~>
        (task = "running" \/ spoiled # {})

(* The types hold, and the node, its certificate and its MQTT client have    *)
(* one id.                                                                   *)
ClaimIsForNode == TypeOK /\ CertificateIsForNode /\ ClientIsClaimed
=============================================================================
