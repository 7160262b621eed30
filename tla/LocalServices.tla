--------------------------- MODULE LocalServices ---------------------------
(***************************************************************************)
(* The services that a phone near the node talks to: local control         *)
(* (core/esp_rmaker_local_ctrl.c) with the challenge-response endpoint in  *)
(* it, or the stand-alone challenge-response service                       *)
(* (core/esp_rmaker_on_network_chal_resp.c).  A build has one of the two   *)
(* (Kconfig); they share the core handler and its flag                     *)
(* (core/esp_rmaker_chal_resp.c), the mDNS service type, and the one HTTP  *)
(* server that protocomm can run, which provisioning uses as well.         *)
(* Provisioning has endpoints of its own, for challenge-response and for   *)
(* the data of the node (ProvData).                                        *)
(*                                                                         *)
(* The event loop handles the events of provisioning and of the network;   *)
(* the agent's task enables local control once there is a network; the     *)
(* application calls the API; the HTTP server's task runs the requests of  *)
(* phones; a timer stops the stand-alone service some time after a phone   *)
(* disabled it.                                                            *)
(*                                                                         *)
(* Applications call the API once the agent enabled local control, and one *)
(* call at a time: never while another call, or the timer's stop, is under *)
(* way.  The stand-alone service is not started while provisioning runs    *)
(* (include/esp_rmaker_on_network_chal_resp.h).                            *)
(***************************************************************************)
EXTENDS ProvData

CONSTANTS MaxCalls,    (* calls of the application and requests of phones    *)
          MaxFailures

ASSUME LocalServicesAssumption == MaxCalls \in Nat /\ MaxFailures \in Nat

Builds == {"local", "network"}

VARIABLES
    build,      (* the service compiled in                                   *)
    off,        (* g_chal_resp_disabled                                      *)
    http,       (* who runs the HTTP server                                  *)
    endpoint,   (* is ch_resp an endpoint of it?                             *)
    announced,  (* is the challenge-response service announced by mDNS?      *)
    prov,       (* provisioning: "idle", "running", "ended"                  *)
    softap,     (* does it use the HTTP server, and not BLE?                 *)
    loop,       (* the events not handled yet                                *)
    agent,      (* its task: "waits", "enables", "copies", "done"            *)
    listens,    (* are the handlers of provisioning events registered?       *)
    waiting,    (* wait_for_provisioning                                     *)
    serv_name,  (* is g_serv_name set?                                       *)
    started,    (* g_local_ctrl_is_started                                   *)
    enabled,    (* g_chal_resp_enabled                                       *)
    cleaned,    (* g_chal_resp_cleanup_done, s_state.cleanup_done            *)
    running,    (* s_state.running                                           *)
    mdns,       (* s_state.mdns_enabled                                      *)
    scheduled,  (* s_state.stop_scheduled                                    *)
    timer,      (* is s_state.stop_timer armed?                              *)
    stopping,   (* is esp_rmaker_on_network_chal_resp_stop under way?        *)
    worker,     (* the HTTP server's task: "idle", "handled" (the core       *)
                (* handler disabled challenge-response just now)             *)
    wanted,     (* did the agent or the application enable local control?    *)
    owed,       (* is a stop owed to a phone that disabled the service?      *)
    stray,      (* is a stop timer armed that s_state knows nothing of?      *)
    lapse,      (* "missed": the end of provisioning was, "restarted": local *)
                (* control was disabled with its endpoint registered         *)
    aborted,    (* did ESP_ERROR_CHECK abort?                                *)
    calls, failures

chal   == <<off, endpoint, announced, cleaned>>
device == <<prov, softap, loop, agent>>
local  == <<listens, waiting, serv_name, started, enabled, aborted>>
alone  == <<running, mdns, scheduled, timer, stopping, stray, owed>>
memory == <<wanted, lapse>>
limits == <<calls, failures>>
serviceVars ==
    <<build, http, chal, device, local, alone, worker, memory, limits, data>>

ServicesInit ==
    /\ build \in Builds /\ off = FALSE /\ http = "none"
    /\ endpoint = FALSE /\ announced = FALSE
    \* A node that has the credentials of its network is not provisioned.
    /\ \/ prov = "idle" /\ loop = <<>> /\ softap \in BOOLEAN
       \/ prov = "ended" /\ loop = <<"ip">> /\ softap = FALSE
    /\ agent = "waits"
    \* esp_rmaker_init registers the handlers
    /\ listens = (build = "local") /\ waiting = FALSE /\ serv_name = FALSE
    /\ started = FALSE /\ enabled = FALSE /\ cleaned = FALSE
    /\ running = FALSE /\ mdns = FALSE /\ scheduled = FALSE /\ timer = FALSE
    /\ stopping = FALSE /\ worker = "idle" /\ wanted = FALSE /\ owed = FALSE
    /\ stray = FALSE /\ lapse = {} /\ aborted = FALSE
    /\ calls = 0 /\ failures = 0
    /\ DataInit

\* A call of the application or a request of a phone.
Call == calls < MaxCalls /\ calls' = calls + 1

\* Does a function called on the way succeed?
Try(ok) == ok \/ failures < MaxFailures
Count(ok) == failures' = IF ok THEN failures ELSE failures + 1

-----------------------------------------------------------------------------
(* Provisioning, and the event loop.                                       *)

\* network_prov_mgr_start_provisioning; with SoftAP it takes the server.
ProvStart ==
    /\ prov = "idle" /\ (softap => http = "none")
    /\ prov' = "running" /\ loop' = Append(loop, "start")
    /\ http' = IF softap THEN "prov" ELSE http
    /\ UNCHANGED <<build, softap, agent, chal, local, alone, worker, memory,
                   limits, data>>

\* A phone hands over the credentials: the node gets an address.
ProvCredentials ==
    /\ prov = "running" /\ agent = "waits"
    /\ \A i \in 1..Len(loop) : loop[i] # "ip"
    /\ loop' = Append(loop, "ip")
    /\ UNCHANGED <<build, http, prov, softap, agent, chal, local, alone,
                   worker, memory, limits, data>>

\* The manager is done: its server stops, then the event is posted.
ProvEnd ==
    /\ prov = "running" /\ prov' = "ended"
    /\ (agent = "waits" => \E i \in 1..Len(loop) : loop[i] = "ip")
    /\ http' = IF http = "prov" THEN "none" ELSE http
    /\ loop' = Append(loop, "deinit")
    /\ UNCHANGED <<build, softap, agent, chal, local, alone, worker, memory,
                   limits, data>>

\* Are the endpoints of provisioning registered?
ProvServes == prov = "running" /\ \A i \in 1..Len(loop) : loop[i] # "start"

\* The ch_resp endpoint of provisioning: the core handler with no wrapper.
ProvDisable ==
    /\ ProvServes /\ Call /\ off' = TRUE
    /\ UNCHANGED <<build, http, endpoint, announced, cleaned, device, local,
                   alone, worker, memory, failures, data>>

\* The endpoints for the data of the node.
ProvRead ==
    /\ ProvServes /\ Call
    /\ \E t \in Data, copied, arrives \in BOOLEAN :
         /\ Try(copied /\ arrives) /\ Count(copied /\ arrives)
         /\ Read(t, copied, arrives)
    /\ UNCHANGED <<build, http, chal, device, local, alone, worker, memory>>

ProvReadAgain ==
    /\ ProvServes /\ \E t \in Data : ReadAgain(t)
    /\ UNCHANGED <<build, http, chal, device, local, alone, worker, memory,
                   limits>>

ProvChange ==
    /\ ProvServes /\ Change
    /\ UNCHANGED <<build, http, chal, device, local, alone, worker, memory,
                   limits>>

\* __esp_rmaker_start_local_ctrl_service.  With the server in use
\* esp_local_ctrl_start fails, and ESP_ERROR_CHECK aborts.
StartService ==
    IF http = "none"
    THEN /\ http' = "local" /\ started' = TRUE
         /\ UNCHANGED aborted
    ELSE aborted' = TRUE /\ UNCHANGED <<http, started>>

\* esp_rmaker_local_ctrl_prov_event_handler; at the end of provisioning
\* esp_rmaker_prov_local_ctrl_event_handler frees the data, too.
HandleStart ==
    /\ loop # <<>> /\ Head(loop) = "start"
    /\ loop' = Tail(loop)
    /\ waiting' = (waiting \/ listens)
    /\ UNCHANGED <<build, http, prov, softap, agent, chal, listens, serv_name,
                   started, enabled, aborted, alone, worker, memory, limits,
                   data>>

(* MUTANT of HandleDeinit: the name is freed before it is looked at.        *)
HandleDeinitFreed ==
    /\ loop # <<>> /\ Head(loop) = "deinit"
    /\ loop' = Tail(loop) /\ Free
    /\ waiting' = (waiting /\ ~listens) /\ listens' = FALSE
    /\ serv_name' = (serv_name /\ ~listens)
    /\ UNCHANGED <<build, http, prov, softap, agent, chal, started, aborted,
                   enabled, alone, worker, memory, limits, version, pieces,
                   mixed>>

HandleDeinit ==
    /\ loop # <<>> /\ Head(loop) = "deinit"
    /\ loop' = Tail(loop) /\ Free
    /\ IF listens
       THEN /\ IF waiting /\ serv_name
               THEN StartService /\ serv_name' = FALSE
               ELSE UNCHANGED <<http, started, aborted, serv_name>>
            /\ waiting' = FALSE /\ listens' = FALSE
       ELSE UNCHANGED <<http, started, aborted, serv_name, waiting, listens>>
    /\ lapse' = IF agent = "copies" \/ (waiting /\ ~listens)
                THEN lapse \cup {"missed"} ELSE lapse
    /\ UNCHANGED <<build, prov, softap, agent, chal, enabled, alone, worker,
                   wanted, limits, version, pieces, mixed>>

\* esp_rmaker_event_handler: the agent's task waits for the address.
HandleIp ==
    /\ loop # <<>> /\ Head(loop) = "ip"
    /\ loop' = Tail(loop)
    /\ agent' = IF build = "local" THEN "enables" ELSE "done"
    /\ UNCHANGED <<build, http, prov, softap, chal, local, alone, worker,
                   memory, limits, data>>

-----------------------------------------------------------------------------
(* Local control.                                                          *)

\* esp_rmaker_local_ctrl_enable, up to where the name is copied; then the
\* copy, which the agent's task makes after it looked at waiting.
Enable ==
    /\ listens' = TRUE /\ wanted' = TRUE
    /\ IF waiting THEN UNCHANGED <<http, started, aborted>> ELSE StartService

AgentEnables ==
    /\ agent = "enables" /\ ~started
    /\ Enable
    /\ agent' = IF waiting THEN "copies" ELSE "done"
    /\ UNCHANGED <<build, prov, softap, loop, chal, waiting, serv_name,
                   enabled, alone, worker, lapse, limits, data>>

AgentCopies ==
    /\ agent = "copies"
    /\ serv_name' = TRUE /\ agent' = "done"
    /\ UNCHANGED <<build, http, prov, softap, loop, chal, listens, waiting,
                   started, enabled, aborted, alone, worker, memory, limits,
                   data>>

\* A call of the application, which runs on its own.
AppCall == agent = "done" /\ ~stopping /\ Call

AppEnable ==
    /\ build = "local" /\ AppCall /\ ~started
    /\ Enable /\ serv_name' = (serv_name \/ waiting)
    /\ UNCHANGED <<build, device, chal, waiting, enabled, alone, worker,
                   lapse, failures, data>>

\* esp_rmaker_local_ctrl_disable; the server stops when its task is idle.
AppDisable ==
    /\ build = "local" /\ AppCall /\ worker = "idle"
    /\ serv_name' = FALSE /\ listens' = FALSE /\ wanted' = FALSE
    /\ IF started
       THEN /\ announced' = FALSE          \* mdns_free
            /\ http' = "none" /\ endpoint' = FALSE /\ started' = FALSE
            /\ lapse' = IF enabled THEN lapse \cup {"restarted"} ELSE lapse
       ELSE UNCHANGED <<announced, http, endpoint, started, lapse>>
    /\ UNCHANGED <<build, off, cleaned, device, waiting, enabled, aborted,
                   alone, worker, failures, data>>

(* MUTANT of EnableChal: the service is announced before the handler is     *)
(* registered.                                                              *)
EnableChalAnnouncing(registers, announces) ==
    /\ off' = FALSE /\ announced' = announces
    /\ IF enabled \/ registers
       THEN /\ endpoint' = (endpoint \/ ~enabled)
            /\ enabled' = TRUE /\ cleaned' = FALSE
       ELSE UNCHANGED <<endpoint, enabled, cleaned>>

\* esp_rmaker_local_ctrl_enable_chal_resp.  The handler is registered before
\* the service is announced; a service that cannot be announced is no error.
EnableChal(registers, announces) ==
    /\ off' = FALSE
    /\ IF enabled \/ registers
       THEN /\ endpoint' = (endpoint \/ ~enabled)
            /\ announced' = announces
            /\ enabled' = TRUE /\ cleaned' = FALSE
       ELSE UNCHANGED <<endpoint, announced, enabled, cleaned>>

AppEnableChal ==
    /\ build = "local" /\ AppCall /\ started
    /\ \E registers, announces \in BOOLEAN :
         /\ Try(registers /\ announces) /\ Count(registers /\ announces)
         /\ EnableChal(registers, announces)
    /\ UNCHANGED <<build, http, device, listens, waiting, serv_name, started,
                   aborted, alone, worker, memory, data>>

\* esp_rmaker_local_ctrl_disable_chal_resp
DisableChal ==
    /\ off' = TRUE /\ cleaned' = TRUE
    /\ announced' = (announced /\ cleaned)
    /\ UNCHANGED endpoint

AppDisableChal ==
    /\ build = "local" /\ AppCall /\ started
    /\ DisableChal
    /\ UNCHANGED <<build, http, device, local, alone, worker, memory, failures,
                   data>>

-----------------------------------------------------------------------------
(* Requests of phones.                                                     *)

\* esp_rmaker_chal_resp_handler, told to disable: it answers, and the wrapper
\* around it sees that challenge-response is disabled just now.
PhoneDisables ==
    /\ http \in {"local", "net"} /\ endpoint /\ worker = "idle" /\ ~off
    /\ Call /\ off' = TRUE /\ worker' = "handled"
    /\ UNCHANGED <<build, http, endpoint, announced, cleaned, device, local,
                   alone, memory, failures, data>>

\* local_ctrl_chal_resp_wrapper
LocalWrapper ==
    /\ build = "local" /\ worker = "handled" /\ worker' = "idle"
    /\ IF off /\ started THEN DisableChal ELSE UNCHANGED chal
    /\ UNCHANGED <<build, http, device, local, alone, memory, limits, data>>

\* on_network_chal_resp_do_cleanup, esp_rmaker_on_network_chal_resp_disable
NetDisable ==
    /\ off' = TRUE /\ cleaned' = TRUE
    /\ announced' = (announced /\ (cleaned \/ ~mdns))

\* on_network_chal_resp_wrapper, with schedule_delayed_stop.  A timer made
\* while the service is being stopped is one that nobody deletes.
NetWrapper ==
    /\ build = "network" /\ worker = "handled" /\ worker' = "idle"
    /\ IF off /\ running
       THEN /\ NetDisable
            /\ \E ok \in BOOLEAN :
                 /\ Try(ok \/ scheduled) /\ Count(ok \/ scheduled)
                 /\ scheduled' = (scheduled \/ ok)
                 /\ timer' = (timer \/ (ok /\ ~scheduled))
                 /\ owed' = (owed \/ ok \/ scheduled)
       ELSE UNCHANGED <<off, announced, cleaned, scheduled, timer, owed,
                        failures>>
    /\ UNCHANGED <<build, http, endpoint, device, local, running, mdns,
                   stopping, stray, memory, calls, data>>

-----------------------------------------------------------------------------
(* The stand-alone service.                                                *)

\* esp_rmaker_on_network_chal_resp_start; a failure undoes what was done,
\* but for the flag of the core handler.
NetStart ==
    /\ build = "network" /\ AppCall /\ ~running /\ prov # "running"
    /\ off' = FALSE
    /\ \E starts, announces, config_mdns \in BOOLEAN :
         /\ Try(starts /\ announces) /\ Count(starts /\ announces)
         /\ IF starts
            THEN /\ http' = "net" /\ endpoint' = TRUE /\ running' = TRUE
                 /\ mdns' = config_mdns
                 /\ announced' = (config_mdns /\ announces)
            ELSE UNCHANGED <<http, endpoint, running, mdns, announced>>
    /\ UNCHANGED <<build, cleaned, device, local, scheduled, timer, stopping,
                   stray, owed, worker, memory, data>>

\* esp_rmaker_on_network_chal_resp_stop, up to where it stops the server,
\* which waits for a request that is being handled; then the rest.
Stop ==
    /\ running /\ stopping' = TRUE
    /\ timer' = FALSE /\ endpoint' = FALSE
    /\ announced' = (announced /\ ~mdns)

(* MUTANT of Stopped: the mark that a stop is scheduled is not reset.       *)
StoppedScheduled ==
    /\ stopping /\ worker = "idle"
    /\ http' = "none"
    /\ running' = FALSE /\ mdns' = FALSE
    /\ timer' = FALSE /\ stray' = (stray \/ timer)
    /\ cleaned' = FALSE /\ stopping' = FALSE /\ owed' = FALSE
    /\ UNCHANGED <<build, off, endpoint, announced, device, local, scheduled,
                   worker, memory, limits, data>>

Stopped ==
    /\ stopping /\ worker = "idle"
    /\ http' = "none"
    /\ running' = FALSE /\ mdns' = FALSE /\ scheduled' = FALSE
    /\ timer' = FALSE /\ stray' = (stray \/ timer)
    /\ cleaned' = FALSE /\ stopping' = FALSE /\ owed' = FALSE
    /\ UNCHANGED <<build, off, endpoint, announced, device, local, worker,
                   memory, limits, data>>

NetStop ==
    /\ build = "network" /\ AppCall /\ Stop
    /\ UNCHANGED <<build, http, off, cleaned, device, local, running, mdns,
                   scheduled, stray, owed, worker, memory, failures, data>>

\* on_network_stop_timer_cb
StopTimerFires ==
    /\ timer /\ ~stopping /\ Stop
    /\ UNCHANGED <<build, http, off, cleaned, device, local, running, mdns,
                   scheduled, stray, owed, worker, memory, limits, data>>

StrayFires ==
    /\ stray /\ ~stopping /\ stray' = FALSE
    /\ IF running
       THEN Stop
       ELSE UNCHANGED <<stopping, timer, endpoint, announced>>
    /\ UNCHANGED <<build, http, off, cleaned, device, local, running, mdns,
                   scheduled, owed, worker, memory, limits, data>>

AppNetDisable ==
    /\ build = "network" /\ AppCall /\ running
    /\ NetDisable
    /\ UNCHANGED <<build, http, endpoint, device, local, alone, worker,
                   memory, failures, data>>

\* esp_rmaker_on_network_chal_resp_enable; a stop that was scheduled stays so.
AppNetEnable ==
    /\ build = "network" /\ AppCall /\ running
    /\ off' = FALSE /\ cleaned' = FALSE
    /\ \E announces \in BOOLEAN :
         /\ Try(announces) /\ Count(announces)
         /\ announced' = (mdns /\ announces)
    /\ UNCHANGED <<build, http, endpoint, device, local, alone, worker,
                   memory, data>>

-----------------------------------------------------------------------------
Progress ==
    \/ HandleStart \/ HandleDeinit \/ HandleIp
    \/ AgentEnables \/ AgentCopies
    \/ LocalWrapper \/ NetWrapper
    \/ Stopped \/ StopTimerFires \/ StrayFires

ServicesNext ==
    \/ Progress
    \/ ProvStart \/ ProvCredentials \/ ProvEnd
    \/ ProvDisable \/ ProvRead \/ ProvReadAgain \/ ProvChange
    \/ AppEnable \/ AppDisable \/ AppEnableChal \/ AppDisableChal
    \/ PhoneDisables
    \/ NetStart \/ NetStop \/ AppNetDisable \/ AppNetEnable

\* The event loop, the tasks and the timer run.
ServicesSpec ==
    ServicesInit /\ [][ServicesNext]_serviceVars /\ WF_serviceVars(Progress)

-----------------------------------------------------------------------------
\* Every variable keeps its type.
ServicesTypeOK ==
    /\ build \in Builds /\ http \in {"none", "prov", "local", "net"}
    /\ prov \in {"idle", "running", "ended"}
    /\ agent \in {"waits", "enables", "copies", "done"}
    /\ loop \in Seq({"start", "ip", "deinit"})
    /\ worker \in {"idle", "handled"}
    /\ lapse \subseteq {"missed", "restarted"}
    /\ \A b \in {off, endpoint, announced, softap, listens, waiting, serv_name,
               started, enabled, cleaned, running, mdns, scheduled, timer,
               stopping, wanted, owed, stray, aborted} : b \in BOOLEAN
    /\ calls \in 0..MaxCalls /\ failures \in 0..MaxFailures
    /\ DataTypeOK

\* Local control never starts while provisioning has the HTTP server, which
\* ESP_ERROR_CHECK would answer with a restart: the agent gets to it through
\* the event of the address, behind the event that provisioning started.
ServerIsFree == ~aborted

\* Once challenge-response is disabled, by the application or by a phone, and
\* no request is being handled, the service is not announced any more.
QuietWhenOff == off /\ worker = "idle" => ~announced

\* A service that is announced has its endpoint: the handler is registered
\* before, and goes after.  The exception: local control was restarted, which
\* drops the handler but not g_chal_resp_enabled.
AnnouncedIsServed == announced => endpoint \/ "restarted" \in lapse

\* The types hold, one server runs, nothing is announced that is off, and all
\* that is announced is served.
ServicesAreTrue ==
    ServicesTypeOK /\ ServerIsFree /\ QuietWhenOff /\ AnnouncedIsServed

\* Local control that was enabled starts once provisioning is over, unless it
\* is disabled first.  The exception: the event that provisioning is over
\* came while nobody listened, or between the look at wait_for_provisioning
\* and the copy of the name.
ComesUp ==
    wanted /\ prov = "ended"
      ~> started \/ ~wanted \/ "missed" \in lapse

\* A phone that disables the stand-alone service has it stopped.
DisableStops == owed ~> ~owed
=============================================================================
