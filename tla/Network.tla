------------------------------ MODULE Network ------------------------------
(***************************************************************************)
(* Boot and network (firmware/main/live.cpp, app_main.cpp, network.cpp and *)
(* rtsp_server_start in rtsp/rtsp_server.cpp).                             *)
(*                                                                         *)
(* The main task brings the parts up one after the other; nearly every     *)
(* failure aborts the program, which is a reboot.  The event task handles  *)
(* what the WiFi driver and the IP stack post to it, while the main task   *)
(* is still booting.  Both may want to connect the station first; after a  *)
(* disconnect the event task connects again, MaxRetry times until the next *)
(* address.  The first address starts the RTSP server.                     *)
(*                                                                         *)
(* The driver, the access point, DHCP and the camera are the environment.  *)
(*                                                                         *)
(* An operator marked "Mutant" is a plausible mistake in the definition    *)
(* that follows it; no behaviour of the specification uses it.             *)
(***************************************************************************)
EXTENDS Naturals, Sequences

CONSTANTS
  MaxRetry,     \* CONFIG_TAB5_WIFI_MAX_RETRY
  Waits,        \* how often the boot looks for the camera, 50
  Configs,      \* may the network be configured? a subset of BOOLEAN
  MaxFaults,    \* bound: failures that abort the program
  MaxLosses,    \* bound: how often the camera stops during a boot
  MaxRestarts   \* bound: stops of the station, and duplicate start events

ASSUME NetworkRetries == MaxRetry \in Nat /\ Waits \in Nat
ASSUME NetworkBounds ==
  /\ Configs \subseteq BOOLEAN
  /\ MaxFaults \in Nat /\ MaxLosses \in Nat /\ MaxRestarts \in Nat

VARIABLES
  main,        \* where the main task is
  waits,       \* retry, in edge_live_start
  connecting,  \* connecting: somebody has called, or will call, esp_wifi_connect first
  retries,     \* retries
  netif,       \* s_wifi_sta_netif_started; the interface is up; it has an address
  services,    \* clock_started, mdns_started, s_server_started
  configured,  \* CONFIG_EDGE_ENABLE_RTSP, and an SSID
  camera,      \* hal_uvc_is_streaming()
  sta,         \* the station in the driver
  queue,       \* events posted and not handled
  faults, losses, restarts,  \* how often each of the bounded things has happened
  tries,       \* history: calls of esp_wifi_connect since the last address
  gaveUp       \* history: why nobody connects any more, or "no"

boot     == <<main, waits>>
program  == <<connecting, retries, netif, services>>
outside  == <<configured, camera, faults, losses, restarts>>
history  == <<tries, gaveUp>>
vars     == <<boot, program, outside, sta, queue, history>>

Events  == {"start", "stop", "connected", "disconnected", "address"}
NoNetif == [started |-> FALSE, up |-> FALSE, address |-> FALSE]

Init ==
  /\ main = "init" /\ waits = 0
  /\ connecting = FALSE /\ retries = 0 /\ netif = NoNetif /\ services = {}
  /\ configured \in Configs /\ camera = FALSE
  /\ faults = 0 /\ losses = 0 /\ restarts = 0
  /\ sta = "off" /\ queue = <<>>
  /\ tries = 0 /\ gaveUp = "no"

\* ESP_ERROR_CHECK: the program starts over, and powers the station down.
Reboot ==
  /\ main' = "init" /\ waits' = 0
  /\ connecting' = FALSE /\ retries' = 0 /\ netif' = NoNetif /\ services' = {}
  /\ camera' = FALSE
  /\ sta' = "off" /\ queue' = <<>>
  /\ tries' = 0 /\ gaveUp' = "no"
  /\ UNCHANGED <<configured, losses, restarts>>
Fault == faults < MaxFaults /\ faults' = faults + 1

\* esp_wifi_connect: an attempt begins, unless the driver refuses it.
Begins  == sta = "idle" /\ sta' = "trying" /\ gaveUp' = "no"
Refuses == gaveUp' = "refused" /\ UNCHANGED sta
Connect == tries' = tries + 1 /\ (Begins \/ Refuses)

-----------------------------------------------------------------------------
(* The main task: edge_live_start, edge_network_start.                     *)

Goes(from, to) == main = from /\ main' = to

\* NVS, clock, board, the camera's task; the JPEG decoder, the screen.
PartsUp ==
  /\ Goes("init", "wait") \/ Goes("parts", "network")
  /\ UNCHANGED <<waits, program, outside, sta, queue, history>>

LookForCamera ==
  /\ \/ main = "wait" /\ ~camera /\ waits < Waits /\ waits' = waits + 1 /\ UNCHANGED main
     \/ Goes("wait", "check") /\ (camera \/ waits = Waits) /\ UNCHANGED waits
  /\ UNCHANGED <<program, outside, sta, queue, history>>

\* Mutant: the encoder is prepared whether or not there is a camera.
CheckCameraNot ==
  /\ Goes("check", "prepare")
  /\ UNCHANGED <<waits, program, outside, sta, queue, history>>
\* The camera is looked at again.
CheckCamera ==
  /\ Goes("check", IF camera THEN "prepare" ELSE "parts")
  /\ UNCHANGED <<waits, program, outside, sta, queue, history>>

\* rtsp_server_prepare looks at the camera once more, and fails without it.
Prepare ==
  /\ Goes("prepare", "parts") /\ camera
  /\ UNCHANGED <<waits, program, outside, sta, queue, history>>
PrepareFails ==
  /\ main = "prepare"
  /\ IF camera THEN Fault ELSE UNCHANGED faults
  /\ Reboot

\* Without a configuration there is no network at all.
StartWifi ==
  /\ \/ Goes("network", "loop") /\ ~configured /\ UNCHANGED <<sta, queue>>
     \/ Goes("network", "delay") /\ configured /\ sta' = "idle" /\ queue' = <<"start">>
  /\ UNCHANGED <<waits, program, outside, history>>

\* Mutant: the event has connected, or will; the main task connects as well.
DelayOverConnects ==
  /\ Goes("delay", "connect")
  /\ connecting' = TRUE
  /\ UNCHANGED <<waits, retries, netif, services, outside, sta, queue, history>>
\* A second later: connecting.exchange(true) tells who connects.
DelayOver ==
  /\ Goes("delay", IF connecting THEN "loop" ELSE "connect")
  /\ connecting' = TRUE
  /\ UNCHANGED <<waits, retries, netif, services, outside, sta, queue, history>>

ConnectFirst ==
  /\ Goes("connect", "loop")
  /\ tries' = tries + 1 /\ Begins
  /\ UNCHANGED <<waits, program, outside, queue>>

\* What else ESP_ERROR_CHECK covers, a station that does not connect included.
Aborts ==
  /\ main \in {"init", "parts", "network", "connect"}
  /\ IF main = "connect" /\ sta # "idle" THEN UNCHANGED faults ELSE Fault
  /\ Reboot

Main ==
  \/ PartsUp \/ LookForCamera \/ CheckCamera \/ Prepare \/ PrepareFails
  \/ StartWifi \/ DelayOver \/ ConnectFirst \/ Aborts

-----------------------------------------------------------------------------
(* The event task.  A handler registered first runs first.                 *)

Handles(e) == queue # <<>> /\ Head(queue) = e /\ queue' = Tail(queue)

\* Mutant: the result of the exchange is read the wrong way round.
StaStartInverted ==
  /\ Handles("start")
  /\ IF netif.started \/ netif.up
       THEN UNCHANGED netif
       ELSE netif' \in {netif, [netif EXCEPT !.started = TRUE]}
  /\ connecting' = TRUE
  /\ IF connecting THEN Connect ELSE UNCHANGED <<sta, history>>
  /\ UNCHANGED <<boot, retries, services, outside>>
\* wifi_remote_sta_start_handler gives up on the first error and ignores an
\* interface that is there; then the first start of the station connects it.
StaStart ==
  /\ Handles("start")
  /\ IF netif.started \/ netif.up
       THEN UNCHANGED netif
       ELSE netif' \in {netif, [netif EXCEPT !.started = TRUE]}
  /\ connecting' = TRUE
  /\ IF connecting THEN UNCHANGED <<sta, history>> ELSE Connect
  /\ UNCHANGED <<boot, retries, services, outside>>

StaStop ==
  /\ Handles("stop")
  /\ netif' = IF netif.started \/ netif.up THEN NoNetif ELSE netif
  /\ UNCHANGED <<boot, connecting, retries, services, outside, sta, history>>

\* wifi_remote_sta_connected_handler: without the receive callback the interface
\* stays down.
StaConnected ==
  /\ Handles("connected")
  /\ netif' \in {netif, [netif EXCEPT !.up = TRUE]}
  /\ UNCHANGED <<boot, connecting, retries, services, outside, sta, history>>

\* Mutant: the last retry is not used.
StaDisconnectedEarly ==
  /\ Handles("disconnected")
  /\ netif' = [netif EXCEPT !.up = FALSE, !.address = FALSE]
  /\ retries' = retries + 1
  /\ IF retries + 1 < MaxRetry THEN Connect
                               ELSE gaveUp' = "exhausted" /\ UNCHANGED <<sta, tries>>
  /\ UNCHANGED <<boot, connecting, services, outside>>
StaDisconnected ==
  /\ Handles("disconnected")
  /\ netif' = [netif EXCEPT !.up = FALSE, !.address = FALSE]
  /\ retries' = retries + 1
  /\ IF retries + 1 <= MaxRetry THEN Connect
                                ELSE gaveUp' = "exhausted" /\ UNCHANGED <<sta, tries>>
  /\ UNCHANGED <<boot, connecting, services, outside>>

\* SNTP and mDNS are tried again with the next address, the server is started
\* once ...
GotAddress ==
  /\ Handles("address")
  /\ retries' = 0 /\ tries' = 0
  /\ \E up \in SUBSET {"clock", "mdns"} : services' = services \cup up \cup {"rtsp"}
  /\ UNCHANGED <<boot, connecting, netif, outside, sta, gaveUp>>

\* ... or, without a socket or a task, the program aborts.
ServerFails ==
  /\ Handles("address") /\ "rtsp" \notin services
  /\ Fault
  /\ Reboot

EventTask ==
  \/ StaStart \/ StaStop \/ StaConnected \/ StaDisconnected \/ GotAddress \/ ServerFails

-----------------------------------------------------------------------------
(* The environment.                                                        *)

Posts(events) == queue' = queue \o events

\* UvcStream has the details: the capture is restarted whenever it ended.
CameraStarts ==
  /\ main # "init" /\ ~camera /\ camera' = TRUE
  /\ UNCHANGED <<boot, program, configured, faults, losses, restarts, sta, queue, history>>
CameraStops ==
  /\ camera /\ camera' = FALSE
  /\ IF main = "loop" THEN UNCHANGED losses ELSE losses < MaxLosses /\ losses' = losses + 1
  /\ UNCHANGED <<boot, program, configured, faults, restarts, sta, queue, history>>

\* The access point takes the station, does not, or loses it.
Joins ==
  /\ sta = "trying" /\ sta' = "joined" /\ Posts(<<"connected">>)
  /\ UNCHANGED <<boot, program, outside, history>>
Fails ==
  /\ sta \in {"trying", "joined"} /\ sta' = "idle" /\ Posts(<<"disconnected">>)
  /\ UNCHANGED <<boot, program, outside, history>>

\* DHCP answers while the interface is up, whatever the station does by then.
Leases ==
  /\ netif.started /\ netif.up /\ ~netif.address
  /\ netif' = [netif EXCEPT !.address = TRUE]
  /\ Posts(<<"address">>)
  /\ UNCHANGED <<boot, connecting, retries, services, outside, sta, history>>

\* The driver stops, with or without a disconnect, starts again, or reports its
\* start twice; the program asks for none of it.
Stops ==
  /\ sta # "off" /\ sta' = "off"
  /\ restarts < MaxRestarts /\ restarts' = restarts + 1
  /\ \E events \in {<<"stop">>} \cup
                   (IF sta = "idle" THEN {} ELSE {<<"disconnected", "stop">>}) : Posts(events)
  /\ gaveUp' = "stopped"
  /\ UNCHANGED <<boot, program, configured, camera, faults, losses, tries>>
Starts ==
  /\ main \in {"delay", "connect", "loop"} /\ configured
  /\ Posts(<<"start">>)
  /\ \/ sta = "off" /\ sta' = "idle" /\ UNCHANGED restarts
     \/ sta # "off" /\ restarts < MaxRestarts /\ restarts' = restarts + 1 /\ UNCHANGED sta
  /\ UNCHANGED <<boot, program, configured, camera, faults, losses, history>>

Environment ==
  \/ CameraStarts \/ CameraStops \/ Joins \/ Fails \/ Leases \/ Stops \/ Starts

Next == Main \/ EventTask \/ Environment

Spec == Init /\ [][Next]_vars

\* The main task runs; nothing is owed by the network or the camera.
FairSpec == Spec /\ WF_vars(Main)

-----------------------------------------------------------------------------
TypeOK ==
  /\ main \in {"init", "wait", "check", "prepare", "parts", "network", "delay", "connect", "loop"}
  /\ waits \in 0 .. Waits
  /\ connecting \in BOOLEAN /\ retries \in Nat
  /\ netif \in [started : BOOLEAN, up : BOOLEAN, address : BOOLEAN]
  /\ services \subseteq {"clock", "mdns", "rtsp"}
  /\ configured \in BOOLEAN /\ camera \in BOOLEAN
  /\ faults \in Nat /\ losses \in Nat /\ restarts \in Nat
  /\ sta \in {"off", "idle", "trying", "joined"}
  /\ queue \in Seq(Events)
  /\ tries \in Nat /\ gaveUp \in {"no", "refused", "exhausted", "stopped"}

Queued(e) == \E i \in 1 .. Len(queue) : queue[i] = e

\* Whoever is about to call esp_wifi_connect finds no attempt and no connection:
\* the start event and the main task do not both connect, and no disconnect is
\* handled late.
OneAttempt ==
  (\/ main = "connect" \/ Queued("disconnected")
   \/ Queued("start") /\ ~connecting)
  => sta \notin {"trying", "joined"}

\* Between two addresses esp_wifi_connect is called MaxRetry + 1 times at most, and
\* the retries are not given up before MaxRetry of them were made.
BoundedReconnects ==
  [][/\ tries' <= MaxRetry + 1
     /\ gaveUp' = "exhausted" /\ gaveUp # "exhausted" => tries >= MaxRetry]_vars

\* A station that is idle with nothing left to handle was given up for a reason:
\* the retries are exhausted, the driver refused, or it had stopped.
GivesUpForCause ==
  main = "loop" /\ sta = "idle" /\ queue = <<>> => gaveUp # "no"

\* A camera that is absent, or lost at a bad moment, does not keep the program from
\* coming up.
Boots == <>[](main = "loop")
=============================================================================
