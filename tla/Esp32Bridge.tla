----------------------------- MODULE Esp32Bridge -----------------------------
(***************************************************************************)
(* The ESP32 beside the nRF5340: it joins a Wi-Fi network, or opens an     *)
(* access point whose portal asks for one, and then bridges its UART to    *)
(* one TCP client at a time.                                               *)
(*   esp32 main/wifi_manager.c, captive_portal.c, uart_bridge.c,           *)
(*   bridge_server.c and main.c                                            *)
(*                                                                         *)
(* The main task, the event loop's, the portal's HTTP server, the UART's   *)
(* and the bridge's tasks interleave; the power may fail at any step.  The *)
(* Wi-Fi driver, FreeRTOS, the network and the clients are external.  A    *)
(* line of the UART is a chunk.                                            *)
(***************************************************************************)
EXTENDS Naturals, Sequences

CONSTANTS Networks,       \* what a user may enter: a name and a password
          MaxStaRetries,  \* MAX_STA_RETRIES
          WifiEvents,     \* bound: events waiting for their handler
          ChunkDepth      \* RX_QUEUE_DEPTH

ASSUME Esp32Assumption == MaxStaRetries \in Nat /\ WifiEvents \in Nat \ {0} /\ ChunkDepth \in Nat

VARIABLES nvs,          \* the stored credentials: what a restart finds
          main_task,    \* where the main task is, and the network it tries or has joined
          wifi_state,   \* s_state
          wifi_bits,    \* the event group's bits
          retry_count,  \* s_retry_count
          sta,          \* the driver's station
          wifi_events,  \* the events it has posted
          portal_post,  \* the form the portal's handler is at
          server,       \* where the bridge's task is
          rx_queue      \* the chunks for the client, each put before or since it was accepted
esp32WifiVars == <<nvs, main_task, wifi_state, wifi_bits, retry_count, sta, wifi_events, portal_post>>
esp32Vars == <<esp32WifiVars, server, rx_queue>>

NoNetwork == "none"
Attempts == {"reconnecting", "connecting"}
NoPost == [at |-> "idle", network |-> NoNetwork]
MainAt(where, network) == main_task' = [at |-> where, network |-> network]

\* app_main up to wifi_manager_init, at the first start and after the power failed.
Esp32Init ==
    /\ nvs \in Networks \cup {NoNetwork}
    /\ main_task = [at |-> "boot", network |-> NoNetwork]
    /\ wifi_state = "DISCONNECTED"
    /\ wifi_bits = {}
    /\ retry_count = 0
    /\ sta = "off"
    /\ wifi_events = <<>>
    /\ portal_post = NoPost
    /\ server = "off"
    /\ rx_queue = <<>>

PowerFails ==
    /\ MainAt("boot", NoNetwork)
    /\ wifi_state' = "DISCONNECTED"
    /\ wifi_bits' = {}
    /\ retry_count' = 0
    /\ sta' = "off"
    /\ wifi_events' = <<>>
    /\ portal_post' = NoPost
    /\ server' = "off"
    /\ rx_queue' = <<>>
    /\ UNCHANGED nvs

-----------------------------------------------------------------------------
(* wifi_manager.c: the main task.                                          *)

Post(e) == wifi_events' = Append(wifi_events, e)

\* try_sta_connect, up to its wait: with the credentials of the flash, at boot or later.
TryConnect(attempt) ==
    /\ Len(wifi_events) < WifiEvents
    /\ MainAt(attempt, nvs)
    /\ wifi_state' = "CONNECTING"
    /\ retry_count' = 0
    /\ wifi_bits' = wifi_bits \ {"connected", "fail"}
    /\ sta' = "idle"
    /\ Post("start")

\* run_provisioning, up to its wait: a portal that does not start is started again.
Provision ==
    /\ MainAt("portal", NoNetwork)
    /\ wifi_state' = "PROVISIONING"
    /\ UNCHANGED <<retry_count, wifi_bits>>

WifiBoot ==
    /\ main_task.at = "boot"
    /\ IF nvs = NoNetwork THEN Provision /\ UNCHANGED <<sta, wifi_events>> ELSE TryConnect("reconnecting")
    /\ UNCHANGED <<nvs, portal_post, server, rx_queue>>

ServerStarted == server' = "listen"   \* bridge_server_start
\* The wait is over: WIFI_CONNECTED_BIT wins, and the bridge's server is started.
StaConnected ==
    /\ main_task.at \in Attempts /\ "connected" \in wifi_bits
    /\ MainAt("bridging", main_task.network)
    /\ ServerStarted
    /\ UNCHANGED <<nvs, wifi_state, wifi_bits, retry_count, sta, wifi_events, portal_post, rx_queue>>

\* WIFI_FAIL_BIT, or the timeout.  Credentials that came from the portal are cleared, those
\* found at boot stay.  esp_wifi_stop may end an association, which is an event of its own.
StaGivesUp ==
    /\ main_task.at \in Attempts /\ "connected" \notin wifi_bits
    /\ nvs' = IF main_task.at = "connecting" THEN NoNetwork ELSE nvs
    /\ sta' = "off"
    /\ \/ sta \in {"connecting", "up"} /\ Len(wifi_events) < WifiEvents /\ Post("disconnected")
       \/ UNCHANGED wifi_events
    /\ Provision
    /\ UNCHANGED <<portal_post, server, rx_queue>>

Provisioned ==
    /\ main_task.at = "portal" /\ "provisioned" \in wifi_bits
    /\ wifi_bits' = wifi_bits \ {"provisioned"}
    /\ MainAt("stopping", NoNetwork)
    /\ UNCHANGED <<nvs, wifi_state, retry_count, sta, wifi_events, portal_post, server, rx_queue>>

\* Mutant: the portal is not waited for.
PortalLeft == TRUE
\* httpd_stop ends the server's task, which finishes the request it is at.
PortalStopped == portal_post = NoPost
\* captive_portal_stop, esp_wifi_stop, and the credentials are read.
PortalDone ==
    /\ main_task.at = "stopping" /\ PortalStopped
    /\ IF nvs = NoNetwork THEN Provision /\ UNCHANGED <<sta, wifi_events>> ELSE TryConnect("connecting")
    /\ UNCHANGED <<nvs, portal_post, server, rx_queue>>

-----------------------------------------------------------------------------
(* captive_portal.c handle_configure, in the HTTP server's task.           *)

FormReceived(network) ==
    /\ main_task.at \in {"portal", "stopping"} /\ portal_post = NoPost
    /\ portal_post' = [at |-> "received", network |-> network]
    /\ UNCHANGED <<nvs, main_task, wifi_state, wifi_bits, retry_count, sta, wifi_events, server, rx_queue>>

\* wifi_manager_save_credentials, which the flash may refuse.
FormSaved(ok) ==
    /\ portal_post.at = "received"
    /\ nvs' = IF ok THEN portal_post.network ELSE nvs
    /\ portal_post' = IF ok THEN [portal_post EXCEPT !.at = "saved"] ELSE NoPost
    /\ UNCHANGED <<main_task, wifi_state, wifi_bits, retry_count, sta, wifi_events, server, rx_queue>>

FormAnswered ==
    /\ portal_post.at = "saved"
    /\ wifi_bits' = wifi_bits \cup {"provisioned"}
    /\ portal_post' = NoPost
    /\ UNCHANGED <<nvs, main_task, wifi_state, retry_count, sta, wifi_events, server, rx_queue>>

-----------------------------------------------------------------------------
(* The driver, and wifi_event_handler in the event loop's task.            *)

Associates(up) ==
    /\ sta = "connecting" /\ Len(wifi_events) < WifiEvents
    /\ sta' = IF up THEN "up" ELSE "idle"
    /\ Post(IF up THEN "got_ip" ELSE "disconnected")
    /\ UNCHANGED <<nvs, main_task, wifi_state, wifi_bits, retry_count, portal_post, server, rx_queue>>

LinkLost ==
    /\ sta = "up" /\ Len(wifi_events) < WifiEvents
    /\ sta' = "idle"
    /\ Post("disconnected")
    /\ UNCHANGED <<nvs, main_task, wifi_state, wifi_bits, retry_count, portal_post, server, rx_queue>>

\* esp_wifi_connect: a station that was stopped refuses.
Connects == sta' = IF sta = "idle" THEN "connecting" ELSE sta

Handled(e) ==
    /\ wifi_events # <<>> /\ Head(wifi_events) = e
    /\ wifi_events' = Tail(wifi_events)
    /\ UNCHANGED <<nvs, main_task, portal_post, server, rx_queue>>

EvtStaStart == Handled("start") /\ Connects /\ UNCHANGED <<wifi_state, wifi_bits, retry_count>>

EvtStaDisconnected ==
    /\ Handled("disconnected")
    /\ wifi_state' = "DISCONNECTED"
    /\ IF retry_count < MaxStaRetries
       THEN retry_count' = retry_count + 1 /\ Connects /\ UNCHANGED wifi_bits
       ELSE wifi_bits' = wifi_bits \cup {"fail"} /\ UNCHANGED <<retry_count, sta>>

EvtGotIp ==
    /\ Handled("got_ip")
    /\ wifi_state' = "CONNECTED"
    /\ retry_count' = 0
    /\ wifi_bits' = wifi_bits \cup {"connected"}
    /\ UNCHANGED sta

-----------------------------------------------------------------------------
(* uart_bridge.c and bridge_server.c.                                      *)

\* uart_rx_task: a chunk the queue has no place for is dropped.
UartData ==
    /\ Len(rx_queue) < ChunkDepth
    /\ rx_queue' = Append(rx_queue, IF server = "serving" THEN "since" ELSE "before")
    /\ UNCHANGED <<esp32WifiVars, server>>

UartOverflow == rx_queue # <<>> /\ rx_queue' = <<>> /\ UNCHANGED <<esp32WifiVars, server>>

\* drain_uart_discard, before each wait for a client
DrainDiscard ==
    /\ server = "listen"
    /\ server' = "select"
    /\ rx_queue' = <<>>
    /\ UNCHANGED esp32WifiVars

SelectTimeout == server = "select" /\ server' = "listen" /\ UNCHANGED <<esp32WifiVars, rx_queue>>

\* Mutant: what came while the task waited for the client goes to it.
RxKept == rx_queue
\* uart_bridge_reset_rx
RxReset == <<>>
AcceptClient ==
    /\ server = "select"
    /\ server' = "serving"
    /\ rx_queue' = RxReset
    /\ UNCHANGED esp32WifiVars

\* recv, send_all or uart_bridge_write fails; the socket is closed before the queue is reset.
ClientDropped ==
    /\ server = "serving"
    /\ server' = "closing"
    /\ rx_queue' = [i \in DOMAIN rx_queue |-> "before"]
    /\ UNCHANGED esp32WifiVars

ClientClosed ==
    /\ server = "closing"
    /\ server' = "listen"
    /\ rx_queue' = <<>>
    /\ UNCHANGED esp32WifiVars

\* uart_bridge_read, then send_all
ChunkTaken == rx_queue' = Tail(rx_queue)
ChunkSent ==
    /\ server = "serving" /\ rx_queue # <<>>
    /\ ChunkTaken
    /\ UNCHANGED <<esp32WifiVars, server>>

Esp32Next == \/ PowerFails
             \/ WifiBoot
             \/ StaConnected
             \/ StaGivesUp
             \/ Provisioned
             \/ PortalDone
             \/ \E network \in Networks : FormReceived(network)
             \/ \E ok \in BOOLEAN : FormSaved(ok)
             \/ FormAnswered
             \/ \E up \in BOOLEAN : Associates(up)
             \/ LinkLost
             \/ EvtStaStart
             \/ EvtStaDisconnected
             \/ EvtGotIp
             \/ UartData
             \/ UartOverflow
             \/ DrainDiscard
             \/ SelectTimeout
             \/ AcceptClient
             \/ ClientDropped
             \/ ClientClosed
             \/ ChunkSent

-----------------------------------------------------------------------------
Esp32TypeOK ==
    /\ nvs \in Networks \cup {NoNetwork}
    /\ main_task \in [at : Attempts \cup {"boot", "portal", "stopping", "bridging"},
                     network : Networks \cup {NoNetwork}]
    /\ wifi_state \in {"DISCONNECTED", "CONNECTING", "PROVISIONING", "CONNECTED"}
    /\ wifi_bits \subseteq {"connected", "fail", "provisioned"}
    /\ retry_count \in 0..MaxStaRetries
    /\ sta \in {"off", "idle", "connecting", "up"}
    /\ wifi_events \in Seq({"start", "disconnected", "got_ip"}) /\ Len(wifi_events) <= WifiEvents
    /\ portal_post \in [at : {"idle", "received", "saved"}, network : Networks \cup {NoNetwork}]
    /\ server \in {"off", "listen", "select", "serving", "closing"}
    /\ rx_queue \in Seq({"before", "since"}) /\ Len(rx_queue) <= ChunkDepth

\* A client is sent nothing that was queued before it was accepted, however the client
\* before it ended and whatever came while nobody was connected.
FreshForClient == server = "serving" => \A i \in DOMAIN rx_queue : rx_queue[i] = "since"

\* The network the bridge has joined is the one a restart will look for, although the form
\* can be sent again while the portal is being closed and an attempt may fail at any time.
JoinedIsStored == main_task.at = "bridging" => nvs = main_task.network /\ nvs # NoNetwork
=============================================================================
