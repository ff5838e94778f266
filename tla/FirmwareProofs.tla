---------------------------- MODULE FirmwareProofs ----------------------------
(***************************************************************************)
(* Proofs about Firmware, for every value of its constants: what the       *)
(* board's two links and the ESP32 share stays coherent, the headset's     *)
(* table of media players is true, the headset can be found, its receive   *)
(* queue never refuses a frame, its I2S never lacks a buffer, and a file   *)
(* of the SD card is mixed in its order.                                   *)
(***************************************************************************)
EXTENDS Firmware, SequenceTheorems, TLAPS

-----------------------------------------------------------------------------
(* esp_conn.c and wire.c                                                   *)

\* One writer at a time is in esp_write.  As long as no completion was late, a writer that
\* has drained the semaphore finds the driver at rest, and a completion is of nobody's line.
OneWriter ==
    /\ \A v, w \in Writers : esp_tx[v] # "idle" /\ esp_tx[w] # "idle" => v = w
    /\ ~tx_timed_out => /\ esp_tx_done => uart_tx.line = Nobody
                        /\ \A w \in Writers : esp_tx[w] = "drained" => ~esp_tx_done

\* The driver asks for a buffer when it has no next one.
AsksWithoutNext == esp_rx.asks => esp_rx.next = NoBuffer

\* The tap is read for the verb that was read with it, unless another line has come; and
\* none comes before there is a host.
SameCommand ==
    /\ wire_rx.at = "host" => wire_ready.line = NoLine
    /\ wire_rx.at = "tap" /\ ~wire_ready.given => wire_rx.verb = wire_ready.line.verb
    /\ wire_ready.given \/ wire_rx.at \in {"verb", "tap"} => wire_ready.line # NoLine

\* The inductive invariant of the two links.
BoardLinksInv == BoardLinksTypeOK /\ SharedBuffersHold /\ OneWriter /\ AsksWithoutNext /\ SameCommand

\* What a write of the UART touches keeps its part of the invariant.
TxPart ==
    /\ esp_tx \in [Writers -> {"idle", "drained", "waiting"}]
    /\ esp_tx_done \in BOOLEAN /\ tx_timed_out \in BOOLEAN
    /\ uart_tx \in [line : Writers \cup {Nobody}, aborting : BOOLEAN]
    /\ (~tx_timed_out /\ uart_tx.line # Nobody) => esp_tx[uart_tx.line] = "waiting"
    /\ OneWriter

\* What the receiver touches.
RxPart ==
    /\ esp_rx \in [cur : {"a", "b"}, next : {"a", "b", NoBuffer}, asks : BOOLEAN]
    /\ rx_in_use \subseteq {"a", "b"}
    /\ esp_rx.cur # esp_rx.next
    /\ rx_in_use = {esp_rx.cur, esp_rx.next} \ {NoBuffer}
    /\ AsksWithoutNext

\* The lines that are being received and that wait.
LinePart == rx_line \in {"empty", "part", "discard"} /\ rx_lines \in 0..RxLineQueueDepth

\* What the taps' commands touch.
WirePart ==
    /\ wire_rx \in [at : {"host", "wait", "verb", "tap"}, verb : {"none", "tap_enable", "tap_disable", "unknown"}]
    /\ wire_ready \in [line : WireLines, given : BOOLEAN]
    /\ taps \subseteq TapNames
    /\ LastCommandHolds
    /\ SameCommand

LEMMA Parts == BoardLinksInv <=> TxPart /\ RxPart /\ LinePart /\ WirePart
BY DEF BoardLinksInv, BoardLinksTypeOK, SharedBuffersHold, DmaOwnsItsBuffers, TxPart, RxPart, LinePart, WirePart

LEMMA PartsPrimed == BoardLinksInv' <=> TxPart' /\ RxPart' /\ LinePart' /\ WirePart'
BY DEF BoardLinksInv, BoardLinksTypeOK, SharedBuffersHold, DmaOwnsItsBuffers, TxPart, RxPart, LinePart, WirePart

LEMMA TxKept == ASSUME TxPart, UNCHANGED txVars_ PROVE TxPart'
BY DEF TxPart, OneWriter, txVars_

LEMMA RxKeptPart == ASSUME RxPart, UNCHANGED <<esp_rx, rx_in_use>> PROVE RxPart'
BY DEF RxPart, AsksWithoutNext

LEMMA LineKept == ASSUME LinePart, UNCHANGED <<rx_line, rx_lines>> PROVE LinePart'
BY DEF LinePart

LEMMA WireKept == ASSUME WirePart, UNCHANGED wireVars PROVE WirePart'
BY DEF WirePart, wireVars, LastCommandHolds, SameCommand

\* esp_write, step by step, and the completions.
LEMMA TxSteps ==
    ASSUME TxPart,
           \/ \E w \in Writers : WriteBegins(w) \/ TxStart(w) \/ TxCompleted(w) \/ TxTimeout(w)
           \/ TxEvent
    PROVE  TxPart'
<1>1. Writers = {"answer", "report"} /\ Nobody \notin Writers
  BY DEF Writers, Nobody
<1>2. ASSUME NEW w \in Writers, WriteBegins(w) PROVE TxPart'
  BY <1>1, <1>2 DEF TxPart, OneWriter, WriteBegins, Mutex, Goes
<1>3. ASSUME NEW w \in Writers, TxStart(w) PROVE TxPart'
  BY <1>1, <1>3 DEF TxPart, OneWriter, TxStart, Goes
<1>4. ASSUME NEW w \in Writers, TxCompleted(w) PROVE TxPart'
  BY <1>1, <1>4 DEF TxPart, OneWriter, TxCompleted, Goes
<1>5. ASSUME NEW w \in Writers, TxTimeout(w) PROVE TxPart'
  BY <1>1, <1>5 DEF TxPart, OneWriter, TxTimeout, Goes
<1>6. CASE TxEvent
  BY <1>1, <1>6 DEF TxPart, OneWriter, TxEvent
<1>7. QED
  BY <1>2, <1>3, <1>4, <1>5, <1>6

\* The driver's requests, full buffers and errors.
LEMMA RxSteps ==
    ASSUME RxPart, RxBufRequest \/ RxBufFull \/ RxStopped
    PROVE  RxPart'
<1>1. CASE RxBufRequest
  BY <1>1 DEF RxPart, AsksWithoutNext, RxBufRequest, NoBuffer
<1>2. CASE RxBufFull
  <2>1. CASE esp_rx.next = NoBuffer
    <3>1. RxRestarts
      BY <1>2, <2>1 DEF RxBufFull
    <3>2. QED
      BY <3>1 DEF RxPart, AsksWithoutNext, RxRestarts, RestartInUse, NoBuffer
  <2>2. CASE esp_rx.next # NoBuffer
    <3>1. /\ rx_in_use' = rx_in_use \ {esp_rx.cur}
          /\ esp_rx' = [cur |-> esp_rx.next, next |-> NoBuffer, asks |-> TRUE]
          /\ esp_rx.next \in {"a", "b"}
      BY <1>2, <2>2 DEF RxPart, RxBufFull
    <3>2. rx_in_use' = {esp_rx.next}
      BY <2>2, <3>1 DEF RxPart, NoBuffer
    <3>3. QED
      BY <3>1, <3>2 DEF RxPart, AsksWithoutNext, NoBuffer
  <2>3. QED
    BY <2>1, <2>2
<1>3. CASE RxStopped
  BY <1>3 DEF RxPart, AsksWithoutNext, RxStopped, RxRestarts, RestartInUse, NoBuffer
<1>4. QED
  BY <1>1, <1>2, <1>3

\* Lines that end, and lines that are answered or ignored.
LEMMA LineSteps ==
    ASSUME LinePart,
           \/ \E w \in Writers : WriteBegins(w)
           \/ LineIgnored
           \/ \E what \in {"part", "end", "overflow"} : RxBytes(what)
    PROVE  LinePart'
<1>0. RxLineQueueDepth \in Nat
  BY BoardLinksAssumption
<1>1. ASSUME NEW w \in Writers, WriteBegins(w) PROVE LinePart'
  BY <1>0, <1>1 DEF LinePart, WriteBegins
<1>2. CASE LineIgnored
  BY <1>0, <1>2 DEF LinePart, LineIgnored
<1>3. ASSUME NEW what \in {"part", "end", "overflow"}, RxBytes(what) PROVE LinePart'
  BY <1>0, <1>3 DEF LinePart, RxBytes
<1>4. QED
  BY <1>1, <1>2, <1>3

\* The wire's thread reads what its interrupt writes.
LEMMA WireSteps ==
    ASSUME WirePart,
           \/ WireHostOpens
           \/ \E line \in WireLines \ {NoLine} : WireLine(line)
           \/ WireTake \/ WireVerb \/ WireTap
    PROVE  WirePart'
<1>1. CASE WireHostOpens
  BY <1>1 DEF WirePart, LastCommandHolds, SameCommand, WireHostOpens, NoLine
<1>2. ASSUME NEW line \in WireLines \ {NoLine}, WireLine(line) PROVE WirePart'
  BY <1>2 DEF WirePart, LastCommandHolds, SameCommand, WireLine
<1>3. CASE WireTake
  BY <1>3 DEF WirePart, LastCommandHolds, SameCommand, WireTake
<1>4. CASE WireVerb
  BY <1>4 DEF WirePart, LastCommandHolds, SameCommand, WireVerb, WireLines, NoLine
<1>5. CASE WireTap
  BY <1>5 DEF WirePart, LastCommandHolds, SameCommand, WireTap, WireLines, NoLine
<1>6. QED
  BY <1>1, <1>2, <1>3, <1>4, <1>5

LEMMA BoardLinksInitInv == ASSUME BoardLinksInit PROVE BoardLinksInv
<1>1. TxPart
  BY DEF BoardLinksInit, TxPart, OneWriter, Writers, Nobody
<1>2. RxPart
  BY DEF BoardLinksInit, RxPart, AsksWithoutNext, NoBuffer
<1>3. LinePart
  BY BoardLinksAssumption DEF BoardLinksInit, LinePart
<1>4. WirePart
  BY DEF BoardLinksInit, WirePart, LastCommandHolds, SameCommand, WireLines, NoLine
<1>5. QED
  BY <1>1, <1>2, <1>3, <1>4, Parts

\* Every step of the links moves one part, or two that do not know each other.
LEMMA BoardLinksStep ==
    ASSUME BoardLinksInv, BoardLinksNext
    PROVE  BoardLinksInv'
<1>0. TxPart /\ RxPart /\ LinePart /\ WirePart
  BY Parts
<1>1. ASSUME NEW w \in Writers, WriteBegins(w) PROVE BoardLinksInv'
  <2>1. UNCHANGED <<esp_rx, rx_in_use, wireVars>>
    BY <1>1 DEF WriteBegins, wireVars
  <2>2. QED
    BY <1>0, <1>1, <2>1, TxSteps, LineSteps, RxKeptPart, WireKept, PartsPrimed
<1>2. ASSUME NEW w \in Writers, TxStart(w) \/ TxCompleted(w) \/ TxTimeout(w) PROVE BoardLinksInv'
  <2>1. UNCHANGED <<esp_rx, rx_in_use, rx_line, rx_lines, wireVars>>
    BY <1>2 DEF TxStart, TxCompleted, TxTimeout, rxVars, wireVars
  <2>2. QED
    BY <1>0, <1>2, <2>1, TxSteps, LineKept, RxKeptPart, WireKept, PartsPrimed
<1>3. CASE TxEvent
  <2>1. UNCHANGED <<esp_rx, rx_in_use, rx_line, rx_lines, wireVars>>
    BY <1>3 DEF TxEvent, rxVars, wireVars
  <2>2. QED
    BY <1>0, <1>3, <2>1, TxSteps, LineKept, RxKeptPart, WireKept, PartsPrimed
<1>4. CASE LineIgnored \/ \E what \in {"part", "end", "overflow"} : RxBytes(what)
  <2>1. UNCHANGED <<txVars_, esp_rx, rx_in_use, wireVars>>
    BY <1>4 DEF LineIgnored, RxBytes, txVars_, wireVars
  <2>2. QED
    BY <1>0, <1>4, <2>1, TxKept, LineSteps, RxKeptPart, WireKept, PartsPrimed
<1>5. CASE RxBufRequest \/ RxBufFull \/ RxStopped
  <2>1. UNCHANGED <<txVars_, rx_line, rx_lines, wireVars>>
    BY <1>5 DEF RxBufRequest, RxBufFull, RxStopped, txVars_, wireVars
  <2>2. QED
    BY <1>0, <1>5, <2>1, TxKept, LineKept, RxSteps, WireKept, PartsPrimed
<1>6. CASE \/ WireHostOpens
           \/ \E line \in WireLines \ {NoLine} : WireLine(line)
           \/ WireTake \/ WireVerb \/ WireTap
  <2>1. UNCHANGED <<txVars_, esp_rx, rx_in_use, rx_line, rx_lines>>
    BY <1>6 DEF WireHostOpens, WireLine, WireTake, WireVerb, WireTap, espVars, txVars_
  <2>2. QED
    BY <1>0, <1>6, <2>1, TxKept, LineKept, RxKeptPart, WireSteps, PartsPrimed
<1>7. QED
  BY <1>1, <1>2, <1>3, <1>4, <1>5, <1>6 DEF BoardLinksNext

LEMMA BoardLinksStutter == ASSUME BoardLinksInv, UNCHANGED boardLinksVars PROVE BoardLinksInv'
BY Parts, PartsPrimed, TxKept, RxKeptPart, LineKept, WireKept DEF boardLinksVars, espVars, wireVars, txVars_

-----------------------------------------------------------------------------
(* wifi_manager.c, captive_portal.c, uart_bridge.c and bridge_server.c     *)

\* The credentials an attempt was started with are the stored ones, since the portal, whose
\* handler alone writes them, is closed before they are read.
AttemptIsStored ==
    main_task.at \in Attempts \cup {"bridging"} => nvs = main_task.network /\ nvs # NoNetwork
PostsWhileOpen == portal_post # NoPost => main_task.at \in {"portal", "stopping"}

\* The inductive invariant of the ESP32.
Esp32Inv == Esp32TypeOK /\ AttemptIsStored /\ PostsWhileOpen /\ FreshForClient

\* What the main task, the portal and the flash share.
MainPart ==
    /\ nvs \in Networks \cup {NoNetwork}
    /\ main_task \in [at : Attempts \cup {"boot", "portal", "stopping", "bridging"},
                     network : Networks \cup {NoNetwork}]
    /\ portal_post \in [at : {"idle", "received", "saved"}, network : Networks \cup {NoNetwork}]
    /\ AttemptIsStored
    /\ PostsWhileOpen

\* What the driver and its handler touch.
StaPart ==
    /\ wifi_state \in {"DISCONNECTED", "CONNECTING", "PROVISIONING", "CONNECTED"}
    /\ wifi_bits \subseteq {"connected", "fail", "provisioned"}
    /\ retry_count \in 0..MaxStaRetries
    /\ sta \in {"off", "idle", "connecting", "up"}
    /\ wifi_events \in Seq({"start", "disconnected", "got_ip"}) /\ Len(wifi_events) <= WifiEvents

\* What the UART's task and the bridge's share.
ServerPart ==
    /\ server \in {"off", "listen", "select", "serving", "closing"}
    /\ rx_queue \in Seq({"before", "since"}) /\ Len(rx_queue) <= ChunkDepth
    /\ FreshForClient

LEMMA Esp32Parts == Esp32Inv <=> MainPart /\ StaPart /\ ServerPart
BY DEF Esp32Inv, Esp32TypeOK, MainPart, StaPart, ServerPart

LEMMA Esp32PartsPrimed == Esp32Inv' <=> MainPart' /\ StaPart' /\ ServerPart'
BY DEF Esp32Inv, Esp32TypeOK, MainPart, StaPart, ServerPart

LEMMA MainKept == ASSUME MainPart, UNCHANGED <<nvs, main_task, portal_post>> PROVE MainPart'
BY DEF MainPart, AttemptIsStored, PostsWhileOpen

LEMMA StaKept ==
    ASSUME StaPart, UNCHANGED <<wifi_state, wifi_bits, retry_count, sta, wifi_events>>
    PROVE  StaPart'
BY DEF StaPart

LEMMA ServerKept == ASSUME ServerPart, UNCHANGED <<server, rx_queue>> PROVE ServerPart'
BY DEF ServerPart, FreshForClient

\* An event that is posted when there is room.
LEMMA Posted ==
    ASSUME StaPart, NEW e \in {"start", "disconnected", "got_ip"},
           Len(wifi_events) < WifiEvents, Post(e)
    PROVE  /\ wifi_events' \in Seq({"start", "disconnected", "got_ip"})
           /\ Len(wifi_events') <= WifiEvents
BY Esp32Assumption DEF StaPart, Post

\* The portal is opened, or an attempt is made with what is stored: from boot, or when the
\* portal is closed.
LEMMA TryOrProvision ==
    ASSUME MainPart, StaPart, NEW attempt \in Attempts, portal_post = NoPost,
           UNCHANGED <<nvs, portal_post>>,
           IF nvs = NoNetwork THEN Provision /\ UNCHANGED <<sta, wifi_events>> ELSE TryConnect(attempt)
    PROVE  MainPart' /\ StaPart'
<1>1. CASE nvs = NoNetwork
  <2>1. Provision /\ UNCHANGED <<sta, wifi_events>>
    BY <1>1
  <2>2. MainPart'
    BY <2>1 DEF MainPart, AttemptIsStored, PostsWhileOpen, Provision, MainAt, Attempts, NoPost
  <2>3. StaPart'
    BY <2>1 DEF StaPart, Provision
  <2>4. QED
    BY <2>2, <2>3
<1>2. CASE nvs # NoNetwork
  <2>1. TryConnect(attempt)
    BY <1>2
  <2>2. MainPart'
    BY <1>2, <2>1 DEF MainPart, AttemptIsStored, PostsWhileOpen, TryConnect, MainAt, NoPost
  <2>3. StaPart'
    <3>1. wifi_events' \in Seq({"start", "disconnected", "got_ip"}) /\ Len(wifi_events') <= WifiEvents
      BY <2>1, Posted DEF TryConnect
    <3>2. QED
      BY <2>1, <3>1, Esp32Assumption DEF StaPart, TryConnect
  <2>4. QED
    BY <2>2, <2>3
<1>3. QED
  BY <1>1, <1>2

\* The main task, and the power.
LEMMA MainSteps ==
    ASSUME MainPart, StaPart, ServerPart,
           PowerFails \/ WifiBoot \/ StaConnected \/ StaGivesUp \/ Provisioned \/ PortalDone
    PROVE  MainPart' /\ StaPart' /\ ServerPart'
<1>1. CASE PowerFails
  <2>1. MainPart'
    BY <1>1 DEF MainPart, AttemptIsStored, PostsWhileOpen, PowerFails, MainAt, Attempts, NoPost
  <2>2. StaPart'
    BY <1>1, Esp32Assumption DEF StaPart, PowerFails
  <2>3. ServerPart'
    BY <1>1, Esp32Assumption DEF ServerPart, FreshForClient, PowerFails
  <2>4. QED
    BY <2>1, <2>2, <2>3
<1>2. CASE WifiBoot
  <2>1. portal_post = NoPost
    BY <1>2 DEF MainPart, PostsWhileOpen, WifiBoot
  <2>2. "reconnecting" \in Attempts /\ UNCHANGED <<nvs, portal_post, server, rx_queue>>
    BY <1>2 DEF WifiBoot, Attempts
  <2>3. MainPart' /\ StaPart'
    BY <1>2, <2>1, <2>2, TryOrProvision DEF WifiBoot
  <2>4. QED
    BY <2>2, <2>3, ServerKept
<1>3. CASE StaConnected
  <2>1. MainPart'
    BY <1>3 DEF MainPart, AttemptIsStored, PostsWhileOpen, StaConnected, MainAt, Attempts
  <2>2. StaPart'
    BY <1>3, StaKept DEF StaConnected
  <2>3. ServerPart'
    BY <1>3 DEF ServerPart, FreshForClient, StaConnected, ServerStarted
  <2>4. QED
    BY <2>1, <2>2, <2>3
<1>4. CASE StaGivesUp
  <2>1. MainPart'
    BY <1>4 DEF MainPart, AttemptIsStored, PostsWhileOpen, StaGivesUp, Provision, MainAt, Attempts
  <2>2. wifi_events' \in Seq({"start", "disconnected", "got_ip"}) /\ Len(wifi_events') <= WifiEvents
    BY <1>4, Posted DEF StaPart, StaGivesUp
  <2>3. StaPart'
    BY <1>4, <2>2 DEF StaPart, StaGivesUp, Provision
  <2>4. ServerPart'
    BY <1>4, ServerKept DEF StaGivesUp
  <2>5. QED
    BY <2>1, <2>3, <2>4
<1>5. CASE Provisioned
  <2>1. MainPart'
    BY <1>5 DEF MainPart, AttemptIsStored, PostsWhileOpen, Provisioned, MainAt, Attempts
  <2>2. StaPart'
    BY <1>5 DEF StaPart, Provisioned
  <2>3. ServerPart'
    BY <1>5, ServerKept DEF Provisioned
  <2>4. QED
    BY <2>1, <2>2, <2>3
<1>6. CASE PortalDone
  <2>1. "connecting" \in Attempts /\ portal_post = NoPost /\ UNCHANGED <<nvs, portal_post, server, rx_queue>>
    BY <1>6 DEF PortalDone, PortalStopped, Attempts
  <2>2. MainPart' /\ StaPart'
    BY <1>6, <2>1, TryOrProvision DEF PortalDone
  <2>3. QED
    BY <2>1, <2>2, ServerKept
<1>7. QED
  BY <1>1, <1>2, <1>3, <1>4, <1>5, <1>6

\* The form: nothing is stored while an attempt is under way.
LEMMA FormSteps ==
    ASSUME MainPart, StaPart,
           \/ \E network \in Networks : FormReceived(network)
           \/ \E ok \in BOOLEAN : FormSaved(ok)
           \/ FormAnswered
    PROVE  MainPart' /\ StaPart'
<1>1. ASSUME NEW network \in Networks, FormReceived(network) PROVE MainPart' /\ StaPart'
  <2>1. MainPart'
    BY <1>1 DEF MainPart, AttemptIsStored, PostsWhileOpen, FormReceived, Attempts
  <2>2. QED
    BY <1>1, <2>1, StaKept DEF FormReceived
<1>2. ASSUME NEW ok \in BOOLEAN, FormSaved(ok) PROVE MainPart' /\ StaPart'
  <2>1. main_task.at \in {"portal", "stopping"}
    BY <1>2 DEF MainPart, PostsWhileOpen, FormSaved, NoPost
  <2>2. MainPart'
    BY <1>2, <2>1 DEF MainPart, AttemptIsStored, PostsWhileOpen, FormSaved, NoPost, Attempts
  <2>3. QED
    BY <1>2, <2>2, StaKept DEF FormSaved
<1>3. CASE FormAnswered
  <2>1. MainPart'
    BY <1>3 DEF MainPart, AttemptIsStored, PostsWhileOpen, FormAnswered, NoPost, Attempts
  <2>2. StaPart'
    BY <1>3 DEF StaPart, FormAnswered
  <2>3. QED
    BY <2>1, <2>2
<1>4. QED
  BY <1>1, <1>2, <1>3

\* The driver and the event loop's task.
LEMMA StaSteps ==
    ASSUME StaPart,
           \/ \E up \in BOOLEAN : Associates(up)
           \/ LinkLost \/ EvtStaStart \/ EvtStaDisconnected \/ EvtGotIp
    PROVE  StaPart'
<1>1. ASSUME NEW up \in BOOLEAN, Associates(up) PROVE StaPart'
  <2>1. wifi_events' \in Seq({"start", "disconnected", "got_ip"}) /\ Len(wifi_events') <= WifiEvents
    BY <1>1, Posted DEF Associates
  <2>2. QED
    BY <1>1, <2>1 DEF StaPart, Associates
<1>2. CASE LinkLost
  <2>1. wifi_events' \in Seq({"start", "disconnected", "got_ip"}) /\ Len(wifi_events') <= WifiEvents
    BY <1>2, Posted DEF LinkLost
  <2>2. QED
    BY <1>2, <2>1 DEF StaPart, LinkLost
<1>3. ASSUME NEW e, Handled(e)
      PROVE  wifi_events' \in Seq({"start", "disconnected", "got_ip"}) /\ Len(wifi_events') <= WifiEvents
  <2>1. wifi_events \in Seq({"start", "disconnected", "got_ip"}) /\ Len(wifi_events) <= WifiEvents
    BY DEF StaPart
  <2>2. wifi_events # <<>> /\ wifi_events' = Tail(wifi_events)
    BY <1>3 DEF Handled
  <2>3. wifi_events' \in Seq({"start", "disconnected", "got_ip"}) /\ Len(wifi_events') = Len(wifi_events) - 1
    BY <2>1, <2>2, HeadTailProperties
  <2>4. Len(wifi_events) \in Nat
    BY <2>1, LenProperties
  <2>5. QED
    BY <2>1, <2>3, <2>4, Esp32Assumption
<1>4. CASE EvtStaStart
  BY <1>3, <1>4 DEF StaPart, EvtStaStart, Connects
<1>5. CASE EvtStaDisconnected
  <2>1. wifi_events' \in Seq({"start", "disconnected", "got_ip"}) /\ Len(wifi_events') <= WifiEvents
    BY <1>3, <1>5 DEF EvtStaDisconnected
  <2>2. retry_count' \in 0..MaxStaRetries /\ sta' \in {"off", "idle", "connecting", "up"}
    BY <1>5, Esp32Assumption DEF StaPart, EvtStaDisconnected, Connects
  <2>3. wifi_bits' \subseteq {"connected", "fail", "provisioned"} /\ wifi_state' = "DISCONNECTED"
    BY <1>5 DEF StaPart, EvtStaDisconnected
  <2>4. QED
    BY <2>1, <2>2, <2>3 DEF StaPart
<1>6. CASE EvtGotIp
  BY <1>3, <1>6, Esp32Assumption DEF StaPart, EvtGotIp
<1>7. QED
  BY <1>1, <1>2, <1>4, <1>5, <1>6

\* The UART's task and the bridge's.
LEMMA ServerSteps ==
    ASSUME ServerPart,
           \/ UartData \/ UartOverflow
           \/ DrainDiscard \/ SelectTimeout \/ AcceptClient
           \/ ClientDropped \/ ClientClosed \/ ChunkSent
    PROVE  ServerPart'
<1>0. ChunkDepth \in Nat /\ Len(rx_queue) \in Nat /\ <<>> \in Seq({"before", "since"}) /\ Len(<<>>) = 0
  BY Esp32Assumption, LenProperties, EmptySeq DEF ServerPart
<1>1. CASE UartData
  <2>1. PICK c \in {"before", "since"} :
            /\ rx_queue' = Append(rx_queue, c)
            /\ server = "serving" => c = "since"
    BY <1>1 DEF UartData
  <2>2. rx_queue' \in Seq({"before", "since"}) /\ Len(rx_queue') = Len(rx_queue) + 1
    BY <2>1, AppendProperties DEF ServerPart
  <2>3. \A i \in DOMAIN rx_queue' : rx_queue'[i] = "since" \/ (i \in DOMAIN rx_queue /\ rx_queue'[i] = rx_queue[i]) \/ rx_queue'[i] = c
    BY <2>1, <2>2, AppendProperties DEF ServerPart
  <2>4. Len(rx_queue) < ChunkDepth /\ server' = server
    BY <1>1 DEF UartData
  <2>5. QED
    BY <1>0, <2>1, <2>2, <2>3, <2>4 DEF ServerPart, FreshForClient
<1>2. CASE UartOverflow \/ DrainDiscard \/ AcceptClient \/ ClientClosed
  <2>1. rx_queue' = <<>> /\ server' \in {server, "select", "serving", "listen"}
    BY <1>2 DEF UartOverflow, DrainDiscard, AcceptClient, ClientClosed, RxReset
  <2>2. DOMAIN rx_queue' = {}
    BY <2>1
  <2>3. QED
    BY <1>0, <2>1, <2>2 DEF ServerPart, FreshForClient
<1>3. CASE SelectTimeout
  BY <1>3 DEF ServerPart, FreshForClient, SelectTimeout
<1>4. CASE ClientDropped
  <2>1. rx_queue' \in [1..Len(rx_queue) -> {"before", "since"}]
    BY <1>4, LenProperties DEF ServerPart, ClientDropped
  <2>2. rx_queue' \in Seq({"before", "since"})
    BY <1>0, <2>1, SeqDef
  <2>3. Len(rx_queue') = Len(rx_queue)
    BY <1>0, <2>1, <2>2, LenProperties
  <2>4. QED
    BY <1>4, <2>2, <2>3 DEF ServerPart, FreshForClient, ClientDropped
<1>5. CASE ChunkSent
  <2>1. rx_queue # <<>> /\ rx_queue' = Tail(rx_queue) /\ server' = server
    BY <1>5 DEF ChunkSent, ChunkTaken
  <2>2. /\ rx_queue' \in Seq({"before", "since"})
        /\ Len(rx_queue') = Len(rx_queue) - 1
        /\ \A i \in 1..Len(rx_queue') : rx_queue'[i] = rx_queue[i + 1]
    BY <2>1, HeadTailProperties DEF ServerPart
  <2>3. \A i \in DOMAIN rx_queue' : i + 1 \in DOMAIN rx_queue /\ rx_queue'[i] = rx_queue[i + 1]
    BY <1>0, <2>2, LenProperties DEF ServerPart
  <2>4. QED
    BY <1>0, <2>1, <2>2, <2>3 DEF ServerPart, FreshForClient
<1>6. QED
  BY <1>1, <1>2, <1>3, <1>4, <1>5

LEMMA Esp32InitInv == ASSUME Esp32Init PROVE Esp32Inv
<1>1. MainPart
  BY DEF Esp32Init, MainPart, AttemptIsStored, PostsWhileOpen, NoPost, Attempts
<1>2. StaPart
  BY Esp32Assumption, EmptySeq DEF Esp32Init, StaPart
<1>3. ServerPart
  BY Esp32Assumption, EmptySeq DEF Esp32Init, ServerPart, FreshForClient
<1>4. QED
  BY <1>1, <1>2, <1>3, Esp32Parts

LEMMA Esp32Step ==
    ASSUME Esp32Inv, Esp32Next
    PROVE  Esp32Inv'
<1>0. MainPart /\ StaPart /\ ServerPart
  BY Esp32Parts
<1>1. CASE PowerFails \/ WifiBoot \/ StaConnected \/ StaGivesUp \/ Provisioned \/ PortalDone
  BY <1>0, <1>1, MainSteps, Esp32PartsPrimed
<1>2. CASE \/ \E network \in Networks : FormReceived(network)
           \/ \E ok \in BOOLEAN : FormSaved(ok)
           \/ FormAnswered
  <2>1. UNCHANGED <<server, rx_queue>>
    BY <1>2 DEF FormReceived, FormSaved, FormAnswered
  <2>2. QED
    BY <1>0, <1>2, <2>1, FormSteps, ServerKept, Esp32PartsPrimed
<1>3. CASE \/ \E up \in BOOLEAN : Associates(up)
           \/ LinkLost \/ EvtStaStart \/ EvtStaDisconnected \/ EvtGotIp
  <2>1. UNCHANGED <<nvs, main_task, portal_post, server, rx_queue>>
    BY <1>3 DEF Associates, LinkLost, EvtStaStart, EvtStaDisconnected, EvtGotIp, Handled
  <2>2. QED
    BY <1>0, <1>3, <2>1, StaSteps, MainKept, ServerKept, Esp32PartsPrimed
<1>4. CASE \/ UartData \/ UartOverflow
           \/ DrainDiscard \/ SelectTimeout \/ AcceptClient
           \/ ClientDropped \/ ClientClosed \/ ChunkSent
  <2>1. UNCHANGED <<nvs, main_task, portal_post, wifi_state, wifi_bits, retry_count, sta, wifi_events>>
    BY <1>4 DEF UartData, UartOverflow, DrainDiscard, SelectTimeout, AcceptClient, ClientDropped,
                ClientClosed, ChunkSent, esp32WifiVars
  <2>2. QED
    BY <1>0, <1>4, <2>1, ServerSteps, MainKept, StaKept, Esp32PartsPrimed
<1>5. QED
  BY <1>1, <1>2, <1>3, <1>4 DEF Esp32Next

LEMMA Esp32Stutter == ASSUME Esp32Inv, UNCHANGED esp32Vars PROVE Esp32Inv'
BY Esp32Parts, Esp32PartsPrimed, MainKept, StaKept, ServerKept DEF esp32Vars, esp32WifiVars

-----------------------------------------------------------------------------
(* The firmware.                                                            *)

\* A step of one part leaves the others as they are.
LEMMA LinksStep ==
    ASSUME BoardLinksInv, Esp32Inv, [Next]_firmwareVars
    PROVE  BoardLinksInv' /\ Esp32Inv'
<1>1. CASE UNCHANGED linkVars
  BY <1>1, BoardLinksStutter, Esp32Stutter DEF linkVars
<1>2. CASE BoardLinksNext /\ UNCHANGED esp32Vars
  BY <1>2, BoardLinksStep, Esp32Stutter
<1>3. CASE Esp32Next /\ UNCHANGED boardLinksVars
  BY <1>3, BoardLinksStutter, Esp32Step
<1>4. QED
  BY <1>1, <1>2, <1>3 DEF Next, firmwareVars

\* Invariance of the two inductive invariants: the typed state of the links and of the ESP32,
\* and how their threads, interrupts and tasks depend on each other.
THEOREM LinksInvariance == Spec => [](BoardLinksInv /\ Esp32Inv)
<1>1. Init => BoardLinksInv /\ Esp32Inv
  BY BoardLinksInitInv, Esp32InitInv DEF Init
<1>2. BoardLinksInv /\ Esp32Inv /\ [Next]_firmwareVars => (BoardLinksInv /\ Esp32Inv)'
  BY LinksStep
<1>3. QED
  BY <1>1, <1>2, PTL DEF Spec

\* What interrupts, tasks and threads share between the radio's processor and a client of
\* the bridge stays coherent (esp_conn.c, wire.c, uart_bridge.c, bridge_server.c,
\* wifi_manager.c and captive_portal.c), with any queue depths, retries, taps and networks.
THEOREM LinksCoherent == Spec => []LinksHold
<1>1. BoardLinksInv /\ Esp32Inv => LinksHold
  BY DEF BoardLinksInv, Esp32Inv, LinksHold, AttemptIsStored, JoinedIsStored
<1>2. QED
  BY <1>1, LinksInvariance, PTL

-----------------------------------------------------------------------------
(* bt_content_ctrl_media.c                                                  *)

\* A discovery that is under way has its slot, and there is a media client for players that
\* are connected only.
DiscoveryHasSlot == \A p \in Players : mcc[p].busy = "discovery" => SlotsOf(p) # {}

\* What a slot says, one slot at a time.
SlotTrue(i) ==
    LET p == mcc_peer[i].conn
    IN  IF p = NoConn THEN mcc_peer[i].status = "IDLE"
        ELSE /\ p \in media_links
             /\ (mcc_peer[i].status = "IN_PROGRESS") = (mcc[p].busy = "discovery")
             /\ mcc_peer[i].status = "FINISHED" => mcc[p].found
OneSlotEach ==
    \A i, j \in Slots : mcc_peer[i].conn = mcc_peer[j].conn /\ mcc_peer[i].conn # NoConn => i = j

\* The button's thread sends what it was asked to.
ButtonHasCommand == media_button.left # {} => media_button.cmd # "none"

\* The inductive invariant of the table.
MediaInv ==
    /\ MediaTypeOK
    /\ \A i \in Slots : SlotTrue(i)
    /\ OneSlotEach
    /\ DiscoveryHasSlot
    /\ ButtonHasCommand

LEMMA MediaInvSuffices == ASSUME MediaInv PROVE SlotsMirrorPlayers
<1>1. SUFFICES ASSUME NEW i \in Slots, mcc_peer[i].conn # NoConn
               PROVE  SlotsOf(mcc_peer[i].conn) = {i}
  BY <1>1 DEF MediaInv, SlotTrue, SlotsMirrorPlayers
<1>2. QED
  BY <1>1 DEF MediaInv, OneSlotEach, SlotsOf

LEMMA MediaInitInv == ASSUME MediaInit PROVE MediaInv
BY DEF MediaInit, MediaInv, MediaTypeOK, SlotTrue, OneSlotEach, DiscoveryHasSlot, ButtonHasCommand,
       FreeSlot, Unknown, NoConn

\* Steps that leave the table and the discoveries alone.
LEMMA MediaAside ==
    ASSUME MediaInv, MediaTypeOK', ButtonHasCommand',
           UNCHANGED <<media_links, mcc_peer>>,
           \A p \in Players : /\ (mcc'[p].busy = "discovery") = (mcc[p].busy = "discovery")
                              /\ mcc'[p].found = mcc[p].found
    PROVE  MediaInv'
<1>1. \A i \in Slots : mcc_peer[i].conn \in Players \cup {NoConn}
  BY DEF MediaInv, MediaTypeOK
<1>2. ASSUME NEW i \in Slots PROVE SlotTrue(i)'
  BY <1>1, <1>2 DEF MediaInv, SlotTrue
<1>3. OneSlotEach' /\ DiscoveryHasSlot'
  BY DEF MediaInv, OneSlotEach, DiscoveryHasSlot, SlotsOf
<1>4. QED
  BY <1>2, <1>3 DEF MediaInv

\* A gateway connects: no slot is about it yet.
LEMMA ConnectedKeeps ==
    ASSUME MediaInv, NEW p \in Players, MediaConnected(p) PROVE MediaInv'
<1>1. \A i \in Slots : mcc_peer[i].conn # p
  BY MediaAssumption DEF MediaInv, SlotTrue, MediaConnected
<1>2. MediaTypeOK' /\ ButtonHasCommand'
  BY DEF MediaInv, MediaTypeOK, ButtonHasCommand, MediaConnected, Unknown
<1>3. ASSUME NEW i \in Slots PROVE SlotTrue(i)'
  <2>1. mcc_peer[i].conn = NoConn \/ mcc_peer[i].conn \in Players \ {p}
    BY <1>1 DEF MediaInv, MediaTypeOK
  <2>2. QED
    BY <2>1 DEF MediaInv, SlotTrue, MediaConnected, MediaTypeOK
<1>4. OneSlotEach' /\ DiscoveryHasSlot'
  BY DEF MediaInv, MediaTypeOK, OneSlotEach, DiscoveryHasSlot, SlotsOf, MediaConnected, Unknown
<1>5. QED
  BY <1>2, <1>3, <1>4 DEF MediaInv

\* A gateway is gone: its slots are free.
LEMMA DisconnectedKeeps ==
    ASSUME MediaInv, NEW p \in Players, MediaDisconnected(p) PROVE MediaInv'
<1> USE DEF MediaDisconnected, PeerGone
<1>1. MediaTypeOK' /\ ButtonHasCommand'
  BY DEF MediaInv, MediaTypeOK, ButtonHasCommand, Unknown, FreeSlot
<1>2. \A i \in Slots : mcc_peer'[i] = IF mcc_peer[i].conn = p THEN FreeSlot ELSE mcc_peer[i]
  BY DEF MediaInv, MediaTypeOK, SlotsOf
<1>3. ASSUME NEW i \in Slots PROVE SlotTrue(i)'
  <2>1. CASE mcc_peer[i].conn = p
    BY <1>2, <2>1 DEF SlotTrue, FreeSlot
  <2>2. CASE mcc_peer[i].conn # p
    <3>1. mcc_peer[i].conn = NoConn \/ mcc_peer[i].conn \in Players \ {p}
      BY <2>2 DEF MediaInv, MediaTypeOK
    <3>2. QED
      BY <1>2, <2>2, <3>1 DEF MediaInv, SlotTrue, MediaTypeOK
  <2>3. QED
    BY <2>1, <2>2
<1>4. OneSlotEach'
  BY <1>2 DEF MediaInv, OneSlotEach, FreeSlot
<1>5. DiscoveryHasSlot'
  BY <1>2, MediaAssumption DEF MediaInv, MediaTypeOK, DiscoveryHasSlot, SlotsOf, Unknown, FreeSlot
<1>6. QED
  BY <1>1, <1>3, <1>4, <1>5 DEF MediaInv

\* The slot of a discovery is the gateway's own or a free one, which says IDLE.
LEMMA SecurityKeeps ==
    ASSUME MediaInv, NEW p \in Players, MediaSecurityChanged(p) PROVE MediaInv'
<1> DEFINE free == {i \in Slots : mcc_peer[i].conn = NoConn}
           starts(i) == mcc_peer[i].status = "IDLE" /\ mcc[p].busy = "no"
<1>1. PICK idx \in Slots :
        /\ idx \in IF SlotsOf(p) # {} THEN SlotsOf(p) ELSE free
        /\ mcc_peer' = [mcc_peer EXCEPT ![idx] =
                           [conn |-> p, status |-> IF starts(idx) THEN "IN_PROGRESS" ELSE @.status]]
        /\ IF starts(idx) THEN PeerBusy(p, "discovery") ELSE UNCHANGED mcc
        /\ p \in media_links
        /\ UNCHANGED <<media_links, player, media_player_state, media_button>>
  BY DEF MediaSecurityChanged, IsLowest
<1>2. mcc_peer[idx].conn = p \/ (SlotsOf(p) = {} /\ mcc_peer[idx].conn = NoConn)
  BY <1>1 DEF SlotsOf
<1>3. MediaTypeOK' /\ ButtonHasCommand'
  BY <1>1, <1>2 DEF MediaInv, MediaTypeOK, ButtonHasCommand, PeerBusy
<1>4. /\ mcc_peer'[idx].conn = p
      /\ mcc_peer'[idx].status = IF starts(idx) THEN "IN_PROGRESS" ELSE mcc_peer[idx].status
      /\ \A i \in Slots \ {idx} : mcc_peer'[i] = mcc_peer[i] /\ mcc_peer[i].conn # p
  BY <1>1, <1>2, MediaAssumption DEF MediaInv, MediaTypeOK, OneSlotEach, SlotsOf
<1>5. /\ mcc'[p].busy = IF starts(idx) THEN "discovery" ELSE mcc[p].busy
      /\ mcc'[p].found = mcc[p].found
      /\ \A q \in Players \ {p} : mcc'[q] = mcc[q]
  BY <1>1 DEF MediaInv, MediaTypeOK, PeerBusy
<1>6. SlotTrue(idx)'
  <2>1. SlotTrue(idx)
    BY <1>2 DEF MediaInv
  <2>2. mcc[p].busy = "discovery" => mcc_peer[idx].status = "IN_PROGRESS"
    BY <1>2, <2>1, MediaAssumption DEF MediaInv, DiscoveryHasSlot, SlotTrue
  <2>3. mcc_peer[idx].status = "IN_PROGRESS" => mcc[p].busy = "discovery"
    BY <1>2, <2>1, MediaAssumption DEF SlotTrue
  <2>4. mcc_peer[idx].status = "FINISHED" => mcc[p].found
    BY <1>2, <2>1, MediaAssumption DEF SlotTrue
  <2>5. QED
    BY <1>1, <1>4, <1>5, <2>2, <2>3, <2>4, MediaAssumption DEF SlotTrue
<1>7. ASSUME NEW i \in Slots, i # idx PROVE SlotTrue(i)'
  <2>1. mcc_peer[i].conn = NoConn \/ mcc_peer[i].conn \in Players \ {p}
    BY <1>4, <1>7 DEF MediaInv, MediaTypeOK
  <2>2. QED
    BY <1>1, <1>4, <1>5, <1>7, <2>1 DEF MediaInv, SlotTrue
<1>8. OneSlotEach'
  BY <1>4 DEF MediaInv, OneSlotEach
<1>9. DiscoveryHasSlot'
  BY <1>2, <1>4, <1>5, MediaAssumption DEF MediaInv, DiscoveryHasSlot, SlotsOf
<1>10. QED
  BY <1>3, <1>6, <1>7, <1>8, <1>9 DEF MediaInv

\* A discovery ends, with or without success.
LEMMA DiscoveryEndKeeps ==
    ASSUME MediaInv, NEW p \in Players, DiscoverFailed(p) \/ DiscoverDone(p) PROVE MediaInv'
<1> USE DEF DiscoverFailed, DiscoverDone, PeerBusy, SlotsOf
<1>1. MediaTypeOK' /\ ButtonHasCommand'
  <2>1. CASE DiscoverFailed(p)
    BY <2>1 DEF MediaInv, MediaTypeOK, ButtonHasCommand
  <2>2. CASE DiscoverDone(p)
    BY <2>2 DEF MediaInv, MediaTypeOK, ButtonHasCommand
  <2>3. QED
    BY <2>1, <2>2
<1>2. \A i \in Slots : mcc_peer[i].conn = p => mcc_peer[i].status = "IN_PROGRESS"
  BY MediaAssumption DEF MediaInv, SlotTrue
<1>3. /\ mcc'[p].busy # "discovery"
      /\ \A q \in Players \ {p} : mcc'[q] = mcc[q]
      /\ UNCHANGED media_links /\ p \in Players
      /\ \A i \in Slots : /\ mcc_peer'[i].conn = mcc_peer[i].conn
                          /\ mcc_peer[i].conn # p => mcc_peer'[i] = mcc_peer[i]
                          /\ mcc_peer[i].conn = p => \/ mcc_peer'[i].status = "IDLE"
                                                     \/ mcc_peer'[i].status = "FINISHED" /\ mcc'[p].found
  BY <1>2 DEF MediaInv, MediaTypeOK
<1>4. ASSUME NEW i \in Slots PROVE SlotTrue(i)'
  <2>1. SlotTrue(i) /\ mcc_peer[i].conn \in Players \cup {NoConn}
    BY DEF MediaInv, MediaTypeOK
  <2>2. CASE mcc_peer[i].conn = p
    BY <1>3, <2>1, <2>2, MediaAssumption DEF SlotTrue
  <2>3. CASE mcc_peer[i].conn # p
    BY <1>3, <2>1, <2>3 DEF SlotTrue
  <2>4. QED
    BY <2>2, <2>3
<1>5. OneSlotEach' /\ DiscoveryHasSlot'
  BY <1>3 DEF MediaInv, OneSlotEach, DiscoveryHasSlot
<1>6. QED
  BY <1>1, <1>4, <1>5 DEF MediaInv

\* The button's thread sends a command to the gateway of a slot whose client is free.
LEMMA SendKeeps ==
    ASSUME MediaInv, NEW i \in Slots, SendToSlot(i) PROVE MediaInv'
<1> DEFINE p == mcc_peer[i].conn
           sends == p # NoConn /\ mcc_peer[i].status = "FINISHED" /\ mcc[p].busy = "no" /\ mcc[p].found
<1>1. /\ media_button.left # {}
      /\ media_button' = [media_button EXCEPT !.left = @ \ {i}]
      /\ IF sends THEN PeerBusy(p, media_button.cmd) ELSE UNCHANGED mcc
      /\ UNCHANGED <<media_links, mcc_peer, player, media_player_state>>
  BY DEF SendToSlot, IsLowest
<1>2. p \in Players \cup {NoConn} /\ media_button.cmd \in {"PLAYING", "PAUSED"}
  BY <1>1 DEF MediaInv, MediaTypeOK, ButtonHasCommand
<1> HIDE DEF p
<1>3. MediaTypeOK' /\ ButtonHasCommand'
  BY <1>1, <1>2 DEF MediaInv, MediaTypeOK, ButtonHasCommand, PeerBusy
<1>4. \A q \in Players : /\ (mcc'[q].busy = "discovery") = (mcc[q].busy = "discovery")
                         /\ mcc'[q].found = mcc[q].found
  BY <1>1, <1>2 DEF MediaInv, MediaTypeOK, PeerBusy
<1>5. QED
  BY <1>1, <1>3, <1>4, MediaAside

\* Every step of the client, the players and the button keeps the table true.
LEMMA MediaStep == ASSUME MediaInv, MediaNext PROVE MediaInv'
<1>1. ASSUME NEW p \in Players,
             (\E ok \in BOOLEAN : ReadDone(p, ok)) \/ PlayerChanges(p) \/ CommandDone(p)
      PROVE  MediaInv'
  <2> USE <1>1 DEF ReadDone, PlayerChanges, CommandDone, PeerBusy
  <2>1. MediaTypeOK' /\ ButtonHasCommand'
    BY DEF MediaInv, MediaTypeOK, ButtonHasCommand
  <2>2. \A q \in Players : /\ (mcc'[q].busy = "discovery") = (mcc[q].busy = "discovery")
                           /\ mcc'[q].found = mcc[q].found
    BY DEF MediaInv, MediaTypeOK
  <2>3. UNCHANGED <<media_links, mcc_peer>>
    OBVIOUS
  <2>4. QED
    BY <2>1, <2>2, <2>3, MediaAside
<1>2. CASE MediaButton
  <2> USE <1>2 DEF MediaButton
  <2>1. MediaTypeOK' /\ ButtonHasCommand'
    BY DEF MediaInv, MediaTypeOK, ButtonHasCommand
  <2>2. QED
    BY <2>1, MediaAside
<1>3. QED
  BY <1>1, <1>2, ConnectedKeeps, DisconnectedKeeps, SecurityKeeps, DiscoveryEndKeeps, SendKeeps DEF MediaNext

LEMMA MediaInvHolds == Spec => []MediaInv
<1>1. Init => MediaInv
  BY MediaInitInv DEF Init
<1>2. MediaInv /\ [Next]_firmwareVars => MediaInv'
  <2> SUFFICES ASSUME MediaInv, [Next]_firmwareVars PROVE MediaInv'
    OBVIOUS
  <2>1. CASE MediaNext
    BY <2>1, MediaStep
  <2>2. CASE UNCHANGED mediaVars
    BY <2>2 DEF mediaVars, MediaInv, MediaTypeOK, SlotTrue, OneSlotEach, DiscoveryHasSlot,
               ButtonHasCommand, SlotsOf
  <2>3. MediaNext \/ UNCHANGED mediaVars
    BY DEF Next, firmwareVars, radioVars
  <2>4. QED
    BY <2>1, <2>2, <2>3
<1>3. QED
  BY <1>1, <1>2, PTL DEF Spec

\* The headset's table of media players is true, whatever gateways come and go and however
\* their discoveries end (SlotsMirrorPlayers), for any number of gateways and slots.
THEOREM PlayersMirrored == Spec => []SlotsMirrorPlayers
<1>1. MediaInv => SlotsMirrorPlayers
  BY MediaInvSuffices
<1>2. QED
  BY <1>1, MediaInvHolds, PTL

-----------------------------------------------------------------------------
(* bt_mgmt_adv.c and bt_mgmt.c                                             *)

\* There is one turn, and it is always somewhere: an index in the queue, the work item at
\* one, the set that is on, or the link that it has led to.
OneTurn ==
    \/ adv_q = 1 /\ adv_work.at = "idle" /\ ~ext_adv.on /\ links = {}
    \/ adv_q = 0 /\ adv_work.at \in {"create", "start"} /\ ~ext_adv.on /\ links = {}
    \/ adv_q = 0 /\ adv_work.at = "idle" /\ ext_adv.on /\ links = {}
    \/ adv_q = 0 /\ adv_work.at = "idle" /\ ~ext_adv.on /\ \E p \in Peers : links = {p}

\* The inductive invariant of advertising.
AdvertisingInv ==
    /\ adv_work = [at |-> adv_work.at, submitted |-> adv_work.submitted, peer |-> adv_work.peer]
    /\ ext_adv = [kind |-> ext_adv.kind, peer |-> ext_adv.peer, on |-> ext_adv.on]
    /\ OneTurn
    /\ adv_q > 0 => adv_work.submitted
    /\ ~adv_fault

LEMMA AdvertisingStep == ASSUME AdvertisingInv, AdvertisingNext PROVE AdvertisingInv'
<1> USE DEF AdvertisingInv, OneTurn
<1>1. AdvSets \in Nat \ {0}
  BY AdvertisingAssumption DEF AdvertisingAssumption
<1>2. ASSUME NEW p \in Peers, Connected(p) PROVE AdvertisingInv'
  BY <1>2 DEF Connected
<1>3. ASSUME NEW p \in Peers, Paired(p) PROVE AdvertisingInv'
  BY <1>3 DEF Paired
<1>4. ASSUME NEW p \in Peers, Disconnected(p) PROVE AdvertisingInv'
  <2>1. adv_q = 0 /\ adv_work.at = "idle" /\ ~ext_adv.on /\ links = {p}
    BY <1>4 DEF Disconnected
  <2>2. links' = {} /\ UNCHANGED ext_adv /\ AdvStart(TRUE)
    BY <1>4, <2>1 DEF Disconnected
  <2>3. QED
    BY <1>1, <2>1, <2>2 DEF AdvStart
<1>5. CASE ConnectFailed
  <2>1. adv_q = 0 /\ adv_work.at = "idle" /\ ext_adv.on /\ links = {}
    BY <1>5 DEF ConnectFailed
  <2>2. ext_adv' = [ext_adv EXCEPT !.on = FALSE] /\ UNCHANGED links /\ AdvStart(FALSE)
    BY <1>5 DEF ConnectFailed
  <2>3. adv_q' = 1 /\ UNCHANGED adv_fault /\ adv_work' = [adv_work EXCEPT !.submitted = TRUE]
    BY <1>1, <2>1, <2>2 DEF AdvStart
  <2>4. ~ext_adv'.on /\ ext_adv' = [kind |-> ext_adv'.kind, peer |-> ext_adv'.peer, on |-> ext_adv'.on]
    BY <2>2
  <2>5. /\ adv_work'.at = "idle" /\ adv_work'.submitted
        /\ adv_work' = [at |-> adv_work'.at, submitted |-> adv_work'.submitted, peer |-> adv_work'.peer]
    BY <2>1, <2>3
  <2>6. QED
    BY <2>1, <2>2, <2>3, <2>4, <2>5
<1>6. CASE DirAdvTimedOut
  BY <1>1, <1>6 DEF DirAdvTimedOut, AdvStart
<1>7. CASE TakeIndex
  BY <1>7 DEF TakeIndex
<1>8. CASE Create
  BY <1>8 DEF Create
<1>9. CASE StartSet
  BY <1>9 DEF StartSet
<1>10. QED
  BY <1>2, <1>3, <1>4, <1>5, <1>6, <1>7, <1>8, <1>9 DEF AdvertisingNext

LEMMA AdvertisingInvHolds == Spec => []AdvertisingInv
<1>1. Init => AdvertisingInv
  BY DEF Init, AdvertisingInit, AdvertisingInv, OneTurn
<1>2. AdvertisingInv /\ [Next]_firmwareVars => AdvertisingInv'
  <2> SUFFICES ASSUME AdvertisingInv, [Next]_firmwareVars PROVE AdvertisingInv'
    OBVIOUS
  <2>1. AdvertisingNext \/ UNCHANGED advertisingVars
    BY DEF Next, firmwareVars, radioVars
  <2>2. CASE UNCHANGED advertisingVars
    BY <2>2 DEF advertisingVars, AdvertisingInv, OneTurn
  <2>3. QED
    BY <2>1, <2>2, AdvertisingStep
<1>3. QED
  BY <1>1, <1>2, PTL DEF Spec

\* A headset without a link advertises once its work queue is idle (FoundWhenAlone), however
\* links, pairings and time-outs come between the queue's commands, for any number of peers.
THEOREM FoundAgain == Spec => []FoundWhenAlone
<1>1. AdvertisingInv => FoundWhenAlone
  BY DEF AdvertisingInv, OneTurn, FoundWhenAlone
<1>2. QED
  BY <1>1, AdvertisingInvHolds, PTL

-----------------------------------------------------------------------------
(* le_audio_rx.c                                                           *)

\* The queue, the frame that is decoded and the one that is put together have no more
\* buffers than the queue has places.
BuffersSuffice == Len(ble_q_rx) + Held(rx_decoding) + Held(audio_frame) <= RxPackets

\* The inductive invariant of the receive path; what its frames hold does not matter.
AudioRxInv == (\E S : ble_q_rx \in Seq(S)) /\ BuffersSuffice /\ ~rx_fault

LEMMA HeldIsBounded == \A f : Held(f) \in {0, 1} /\ (f # NoFrame => Held(f) = 1) /\ Held(NoFrame) = 0
BY DEF Held

\* A queue with one frame more is a queue.
LEMMA OneMore ==
    ASSUME NEW S, NEW q \in Seq(S), NEW f
    PROVE  (\E T : Append(q, f) \in Seq(T)) /\ Len(Append(q, f)) = Len(q) + 1
<1>1. q \in Seq(S \cup {f})
  BY SeqMonotonic
<1>2. QED
  BY <1>1, AppendProperties

\* A frame that is complete finds a place, and one that is not has a buffer.
LEMMA CheckSendKeeps ==
    ASSUME NEW S, NEW q \in Seq(S), NEW f, CheckSend(f, q), ~rx_fault,
           UNCHANGED rx_decoding, Len(q) + Held(rx_decoding) + 1 <= RxPackets
    PROVE  AudioRxInv'
<1>1. RxPackets \in Nat /\ Len(q) \in Nat
  BY AudioRxAssumption, LenProperties DEF AudioRxAssumption
<1>2. CASE audio_frame' = f /\ ble_q_rx' = q /\ UNCHANGED rx_fault
  BY <1>1, <1>2, HeldIsBounded DEF AudioRxInv, BuffersSuffice
<1>3. CASE audio_frame' = NoFrame /\ ble_q_rx' = Append(q, f) /\ UNCHANGED rx_fault
  <2>1. (\E T : ble_q_rx' \in Seq(T)) /\ Len(ble_q_rx') = Len(q) + 1
    BY <1>3, OneMore
  <2>2. Held(audio_frame') = 0 /\ Held(rx_decoding) \in {0, 1} /\ ~rx_fault' /\ UNCHANGED rx_decoding
    BY <1>3, HeldIsBounded
  <2>3. QED
    BY <1>1, <2>1, <2>2 DEF AudioRxInv, BuffersSuffice
<1>4. Len(q) < RxPackets
  <2>1. Held(rx_decoding) \in {0, 1}
    BY HeldIsBounded
  <2>2. QED
    BY <1>1, <2>1
<1>5. QED
  BY <1>2, <1>3, <1>4 DEF CheckSend

\* A new frame is begun only with a buffer for it.
LEMMA NewFrameKeeps ==
    ASSUME NEW S, NEW q \in Seq(S), NEW l, NEW valid, NewFrame(l, valid, q), ~rx_fault,
           UNCHANGED rx_decoding, Len(q) + Held(rx_decoding) <= RxPackets
    PROVE  AudioRxInv'
<1>1. RxPackets \in Nat /\ Len(q) \in Nat
  BY AudioRxAssumption, LenProperties DEF AudioRxAssumption
<1>2. CASE RxBuffers(q) = 0
  BY <1>1, <1>2, HeldIsBounded DEF NewFrame, AudioRxInv, BuffersSuffice
<1>3. CASE RxBuffers(q) # 0
  <2>1. Len(q) + Held(rx_decoding) + 1 <= RxPackets
    BY <1>1, <1>3, HeldIsBounded DEF RxBuffers
  <2>2. PICK f : CheckSend(f, q)
    BY <1>3 DEF NewFrame
  <2>3. QED
    BY <2>1, <2>2, CheckSendKeeps
<1>4. QED
  BY <1>2, <1>3

LEMMA AcceptedKeeps ==
    ASSUME NEW S, NEW q \in Seq(S), NEW l, NEW valid, Accepted(l, valid, q), ~rx_fault,
           UNCHANGED rx_decoding, Len(q) + Held(rx_decoding) + Held(audio_frame) <= RxPackets
    PROVE  AudioRxInv'
<1>1. RxPackets \in Nat /\ Len(q) \in Nat
  BY AudioRxAssumption, LenProperties DEF AudioRxAssumption
<1>2. CASE audio_frame = NoFrame
  BY <1>1, <1>2, NewFrameKeeps, HeldIsBounded DEF Accepted
<1>3. CASE audio_frame # NoFrame /\ audio_frame.old
  <2>1. Len(q) + Held(rx_decoding) + 1 <= RxPackets
    BY <1>3, HeldIsBounded
  <2>2. NewFrame(l, valid, Append(q, audio_frame))
    BY <1>1, <1>3, <2>1, HeldIsBounded DEF Accepted
  <2>3. PICK T : Append(q, audio_frame) \in Seq(T)
    BY OneMore
  <2>4. Len(Append(q, audio_frame)) + Held(rx_decoding) <= RxPackets
    BY <1>1, <2>1, OneMore, HeldIsBounded
  <2>5. QED
    BY <2>2, <2>3, <2>4, NewFrameKeeps
<1>4. CASE audio_frame # NoFrame /\ ~audio_frame.old /\ audio_frame.locations = {l}
  BY <1>4 DEF Accepted, AudioRxInv, BuffersSuffice
<1>5. CASE audio_frame # NoFrame /\ ~audio_frame.old /\ audio_frame.locations # {l}
  <2>1. PICK f : CheckSend(f, q)
    BY <1>5 DEF Accepted
  <2>2. QED
    BY <1>5, <2>1, CheckSendKeeps, HeldIsBounded
<1>6. QED
  BY <1>2, <1>3, <1>4, <1>5

\* What the handler leaves of the queue before it accepts an SDU.
LEMMA RxDataKeeps ==
    ASSUME AudioRxInv, NEW l \in Locations, NEW valid \in BOOLEAN, RxData(l, valid)
    PROVE  AudioRxInv'
<1>1. PICK S : ble_q_rx \in Seq(S)
  BY DEF AudioRxInv
<1>2. RxPackets \in Nat \ {0} /\ Len(ble_q_rx) \in Nat
  BY <1>1, AudioRxAssumption, LenProperties DEF AudioRxAssumption
<1>3. CASE ~rx_streaming
  BY <1>3 DEF RxData, AudioRxInv, BuffersSuffice
<1>4. CASE rx_streaming
  <2> DEFINE q == IF Len(ble_q_rx) = RxPackets THEN Tail(ble_q_rx) ELSE ble_q_rx
  <2>1. Accepted(l, valid, q) /\ UNCHANGED rx_decoding
    BY <1>4 DEF RxData
  <2>2. q \in Seq(S) /\ Len(q) <= Len(ble_q_rx) /\ Len(q) \in Nat
    <3>1. CASE Len(ble_q_rx) = RxPackets
      <4>1. ble_q_rx # <<>>
        BY <1>2, <3>1, EmptySeq
      <4>2. QED
        BY <1>1, <1>2, <3>1, <4>1, HeadTailProperties
    <3>2. QED
      BY <1>1, <1>2, <3>1
  <2>3. Len(q) + Held(rx_decoding) + Held(audio_frame) <= RxPackets
    BY <1>2, <2>2, HeldIsBounded DEF AudioRxInv, BuffersSuffice
  <2> HIDE DEF q
  <2>4. QED
    BY <2>1, <2>2, <2>3, AcceptedKeeps DEF AudioRxInv
<1>5. QED
  BY <1>3, <1>4

LEMMA AudioRxStep == ASSUME AudioRxInv, AudioRxNext PROVE AudioRxInv'
<1>1. PICK S : ble_q_rx \in Seq(S)
  BY DEF AudioRxInv
<1>2. RxPackets \in Nat /\ Len(ble_q_rx) \in Nat
  BY <1>1, AudioRxAssumption, LenProperties DEF AudioRxAssumption
<1>3. ASSUME NEW l \in Locations, RxConfigure(l) \/ RxStartOrStop(l) PROVE AudioRxInv'
  BY <1>3 DEF RxConfigure, RxStartOrStop, AudioRxInv, BuffersSuffice
<1>4. CASE RxStreamState
  BY <1>4 DEF RxStreamState, AudioRxInv, BuffersSuffice
<1>5. CASE NextInterval
  <2>1. Held(audio_frame') <= Held(audio_frame)
    BY <1>5 DEF NextInterval, Held
  <2>2. QED
    BY <1>2, <1>5, <2>1, HeldIsBounded DEF NextInterval, AudioRxInv, BuffersSuffice
<1>6. CASE TakeFrame
  <2>1. /\ ble_q_rx # <<>> /\ ble_q_rx' = Tail(ble_q_rx) /\ rx_decoding = NoFrame
        /\ UNCHANGED <<audio_frame, rx_fault>>
    BY <1>6 DEF TakeFrame
  <2>2. ble_q_rx' \in Seq(S) /\ Len(ble_q_rx') = Len(ble_q_rx) - 1
    BY <1>1, <2>1, HeadTailProperties
  <2>3. QED
    BY <1>2, <2>1, <2>2, HeldIsBounded DEF AudioRxInv, BuffersSuffice
<1>7. CASE UnrefFrame
  BY <1>2, <1>7, HeldIsBounded DEF UnrefFrame, AudioRxInv, BuffersSuffice
<1>8. QED
  BY <1>3, <1>4, <1>5, <1>6, <1>7, RxDataKeeps DEF AudioRxNext

LEMMA AudioRxInvHolds == Spec => []AudioRxInv
<1>1. Init => AudioRxInv
  <2> SUFFICES ASSUME Init PROVE AudioRxInv
    OBVIOUS
  <2>1. ble_q_rx \in Seq({}) /\ Len(ble_q_rx) = 0
    BY EmptySeq DEF Init, AudioRxInit
  <2>2. QED
    BY <2>1, AudioRxAssumption, HeldIsBounded
       DEF Init, AudioRxInit, AudioRxInv, BuffersSuffice, AudioRxAssumption
<1>2. AudioRxInv /\ [Next]_firmwareVars => AudioRxInv'
  <2> SUFFICES ASSUME AudioRxInv, [Next]_firmwareVars PROVE AudioRxInv'
    OBVIOUS
  <2>1. AudioRxNext \/ UNCHANGED audioRxVars
    BY DEF Next, firmwareVars, headsetPlayVars
  <2>2. CASE UNCHANGED audioRxVars
    BY <2>2 DEF audioRxVars, AudioRxInv, BuffersSuffice
  <2>3. QED
    BY <2>1, <2>2, AudioRxStep
<1>3. QED
  BY <1>1, <1>2, PTL DEF Spec

\* The receive queue takes every frame the handler puts (RxQueueNeverRefuses), for a pool
\* and a queue of any size.
THEOREM QueueTakesAll == Spec => []RxQueueNeverRefuses
<1>1. AudioRxInv => RxQueueNeverRefuses
  BY DEF AudioRxInv, RxQueueNeverRefuses
<1>2. QED
  BY <1>1, AudioRxInvHolds, PTL

-----------------------------------------------------------------------------
(* sd_card_playback.c                                                      *)

PlaybackSteps == {"wait", "header", "frame", "space", "lock", "put", "written"}
Frame == [of : Nat, frame : Nat]

\* A frame n of the file is already in the ring, or out of it: the one that has been read but
\* not put is still to come.
Passed(n) ==
    /\ n <= playback.frame
    /\ playback.at \in {"space", "lock", "put"} => n < playback.frame

SdTypes ==
    /\ play_request \in [name : Nat, given : BOOLEAN]
    /\ playback \in [at : PlaybackSteps, of : Nat, frame : Nat]
    /\ ring \in Seq(Frame) /\ mixed \in Frame

\* A file that is asked for is not the one that plays, nor one that has played.
FilesAscend ==
    /\ playback.of <= play_request.name /\ (play_request.given => playback.of < play_request.name)
    /\ mixed.of <= playback.of

\* The ring holds frames of the file that plays only, in its order.
RingInOrder ==
    /\ \A i \in 1..Len(ring) : ring[i].of = playback.of /\ Passed(ring[i].frame)
    /\ \A i, j \in 1..Len(ring) : i < j => ring[i].frame < ring[j].frame

\* What was mixed of that file comes before all of them.
MixedIsBefore ==
    mixed.of = playback.of =>
        /\ Passed(mixed.frame)
        /\ \A i \in 1..Len(ring) : mixed.frame < ring[i].frame

\* The inductive invariant of the playback.
SdInv == SdTypes /\ FilesAscend /\ RingInOrder /\ MixedIsBefore /\ ~mix_fault

LEMMA SdNumbers ==
    ASSUME SdInv
    PROVE  /\ playback.of \in Nat /\ playback.frame \in Nat
           /\ mixed.of \in Nat /\ mixed.frame \in Nat
           /\ Len(ring) \in Nat
           /\ \A i \in 1..Len(ring) : ring[i] \in Frame /\ ring[i].of \in Nat /\ ring[i].frame \in Nat
<1>1. ring \in Seq(Frame)
  BY DEF SdInv, SdTypes
<1>2. Len(ring) \in Nat /\ \A i \in 1..Len(ring) : ring[i] \in Frame
  BY <1>1, LenProperties, ElementOfSeq
<1>3. QED
  BY <1>2 DEF SdInv, SdTypes, Frame

\* The thread goes on to a step that passes no more frames than the one it leaves.
LEMMA PlaybackMoves ==
    ASSUME SdInv, UNCHANGED <<play_request, ring, mixed, mix_fault>>,
           NEW s \in PlaybackSteps, At(s),
           s \in {"space", "lock", "put"} => playback.at \in {"space", "lock", "put"}
    PROVE  SdInv'
<1>1. /\ playback' \in [at : PlaybackSteps, of : Nat, frame : Nat]
      /\ playback'.at = s /\ playback'.of = playback.of /\ playback'.frame = playback.frame
  BY DEF SdInv, SdTypes, At
<1>2. SdTypes' /\ FilesAscend'
  BY <1>1 DEF SdInv, SdTypes, FilesAscend
<1>3. \A n \in Nat : Passed(n) => Passed(n)'
  BY <1>1 DEF Passed
<1>4. RingInOrder'
  BY <1>1, <1>3 DEF SdInv, SdTypes, RingInOrder, Passed
<1>5. MixedIsBefore'
  BY <1>1, <1>3 DEF SdInv, SdTypes, MixedIsBefore, Passed
<1>6. QED
  BY <1>2, <1>4, <1>5 DEF SdInv

LEMMA FrameReadKeeps == ASSUME SdInv, NEW ok \in BOOLEAN, FrameRead(ok) PROVE SdInv'
<1>1. CASE ~(ok /\ playback.frame < FileFrames)
  BY <1>1, PlaybackMoves DEF FrameRead, PlaybackEnds, PlaybackSteps
<1>2. CASE ok /\ playback.frame < FileFrames
  <2>1. /\ playback' \in [at : PlaybackSteps, of : Nat, frame : Nat]
        /\ playback'.at = "space" /\ playback'.of = playback.of
        /\ playback'.frame = playback.frame + 1
        /\ UNCHANGED <<play_request, ring, mixed, mix_fault>>
    <3>1. /\ playback' = [playback EXCEPT !.at = "space", !.frame = @ + 1]
          /\ UNCHANGED <<play_request, ring, mixed, mix_fault>>
      BY <1>2 DEF FrameRead
    <3>2. playback \in [at : PlaybackSteps, of : Nat, frame : Nat] /\ playback.frame + 1 \in Nat
      BY SdNumbers DEF SdInv, SdTypes
    <3>3. QED
      BY <3>1, <3>2 DEF PlaybackSteps
  <2>2. playback.frame \in Nat
    BY DEF SdInv, SdTypes
  <2>3. \A n \in Nat : Passed(n) => Passed(n)'
    BY <2>1, <2>2 DEF Passed
  <2>4. SdTypes' /\ FilesAscend'
    BY <2>1 DEF SdInv, SdTypes, FilesAscend
  <2>5. RingInOrder'
    BY <2>1, <2>3, SdNumbers DEF SdInv, RingInOrder, Passed
  <2>6. MixedIsBefore'
    BY <2>1, <2>3 DEF SdInv, SdTypes, Frame, MixedIsBefore
  <2>7. QED
    BY <2>1, <2>4, <2>5, <2>6 DEF SdInv
<1>3. QED
  BY <1>1, <1>2

\* The frame that was read comes after all that passed.
LEMMA FramePutKeeps == ASSUME SdInv, FramePut PROVE SdInv'
<1>1. /\ playback.at = "put" /\ At("written")
      /\ UNCHANGED <<play_request, mixed, mix_fault>>
  BY DEF FramePut
<1>2. CASE UNCHANGED ring
  BY <1>1, <1>2, PlaybackMoves DEF PlaybackSteps
<1>3. CASE ring' = Append(ring, [of |-> playback.of, frame |-> playback.frame])
  <2> DEFINE f == [of |-> playback.of, frame |-> playback.frame]
  <2>1. ring \in Seq(Frame) /\ f \in Frame /\ Len(ring) \in Nat
    BY DEF SdInv, SdTypes, Frame
  <2>2. /\ playback' \in [at : PlaybackSteps, of : Nat, frame : Nat]
        /\ playback'.at = "written" /\ playback'.of = playback.of
        /\ playback'.frame = playback.frame
    BY <1>1 DEF At, SdInv, SdTypes, PlaybackSteps
  <2>3. /\ ring' \in Seq(Frame) /\ Len(ring') = Len(ring) + 1
        /\ \A i \in 1..Len(ring) : ring'[i] = ring[i]
        /\ ring'[Len(ring) + 1] = f
    BY <1>3, <2>1, AppendProperties
  <2>4. \A i \in 1..Len(ring) : ring[i].of = playback.of /\ ring[i].frame < playback.frame
    BY <1>1 DEF SdInv, RingInOrder, Passed
  <2>5. \A i \in 1..Len(ring) : ring[i].frame \in Nat
    BY SdNumbers
  <2>6. playback.frame \in Nat /\ f.of = playback.of /\ f.frame = playback.frame
    BY <2>1 DEF SdInv, SdTypes
  <2> HIDE DEF f
  <2>7. SdTypes' /\ FilesAscend'
    BY <1>1, <2>2, <2>3 DEF SdInv, SdTypes, FilesAscend
  <2>8. RingInOrder'
    <3>1. ASSUME NEW i \in 1..Len(ring') PROVE ring'[i].of = playback'.of /\ Passed(ring[i].frame)'
      <4>1. i \in 1..Len(ring) \/ i = Len(ring) + 1
        BY <2>1, <2>3
      <4>2. ring'[i].of = playback.of /\ ring'[i].frame <= playback.frame
        BY <2>3, <2>4, <2>5, <2>6, <4>1
      <4>3. QED
        BY <2>2, <4>2 DEF Passed
    <3>2. ASSUME NEW i \in 1..Len(ring'), NEW j \in 1..Len(ring'), i < j
          PROVE  ring'[i].frame < ring'[j].frame
      <4>1. i \in 1..Len(ring) /\ (j \in 1..Len(ring) \/ j = Len(ring) + 1)
        BY <2>1, <2>3, <3>2
      <4>2. CASE j \in 1..Len(ring)
        BY <2>3, <3>2, <4>1, <4>2 DEF SdInv, RingInOrder
      <4>3. CASE j = Len(ring) + 1
        BY <2>3, <2>4, <2>6, <4>1, <4>3
      <4>4. QED
        BY <4>1, <4>2, <4>3
    <3>3. QED
      BY <3>1, <3>2 DEF RingInOrder
  <2>9. MixedIsBefore'
    <3>1. SUFFICES ASSUME mixed.of = playback.of
                   PROVE  /\ Passed(mixed.frame)'
                          /\ \A i \in 1..Len(ring') : mixed.frame < ring'[i].frame
      BY <1>1, <2>2 DEF MixedIsBefore
    <3>2. mixed.frame < playback.frame
      BY <1>1, <3>1 DEF SdInv, MixedIsBefore, Passed
    <3>3. mixed.frame \in Nat
      BY DEF SdInv, SdTypes, Frame
    <3>4. Passed(mixed.frame)'
      BY <1>1, <2>2, <2>6, <3>2, <3>3 DEF Passed
    <3>5. ASSUME NEW i \in 1..Len(ring') PROVE mixed.frame < ring'[i].frame
      <4>1. i \in 1..Len(ring) \/ i = Len(ring) + 1
        BY <2>1, <2>3
      <4>2. QED
        BY <2>3, <2>6, <3>1, <3>2, <4>1 DEF SdInv, MixedIsBefore
    <3>6. QED
      BY <3>4, <3>5
  <2>10. QED
    BY <1>1, <2>7, <2>8, <2>9 DEF SdInv
<1>4. QED
  BY <1>2, <1>3 DEF FramePut

\* The first frame of the ring is the next one to be mixed.
LEMMA MixKeeps == ASSUME SdInv, MixWithStream PROVE SdInv'
<1>1. UNCHANGED <<play_request, playback>>
  BY DEF MixWithStream
<1>2. CASE ring = <<>>
  BY <1>1, <1>2 DEF MixWithStream, RingRead, SdInv, SdTypes, FilesAscend, RingInOrder,
                    MixedIsBefore, Passed
<1>3. CASE ring # <<>>
  <2>1. ring \in Seq(Frame) /\ Len(ring) \in Nat
    BY DEF SdInv, SdTypes
  <2>2. /\ Head(ring) = ring[1] /\ ring[1] \in Frame /\ 1 \in 1..Len(ring)
        /\ Tail(ring) \in Seq(Frame) /\ Len(Tail(ring)) = Len(ring) - 1
        /\ \A i \in 1..Len(Tail(ring)) : Tail(ring)[i] = ring[i + 1] /\ i + 1 \in 1..Len(ring)
    BY <1>3, <2>1, EmptySeq, HeadTailProperties
  <2>3. ring' = Tail(ring) /\ mixed' = ring[1]
    BY <1>3, <2>2 DEF MixWithStream, RingRead
  <2>4. ring[1].of = playback.of /\ Passed(ring[1].frame)
    BY <2>2 DEF SdInv, RingInOrder
  <2>5. mixed.of = playback.of => mixed.frame < ring[1].frame
    BY <2>2 DEF SdInv, MixedIsBefore
  <2>6. ~mix_fault'
    <3>1. mixed.frame \in Nat /\ ring[1].frame \in Nat
      BY <2>2, SdNumbers
    <3>2. ring[1].of = playback.of /\ ~(mixed.of = ring[1].of /\ mixed.frame >= ring[1].frame)
      BY <2>4, <2>5, <3>1
    <3>3. mix_fault' = (mix_fault \/ ring[1].of # playback.of
                          \/ (mixed.of = ring[1].of /\ mixed.frame >= ring[1].frame))
      BY <1>3, <2>2 DEF MixWithStream
    <3>4. ~mix_fault
      BY DEF SdInv
    <3>5. QED
      BY <3>2, <3>3, <3>4
  <2>7. SdTypes' /\ FilesAscend'
    BY <1>1, <2>2, <2>3, <2>4 DEF SdInv, SdTypes, FilesAscend
  <2>8. RingInOrder'
    <3>1. \A i \in 1..Len(ring') : ring'[i].of = playback'.of /\ Passed(ring[i].frame)'
      BY <1>1, <2>2, <2>3 DEF SdInv, RingInOrder, Passed
    <3>2. ASSUME NEW i \in 1..Len(ring'), NEW j \in 1..Len(ring'), i < j
          PROVE  ring'[i].frame < ring'[j].frame
      <4>1. /\ ring'[i] = ring[i + 1] /\ ring'[j] = ring[j + 1] /\ i + 1 < j + 1
            /\ i + 1 \in 1..Len(ring) /\ j + 1 \in 1..Len(ring)
        BY <2>2, <2>3, <3>2
      <4>2. QED
        BY <4>1 DEF SdInv, RingInOrder
    <3>3. QED
      BY <3>1, <3>2 DEF RingInOrder
  <2>9. MixedIsBefore'
    <3>1. ASSUME NEW i \in 1..Len(ring') PROVE ring[1].frame < ring'[i].frame
      <4>1. ring'[i] = ring[i + 1] /\ 1 < i + 1 /\ i + 1 \in 1..Len(ring)
        BY <2>2, <2>3
      <4>2. QED
        BY <2>2, <4>1 DEF SdInv, RingInOrder
    <3>2. QED
      BY <1>1, <2>3, <2>4, <3>1 DEF MixedIsBefore, Passed
  <2>10. QED
    BY <2>6, <2>7, <2>8, <2>9 DEF SdInv
<1>4. QED
  BY <1>2, <1>3

LEMMA SdPlaybackStep == ASSUME SdInv, SdPlaybackNext PROVE SdInv'
<1>1. CASE PlayCommand
  BY <1>1 DEF PlayCommand, SdInv, SdTypes, FilesAscend, RingInOrder, MixedIsBefore, Passed
<1>2. CASE PlaybackBegins
  <2>1. /\ playback' \in [at : PlaybackSteps, of : Nat, frame : Nat]
        /\ playback'.of = play_request.name /\ play_request.name > playback.of
        /\ play_request' \in [name : Nat, given : BOOLEAN]
        /\ play_request'.name = play_request.name /\ ~play_request'.given
        /\ UNCHANGED <<mixed, mix_fault>>
    BY <1>2 DEF PlaybackBegins, SdInv, SdTypes, FilesAscend, PlaybackSteps
  <2>2. ring' \in Seq(Frame) /\ Len(ring') = 0
    BY <1>2, EmptySeq DEF PlaybackBegins, RingReset
  <2>3. mixed.of < playback'.of /\ mixed.of \in Nat /\ playback'.of \in Nat
    BY <2>1 DEF SdInv, SdTypes, FilesAscend, Frame
  <2>4. QED
    BY <2>1, <2>2, <2>3 DEF SdInv, SdTypes, FilesAscend, RingInOrder, MixedIsBefore
<1>3. ASSUME NEW ok \in BOOLEAN, HeaderRead(ok) PROVE SdInv'
  BY <1>3, PlaybackMoves DEF HeaderRead, PlaybackEnds, PlaybackSteps
<1>4. CASE SpaceTaken
  BY <1>4, PlaybackMoves DEF SpaceTaken, PlaybackSteps
<1>5. CASE SpaceTimeout
  BY <1>5, PlaybackMoves DEF SpaceTimeout, PlaybackEnds, PlaybackSteps
<1>6. CASE RingLocked
  BY <1>6, PlaybackMoves DEF RingLocked, PlaybackSteps
<1>7. CASE FrameWritten
  BY <1>7, PlaybackMoves DEF FrameWritten, PlaybackSteps
<1>8. QED
  BY <1>1, <1>2, <1>3, <1>4, <1>5, <1>6, <1>7, FrameReadKeeps, FramePutKeeps, MixKeeps
     DEF SdPlaybackNext

LEMMA SdInvHolds == Spec => []SdInv
<1>1. Init => SdInv
  <2> SUFFICES ASSUME Init PROVE SdInv
    OBVIOUS
  <2>1. ring \in Seq(Frame) /\ Len(ring) = 0
    BY EmptySeq DEF Init, SdPlaybackInit
  <2>2. QED
    BY <2>1 DEF Init, SdPlaybackInit, NothingMixed, SdInv, SdTypes, Frame, PlaybackSteps,
                FilesAscend, RingInOrder, MixedIsBefore, Passed
<1>2. SdInv /\ [Next]_firmwareVars => SdInv'
  <2> SUFFICES ASSUME SdInv, [Next]_firmwareVars PROVE SdInv'
    OBVIOUS
  <2>1. SdPlaybackNext \/ UNCHANGED sdPlaybackVars
    BY DEF Next, firmwareVars, cardVars
  <2>2. CASE UNCHANGED sdPlaybackVars
    BY <2>2 DEF sdPlaybackVars, SdInv, SdTypes, FilesAscend, RingInOrder, MixedIsBefore, Passed
  <2>3. QED
    BY <2>1, <2>2, SdPlaybackStep
<1>3. QED
  BY <1>1, <1>2, PTL DEF Spec

\* What is mixed is of the file that plays and in its order (PlaysTheFileInOrder), for files,
\* rings and numbers of commands of any size and every interleaving of the two threads.
THEOREM FilePlaysInOrder == Spec => []PlaysTheFileInOrder
<1>1. SdInv => PlaysTheFileInOrder
  BY DEF SdInv, PlaysTheFileInOrder
<1>2. QED
  BY <1>1, SdInvHolds, PTL

-----------------------------------------------------------------------------
(* audio_datapath.c                                                        *)

\* I2S is always given a buffer (AltBuffersSuffice), for a FIFO, frames and delays of any size:
\* of the two alternative buffers one at most is still played when the FIFO runs empty, as
\* the one that the interrupt reports is given back before the next is taken.
THEOREM AltBuffersAreEnough == Spec => []AltBuffersSuffice
<1>1. Init => AltBuffersSuffice
  BY DEF Init, DatapathInit, AltBuffersSuffice
<1>2. AltBuffersSuffice /\ [Next]_firmwareVars => AltBuffersSuffice'
  <2> SUFFICES ASSUME AltBuffersSuffice, [Next]_firmwareVars PROVE UNCHANGED dp_fault \/ ~dp_fault'
    BY DEF AltBuffersSuffice
  <2>1. AltBufferFree # {}
    <3>1. "alt_0" # "alt_1" /\ AltBuffers = {"alt_0", "alt_1"}
      BY DEF AltBuffers
    <3>2. QED
      BY <3>1 DEF AltBufferFree
  <2>2. CASE BlkComplete
    BY <2>1, <2>2 DEF BlkComplete
  <2>3. DatapathNext \/ UNCHANGED dp_fault
    BY DEF Next, firmwareVars, headsetPlayVars, datapathVars
  <2>4. CASE DatapathNext /\ ~BlkComplete
    BY <2>4 DEF DatapathNext, StreamOut, AddFrame, DatapathStart, DatapathStop, PresDelaySet
  <2>5. QED
    BY <2>2, <2>3, <2>4
<1>3. QED
  BY <1>1, <1>2, PTL DEF Spec

=============================================================================
