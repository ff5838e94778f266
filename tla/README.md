# Auracle in TLA+

Auracle observes and plays LE Audio broadcasts. A desktop application talks by gRPC to a daemon; the
daemon keeps an inventory of Bluetooth hardware and runs scans on it; the hardware is this computer's own
adapter or a board with two processors: an nRF5340 that scans for and plays broadcasts and, on the networked
version, an ESP32 that bridges the nRF5340's UART to TCP and announces it by mDNS.

This directory models the parts of that system where threads, callbacks and messages interleave, checks them
with TLC and proves most of their safety properties, for every size of the system, with TLAPS.

## Inventory

| Component | State | Operations | Talks to | Hard behaviours | Must hold |
|---|---|---|---|---|---|
| Scanner manager (`scanner_manager.cpp`) | scanner and retained devices per unit, one mutex | bind, unbind, start, stop, list, advertisement handler | owns scanners; called by gRPC threads and inventory events; emits observations | joins a thread under the mutex that thread needs | stop means quiet; counts equal events; no event for a unit that is gone |
| Remote wire scanner (`remote_wire_scanner.cpp`) | atomic flag, jthread, transport | start, stop, the worker's loop | serial port or TCP to firmware | restart against a thread that is closing; lost links | one user of a port; the tap is on for those who read, and left on only by a lost link |
| Local scanner (`local_bluetooth_scanner.cpp`) | handler, flag | start, stop | CoreBluetooth's dispatch queue | callback after stop | as above |
| Registry (`registry.cpp`) | candidates, units, one mutex | upsert, mark gone, submit probe result | emits events outside the mutex to scheduler, scanner binding, watchers | events delivered out of order; results for what is gone | the subscribers agree with the maps |
| Providers, probers, scheduler | the monitors' snapshots | arrived, changed, departed; probe; reprobe | registry | startup races, failed probes | what is attached gets served |
| mDNS provider (`mdns_provider.cpp`) | ping targets under a mutex | arrived, departed, ping round | registry, from two threads | ping in flight while a service departs | silent hosts go, answering ones return, the two threads do not collide |
| RPC services | one channel per stream | unary calls, Watch, WatchObservations | registry, scanner manager | snapshot against subscription | a stream loses nothing |
| Compliance engine | suites and rules | tokenize, parse, evaluate | files, RPC | grammar corner cases | total, precedence |
| Desktop bridge (`scan_bridge.rs`) | map of unit to devices and cancel handle | start_scan, stop_scan, stream task | daemon; hooks in `useDevices.ts` | check-then-act across awaits | at most one stream a unit; stop stops it |
| nRF5340 broadcast sink and scan | scan callback, PA sync, sink object, stream, counter | Bluetooth callbacks, timer, work items | Zephyr host; two zbus channels | callbacks against threads and work; stale syncs | a pending sync is watched; a stream that is up is heard |
| nRF5340 mode control (`auracle_mode.c`, `main.c`) | current mode, one mutex | set, apply; message and button threads | broadcast sink; ESP link | four threads, only two of them with the mutex | the mode is the one acknowledged; commands are answered; the device scans when it should |
| nRF5340 ESP link (`esp_conn.c`), wire (`wire.c`) | transmit semaphore, line queue | write, receive lines | UART to ESP32, USB to daemon | late completions, full queue, torn lines | one completion a write |
| nRF5340 unicast client and server, server store | servers, procedure queue, streams | discovery, configure, enable, release | Zephyr BAP | callbacks of several servers, failed procedures | procedures in order, no stale server |
| nRF5340 broadcast source | subgroups, streams | start, stop, send | Zephyr BAP | stop while starting | no send to a stopped stream |
| nRF5340 audio path | block FIFO, drift and presentation state | I2S ISR, stream data, encoder thread | codec, streams | ISR against threads, overrun | blocks in order, lock states reached |
| nRF5340 SD playback, LC3 streamer | files, stream contexts, frame FIFO | open, refill work, get frame, close | SD card | refill against close | frames in order, no use after close |
| ESP32 bridge | UART queues, one TCP client | receive task, server task | nRF5340, daemon | queues overflow inside a line; reconnect | whole lines, or none |
| ESP32 Wi-Fi manager | state, retry count, event bits, credentials | event handler, connect, provision | network, captive portal | retries run out, late events | it reconnects; good credentials stay |

`PROJECT.json` lists all of them with what is modelled, and each hazard with the line where it bites.

## Modules

| Module | Models | Extended or instantiated by |
|---|---|---|
| `ScanSession` | what a unit's clients are promised: one scan at a time, events only while it runs, unbind only at rest | refined by `ScannerManager` |
| `ScannerManager` | manager, remote scanners, worker threads, transports, the firmware's tap | `ScannerManagerProofs` |
| `ScannerManagerProofs` | theorems about `ScannerManager` | |
| `Registry` | registry maps, synchronous delivery, scanner binding, one watching client | `Inventory`, `MdnsProvider` |
| `Inventory` | serial and host-Bluetooth monitors, probes, reprobe thread, startup | `InventoryProofs` |
| `InventoryProofs` | theorems about `Inventory` | |
| `MdnsProvider` | mDNS monitor's thread and ping thread on the same registry | `MdnsProviderProofs` |
| `MdnsProviderProofs` | theorems about `MdnsProvider` | |
| `BroadcastSink` | nRF5340 Bluetooth host: scan, PA sync, sink object, stream, timer, work queue | `AuracastSink` |
| `AuracastSink` | the nRF5340's threads and mode control around it | `AuracastSinkProofs` |
| `AuracastSinkProofs` | theorems about `AuracastSink` and the host it extends | |
| `ServerStore` | the gateway's store of headsets, as operators on the array | `UnicastClient` |
| `UnicastClient` | discovery, presets, the unicast group, the CAP procedures, as operators on the client's state | `Gateway` |
| `Gateway` | the gateway's threads, callbacks, scan, links, application and button | `GatewayMC`, `GatewayProofs`, `GatewayAudioProofs` |
| `GatewayMC` | the headsets of the checked instances | |
| `GatewayProofs` | theorems about `Gateway` and the operators of the store and the client | `GatewayAudioProofs` |
| `GatewayAudioProofs` | theorems about `Gateway`: the application and the streams, the types | |
| `Headset` | unicast server, application, audio system and encoder of a headset | `Firmware` |
| `AudioRx` | merging, queueing and decoding of received frames | `Firmware` |
| `AudioDatapath` | FIFO of blocks, drift and presentation compensation, I2S interrupt | `Firmware` |
| `Advertising` | the advertising set, its work queue, links and bonds | `Firmware` |
| `Broadcaster` | broadcast source, its application, the buffers of each stream | `Firmware` |
| `MediaControl` | the headset's media control client and the button | `Firmware` |
| `SdPlayback` | playback thread and ring buffer of the SD card | `Firmware` |
| `Lc3Streamer` | the files read one frame ahead by a work queue | `Firmware` |
| `BoardLinks` | the nRF5340's UART to the ESP32 and its USB commands | `Firmware` |
| `Esp32Bridge` | the ESP32: Wi-Fi manager, captive portal, bridge of UART and TCP | `Firmware` |
| `Firmware` | one of these ten parts at a time, from every start | `FirmwareProofs`, `AudioProofs` |
| `FirmwareProofs` | theorems about `Firmware`: the links, the ESP32, the media players, advertising, the receive queue, I2S's buffers, the SD card's playback | `AudioProofs` |
| `AudioProofs` | theorems about `Firmware`: the headset, merged frames, the datapath, the broadcast source, the LC3 streamer, the types | |

### ScannerManager

One record per worker thread holds its program counter, its unit, its stop token, whether its link is broken
and the lines it has read but not handled. `scanning[u]` is the atomic flag and `jthread[u]` the `worker_` member:
`stop()` joins only if the flag was up, `start()` replaces a jthread that may not have been joined. A critical
section of the manager without a blocking call is one step. `stop_scan` and `unbind_scanner` are two: the first
takes the mutex, lowers the flag and requests the stop; the second is possible once the thread has ended. The
handler is two steps, as in the code: the retained device is updated under the mutex, the event is emitted after it.
`port` and `tap` are the far side: who has the transport open and whether the firmware streams advertisements. The
firmware changes its taps only when it is told to, so a link that is lost while the board keeps its power (`LinkLost`; the
board declares itself self-powered, `wire.c:47`) leaves the tap on until the next worker's session or a reset
(`BoardResets`); the history variable `stray` remembers it.
Names, payloads and the merge of advertisements are left out; a device is an identity with a count.

### Registry, Inventory, MdnsProvider

`on_event.emit` runs the subscribers in the emitting thread, and a subscriber calls the registry again (the
scheduler probes and submits inside `CandidateAdded`). `todo[t]` is that call stack flattened to the calls still to
make, so other threads interleave between a change of the maps and the delivery of its event. `view` is a client of
`Watch`. `overtaken[c]` is a history variable: the registry's entry of c was changed for one thread while another
was in the middle of something about c, and no departure has cleaned up since.
In `Inventory` the monitor library is external: a thread that tells the provider what differs from what it told
last. In `MdnsProvider` the ping thread snapshots the targets, pings without the mutex, and judges an answer and calls
the registry with it; the monitor's thread upserts before it writes the target,
and writes none for a service that announces no IPv4 address (`ipv4`): such a host is never pinged, so `SilentIsGone` speaks
of the others only; it stays in the inventory, however silent, until its announcement expires.

### BroadcastSink, AuracastSink

A call that waits for the controller ends a step; what runs to the next such call is one action, so the steps
`lock, stop, delete, start, scan, done` of `auracle_mode_apply_locked` interleave with the Bluetooth thread's
callbacks, the work queue and the other threads. `audioQ` and `mgmtQ` are the two zbus channels. A periodic-advertising
sync object is a slot of a static pool, reused first, which is why a stale pointer to it reaches its next user;
`stored` says whether `pa_sync_stored` is set. `StopStreams` runs the stopped callback in the caller's thread, as
Zephyr's host does when a sink is stopped locally. Step `fault` is `bt_mgmt_pa_sync_delete(NULL)`: that thread makes no
further step. Only the build the repository ships is modelled: one stream, no scan delegator, a configured broadcast
id. Codec parameters, presentation delay and the LEDs are left out.

### ServerStore, UnicastClient, Gateway

The functions of `server_store.c` and `unicast_client.c` call each other, and each runs to its end under the store's
lock or in a cooperative thread. They are therefore operators from the client's state to its next one (`client`, a record:
the servers, `sem_cap_procedure_proceed`, `cap_proc_q`, the group, each stream's endpoint, the procedure and the discoveries
under way, the messages to the application), and `Gateway` applies them in its actions. Presets are chosen from the
headset's capabilities as the code scans them (`sample_rate_check`, locations, `pres_delay_compute`); a capability record is
what it says of rates and octets. The stack is external: `Configured`, `Started`, `StartComplete`, `StopReleases`,
`LinkReleases` are its callbacks, at any time the procedure allows, and a link may end at any of them. With the link up
a start may fail (`StartFails`), the discovery of the set may (`CasFails`: the message then says a set of no members), and a headset
may end a stream or release one by itself (`PeerStops`, `PeerReleases`), within a start or a stop or outside of one. Where a
thread or the worker waits for the store's lock with a limit (500 ms), the wait may run out: `ContentTakeTimesOut`, `CompleteTimesOut`,
`WorkerTimesOut`. A start that runs into it returns with the semaphore taken (`unicast_client.c:1530`), which nothing gives
back; the history field `kept` remembers that. A stop does not take the store's lock. `link[c]` is a slot
of Zephyr's pool of connections, used again as soon as it is free: that is how a stale pointer reaches another headset. The
two subscriber threads are interrupted between their calls (`ContentTake`, `ContentPut`, `AudioMessage`, `CoordSet`).

### Firmware and its parts

Ten parts share no state with each other in the code but through calls that each module takes as inputs (a stream
starts, a block is played, a peer connects). `part` fixes which of them a behaviour is about, so that one run checks all
of them without multiplying their states. Priorities are part of each model: a cooperative callback is one action, a
preemptible thread is interrupted wherever a thread above it, a callback or an interrupt can run.

- `Headset`: the stack's callbacks (`ConfigReceived`, `Start`, `Stop`, ... per stream) and the subscriber's handling of
  the messages, with the configuration that `audio_system.c` keeps beside the one `sw_codec_select.c` was given.
- `AudioRx`: the handler of `le_audio_rx.c` line by line for one or two locations; a timestamp is told apart only by
  whether it is of the interval of the frame being merged. `data` says whose samples lie in a slot of a frame.
- `AudioDatapath`: a delay is counted in blocks of 1 ms, ages saturate at `AgeCap`. A frame that does not decode, or decodes to
  the wrong size, or for which no buffer is free, is discarded after the compensation has looked at it (`AddFrame`).
  The compensation's counter and sum are taken as 0 in the states that set them before they read them. The interrupt (`BlkComplete`) comes
  between any two steps; measured errors are the differences of ages the code computes from timestamps.
- `Advertising`: `advertising_process` blocks between its HCI commands; `adv_q` holds indices, of which one is enough.
- `Broadcaster`: a send takes a buffer for each stream and blocks after each; stops clear counts as in `bt_le_audio_tx.c`.
- `MediaControl`: a slot of `mcc_peer` with its status against Zephyr's client, which takes one procedure per peer.
- `SdPlayback`, `Lc3Streamer`: a frame is its number and its file.
- `BoardLinks`: `esp_tx_done` is the completion semaphore, drained before each write; `uart_tx` whose line the driver
  sends, from that writer's stack. `tx_timed_out` remembers that a completion was ever late.
- `Esp32Bridge`: the driver's station and its posted events are apart, as the event loop handles them later; `PowerFails`
  keeps only the flash. An attempt at boot and one after provisioning (`Attempts`) differ in what a failure does to the credentials.

## Runs

Passing runs set `CHECK_DEADLOCK FALSE`: in `ScannerManager` the join deadlock is a real behaviour (it has a run of its
own), in the others the bounded changes run out or a fault has ended the program, and the system rests.

| Run | Instance | Properties | Shows |
|---|---|---|---|
| `scanner_manager` | 2 units (one by serial, one by TCP), 1 device, 2 callers, 3 workers, 2 lines a read, counts to 2 | `TypeOK`, `NotScanningMeansQuiet`, `OnePortUser`, `NoEventForUnboundUnit`, `CountsMatchEvents`, `TapFollowsWorker`, `JoinReturnsOrDeadlocks`, `ImplementsScanSession` | stops, restarts, link losses and unbinds in every order keep one thread a port and the promise of `ScanSession`; a join that does not return is the deadlock and nothing else |
| `scanner_stop_deadlock` (violation) | the same | `NoJoinDeadlock` | a stop that meets an advertisement in the handler never returns, nor does any later call |
| `inventory` | 1 serial port, 1 adapter, 3 threads, 3 device changes | `TypeOK`, `SettledAgree`, `AttachedIsServed` | registry, scanner binding and watcher agree at rest unless a thread was overtaken; whatever happened, reprobing serves what stays attached |
| `mdns_provider` | 2 services, 3 failed pings, 5 network changes | `TypeOK`, `DepartedLeavesNothing`, `NeverOvertaken`, `SilentIsGone`, `AnsweringIsPresent` | the ping mutex keeps the two threads off one another's candidate; silent hosts go, answering ones come back |
| `mdns_not_reprobed` (violation) | the same, 2 changes | `AnsweringAgentIsServed` | an agent whose single probe came too early is never served |
| `auracast_sink` | 1 broadcaster with 2 changes, 2 commands, 1 timer expiry or button, queue of 1 | `TypeOK`, `ModeIsAcknowledged`, `PendingIsWatched`, `ActiveIsHeard`, `CommandIsAnswered` | mode, pending syncs and the audio system stay consistent across four threads, callbacks and work items |
| `monitor_deaf` (violation) | the same, no timer or button | `MonitorScans` | `set_mode monitor` while monitoring is answered with success and leaves the device not scanning |
| `scan_not_restarted` (violation) | 1 change | `TimeoutRestartsScan` | a command during a pending sync makes the timer's work stop the new scan and start none |
| `gateway` | 2 headsets of one set (one stereo with 3 sink endpoints of which 2 are kept, one mono), 2 connections, 2 messages, disturbances that weigh 6 in all | `TypeOK`, `StoreMirrorsLinks`, `ProceduresExclusive`, `GroupHoldsWhatRuns`, `AudioFollowsStreams`, `MissingIsSought` | finding, pairing, discovery, start and stop of both headsets in every order leave store, group, procedures, scan and application consistent, also when links, procedures, waits or single streams end early |
| `group_not_recreated` (violation) | the same, the mono headset with a microphone, nothing disturbed | `NewGroupFollows` | a refused start asks for releases that do not come, and no new group is made |
| `firmware` | per part: 1 sink and 1 source; 2 received packets; a FIFO of 8 blocks, 2 a frame, 2 delays; 2 peers; 2 streams of 2 buffers; 3 gateways for 2 slots; 2 plays of 3 frames, a ring of 1; 2 LC3 streams of 2 frames; 1 queued line, 2 taps; 2 networks, 2 retries, 2 events, 2 chunks | `TypeOK`, `QuietWithoutStreams`, `RxQueueNeverRefuses`, `MergedFramesPlayRight`, `AltBuffersSuffice`, `InTimeWhenLocked`, `FoundWhenAlone`, `CountsTheBuffers`, `SourceStateFollows`, `SlotsMirrorPlayers`, `PlaysTheFileInOrder`, `FramesAreGivenInOrder`, `LinksHold` | each part keeps its promises however callbacks, interrupts, threads and power failures interleave |
| `headset_runs_on` (violation) | `Headset` as above | `HeadsetRunsOn` | a source configured while the sink streams makes the stop of the sink end the program |

**Bounds.** Two units are needed because the mutex is shared: the second one shows what a join does to calls for
others. Three workers are one more than the units, so a new thread can be started before an old identity is reused.
Two lines a read make a worker re-enter its handler, which is what a stop can meet; counts to 2 tell "once" from
"again". Three changes in `Inventory` are plug, unplug, plug again; five in `MdnsProvider` let two services each
come, go and come back, with a host or agent change. In `AuracastSink` two changes are come and go (or come and
reconfigure), and two commands one after the other meet each of them; a timer expiry and a press at the same time (6.7 million states) and three
changes (5.1 million) were checked for the invariants as well and are not kept, for their length.

In `Gateway` two headsets are the least that share a group and a set, and as many as there are connections, so that a slot is
used again by the other one. What disturbs a behaviour is bounded by a sum of weights, `MaxDisturbances`: a press of the button and a
start by the button that does not get the lock count 2, a stream the peer ends 3, everything else that fails (a connection, a link, a discovery
of the set, a start, a wait of the worker or after a procedure) 4. With 6 a behaviour has one failure and a press, or two streams ended by
the peer, or two presses and a start by the button that runs out of time. One press makes a stop during anything, the second a start after it. Two mono headsets, one with a
microphone (both directions), were checked without the peer's endings and the waits that run out. Missing from the kept instance are two failures of the
heavy kind in one behaviour.

The exceptions in its properties are what the code does: `ProceduresExclusive` says that only a start that ran out of time keeps the
semaphore and that no procedure follows it; `AudioFollowsStreams` says that the application is in the streaming state only while a stream
runs, and is in it when a first channel runs (a later channel alone is not counted, see below); `MissingIsSought` leaves out the time
in which a connected headset's set has not been found out.

In `Firmware` each bound is the least at which the case happens: three gateways for two slots make the table full, a ring
of one frame and a queue of one line are full after one step, two places of the receive queue are where its handler drops and puts
twice, two streams with two buffers each let one stream lag behind. Two retries run out while another event waits. The FIFO of
eight blocks has room for the larger delay twice, as the code's configuration has (`AudioDatapathAssumption`); the code's is larger, which
adds distance and no other case but the one `InStep` excepts. A frame is of two blocks at least (the code's of 7 or 10), so that
it is handled before the next is due. `FifoBlks`, `DataPts` and the ages bound a counter each; `PlayCommand` stops after `Plays`.

**Fairness.** Weak fairness for each thread's steps and for the work queue: the operating systems schedule their
threads, and the I/O a step stands for ends in a timeout (serial and TCP opens and reads, pings, connects; Zephyr's
host commands). `Reprobe` is fair because the scheduler's sleep ends; `StartScheduler` because `main` runs on. Nothing
is assumed of clients, hosts, the network, the broadcaster, the timer, buttons or commands: they may stop for ever.
`Gateway` and `Firmware` state no fairness and no liveness: what must come about there is said of the states in which nothing
is under way (`Idle`, an idle work queue, handled messages), which a step that is merely late does not falsify.

## Proofs

`ScannerManagerProofs` proves the run's safety properties for every number of units, callers, workers, devices, and
every bound, from `ScannerAssumption` (there is a unit, the serial ones are units, `NoWorker` is no worker, bounds are
naturals) and `FreeAssumption` (the free mutex is no join).

The properties are not inductive. That a lowered flag means no live thread depends on which thread belongs to
which scanner; that a port has one user depends on that and on where each thread is. The inductive invariant `IInv`
adds to `TypeOK` and the properties themselves:

- `ThreadsOwned`: each thread is the `worker_` of the scanner that started it, and that scanner is bound;
- `FlagHasThread`: a raised flag has a live thread, and the unit a join is about is bound with its flag down;
- `PortFollowsThread`: the transport is open exactly between `open()` and `close()` of a thread;
- `TapFollowsThread`: a tap that is on is stray or behind an open, unbroken transport past the enabling write, and
  behind such a transport it is on.

The first group (`Struct`) is preserved by itself, shown call by call (`StructCalls`, `StructJoins`,
`StructWorker`); the counts (`CountNext`) rest on it, because an event in flight must belong to the only thread of its
unit. From `Invariance` follow `Quiet`, `PortExclusive`, `EventsOfBoundUnits`, `Counts` and `Taps`. `Refinement` shows
every step maps to a step or stutter of `ScanSession`, with the phase of a unit computed from its binding, its
thread and its flag (`Session`).

`MdnsProviderProofs` proves the two safety properties of `MdnsProvider` and its `TypeOK` for any number of services and
network changes, from `MdnsAssumption` (two threads, a free mutex that is neither, at least one failure before a host is
gone). The inductive invariant has two layers:

- `Apart` keeps the two threads from one service, although the monitor's thread calls the registry without `ping_mutex_`:
  the ping thread's calls are about targets (`PingIsAboutTargets`, under the mutex it holds from the decision to the last
  call, `PingHolds`), the monitor's are about services that are not targets yet or no longer (`MonitorIsAboutOthers`), and
  only what the monitor announced is a target (`TargetsAreTold`). `NeverOvertaken` follows.
- On that rest `AnnouncedIsThere` (a scanner is bound only for a unit that exists), `RemovedIsTold` (what a removed unit leaves
  goes with an event on its way) and `DepartedIsGone`; together they give `DepartedLeavesNothing` (theorem `NothingIsLeft`).

`todo` is argued about as the set of its calls (`Entries`); `CallKeepsApart` shows once what every call of the registry keeps.

`FirmwareProofs` proves `LinksHold` (theorem `LinksCoherent`) and `SlotsMirrorPlayers` (theorem `PlayersMirrored`) as
invariants of `Firmware`, for every value of its constants, from the assumptions of `BoardLinks` (the queue's depth is a natural),
`Esp32Bridge` (so are retries, events and chunks) and `MediaControl` (there is a slot; no gateway is `NoConn`). Three strengthenings:

- `BoardLinksInv`. That a line on the wire is of a writer still in `esp_write` needs `OneWriter` (the mutex; and, until a
  completion was late, a drained semaphore means a resting driver and a given one a finished line). That the two receive
  buffers are the marked ones needs `AsksWithoutNext`. That the last command takes effect needs `SameCommand`: the verb the
  thread holds is the present line's unless another came. The variables of the four concerns (transmit, receive, line, wire)
  are disjoint, so each action is shown to keep its own part and to leave the others alone (`Parts`).
- `Esp32Inv`. That the joined network is the stored one needs `AttemptIsStored` (already an attempt is about it) and
  `PostsWhileOpen` (no form is being handled outside the portal: `httpd_stop` waits); that a client is sent nothing old
  is inductive with the type.
- `MediaInv`. The table read slot by slot (`SlotTrue`), no gateway twice (`OneSlotEach`), and `DiscoveryHasSlot`: without
  it a gateway whose discovery is under way could be given a second, free slot that says `IDLE`.

`FirmwareProofs` proves four more, from the assumptions of `Advertising`, `AudioRx` and `SdPlayback` (sizes are positive):

- `FoundWhenAlone` (theorem `FoundAgain`). Nothing is lost because there is one turn (`OneTurn`): an index in the queue, or
  the work item at it, or the set that is on, or the link it has led to; every action moves it on.
- `RxQueueNeverRefuses` (theorem `QueueTakesAll`). `BuffersSuffice`: the frames in the queue, in decoding and in assembly
  never hold more buffers than the queue has places, also across the frame that is thrown away to make room.
- `AltBuffersSuffice` (`AltBuffersAreEnough`). The interrupt gives the buffer it reports back before it takes the next, so that one
  of the two is free whichever is still to be played.
- `PlaysTheFileInOrder` (theorem `FilePlaysInOrder`). `RingInOrder` (only frames of the file that plays, ascending),
  `MixedIsBefore` (the one mixed last precedes all of them) and `FilesAscend` (a file asked for is never the one that plays,
  so the emptied ring starts a new order). `Passed` keeps the frame that was read and not yet put out of both.

`InventoryProofs` proves `TypeOK` and `SettledAgree` (theorem `SettledUnitsAgree`) for any number of devices and changes, from
`InventoryAssumption` (a computer has finitely many devices). `AgreeOn` is what holds of a candidate at any time while nobody
is overtaken: who is probed or has a unit is present, the events on their way are of the unit as it is, and a subscriber for which
no event is on its way knows whether there is one. It needs `CallOrder`, the shape of a thread's calls: an event's deliveries, a
submission or a monitor's call come first, then the probes of a listing. With it, a thread that is alone with a candidate when
it submits it or marks it gone leaves nothing about it on its way (`NoEventsAlone`), so that its own events are the last word.

`AuracastSinkProofs` proves all four safety properties of `AuracastSink`, from `SinkAssumption` and `ThreadsAssumption` (four
different threads; bounds are naturals).

- `TypeOK` is inductive with `StreamInv`: the counter of streams is zero unless the stream is up, so it never passes one.
- `ModeIsAcknowledged` with `ModeInv`: a call of mode control past its lock holds `mode_mutex`, has a mode of its own by then, and
  for every thread but the one that acknowledges it is the current one, so that applying it again changes nothing.
- `PendingIsWatched` is inductive as it stands: every step that stops the timer or ends the work ends the sync with it.
- `ActiveIsHeard` with `HeardInv`: the application plays already, or the message that makes it is queued with nothing after it that changes that.

`AudioProofs` proves six properties of `Firmware`'s parts and the types of all ten, from their assumptions on sizes:

- `FramesAreGivenInOrder` (`FilesPlayInOrder`). `SlotInv` says of a slot, its work item and the last frame given that at most one
  frame lies ready, that only without one the next is loaded, and that either is the successor; slots closed while their work ran are
  excepted, as the property excepts them.
- `QuietWithoutStreams` (`QuietHolds`). `QuietComes`: when no stream runs, the application is paused, being paused, or a message
  that pauses it is queued with no start after it; `PathFollows` ties datapath and codecs to that.
- `MergedFramesPlayRight` (`MergedFramesAreRight`). `FreshInv`: a frame that waits for another location's SDU was begun with
  both streams configured, and since an SDU of the interval has come neither is configured or released.
- `SourceStateFollows` (`SourceFollowsGroup`). `GroupFollows`: the group's streams start and stop together, and the last event queued
  says what they did last, although it is the first stream that is asked.
- `CountsTheBuffers` (`BuffersAreCounted`). `Holds`: a stream that is up has as many buffers as it counts, and one that is down has
  none; that a count may be stale until the next start does no harm, since nothing is sent before it. A stream that holds less than
  its share leaves the pool a buffer: the sum over the streams is a recursive function, shown to exist and to be bounded by a least
  counterexample on the sets of streams (`SumUnfolds`, `SumIsBounded`).
- `InTimeWhenLocked` (`PlaysInTime`). `Steady`: from an even start of a measurement until something disturbs the FIFO, the ages of
  the blocks in it fall by one from block to block, and the frame at hand follows the last of them; the measured delay is then the same every
  time, and the mean of `DataPts` equal errors is no block only if they are nothing (`MeanOfEqual`). `FramesHandled` says in
  which block of its interval a frame is handled, and with it that one frame's blocks end where the next one's begin. The start must be
  even (`InStep`). When the drift compensation locks, a measurement begins at once, without the `WAIT` that lets a FIFO's blocks pass; if a
  frame was missing just before, the blocks on either side of the gap differ, their errors may cancel, and the code locks on a delay that
  is wrong (12 blocks, 2 a frame, delay 6: errors of -1 and +1). That is what `dp_off` excepts; no doc or test of the
  repository says otherwise, and the 8 blocks of the run have no room for it.
  It also excepts the time after a frame was discarded, whose blocks are missing from the FIFO while the measurement saw them come.
- `TypeOK` (`FirmwareTypeCorrect`). The invariants above hold most of it; `PartsRest` has what is left, and for the datapath
  `DatapathInv`: its counter is bounded by what it counts in each state, a mean error moves the producer by half of the FIFO at most
  (`AdjustedBlocks`), and so every index stays in the FIFO and every age in its range.

`GatewayProofs` proves `ProceduresExclusive` (`OneProcedureAtATime`) and `StoreMirrorsLinks` (`StoreIsTheStacks`) for any number
of headsets, entries, endpoints and connections, from the assumptions of `ServerStore` (finitely many addresses), `UnicastClient` and
`Gateway` (no more bonds than entries: `server_store.c:45` makes `MAX_SERVERS` the sum of connections and bonds). One invariant,
`GatewayInv`, does for both: the semaphore is taken exactly while a procedure runs, or for good once a start has kept it (`Exclusive`), the store has one entry for each
bonded headset and no other (`StoreOf`), a connection is to one headset (`Links`), and entries and secured connections mirror each
other (`Mirrors`). Most of the client's operators change neither entries nor procedures (`Kept`); the others are taken one by
one. That there is an entry for a headset that bonds is a pigeonhole argument (`RoomIsLeft`), and the recursive
function `Filled`, which fills the store at startup, is shown to exist and to give every bonded headset its entry by a least
counterexample on the number of headsets left (`FilledUnfolds`, `FilledRight`).

`GatewayAudioProofs` proves `AudioFollowsStreams` (theorem `ApplicationFollowsStreams`) and the types of `Gateway` as a whole
(`GatewayTypeCorrect`), with `GatewayInv` and the same assumptions. The difficulty of the first is that only `stream_stopped_cb` tells the application of
an end, and that the count which decides whether the last stream has stopped leaves out headsets whose entry has lost its connection
and, in each direction, what follows the first stream without an endpoint. The invariant is `AudioInv`: `GatewayInv` and `Heard`, which is
`StoreRight` (the store's table is within its bounds) and `Sound`:

- `Told`: if no stream runs, the application is paused or will be when it has read its messages (`Pausing`); and if that is so, a first
  channel that still runs belongs to a headset whose link closes (`Down`). The first channel of a linked headset is always counted, because
  nothing precedes it, so that a count of nothing leaves none of them running.
- `StreamLinked`: a stream that has an endpoint, or is about to get one, is of a headset whose link has not been freed, so that what
  `Down` excepts ends before the link is used again.
- `Unbegun`: a start has yet to begin none of the streams that run, so that a stream it configures is not one that plays.

`Reach` and `Secured` take from `GatewayInv` what the streams need of store and links. Most operators of the client are `Quiet`: they
disturb nothing of this.

For the types, `Waits` (the semaphore is 0 or 1, the queue within its capacity) is carried through every path of the procedures,
and `AppTypes` holds what the scan and the button add.

Only model-checked:

- the liveness properties: fairness and `ENABLED` are beyond the prover's backends;
- `GroupHoldsWhatRuns` and `MissingIsSought` of `Gateway`, which are promises of the checked instance and not of every one: a third headset of the set that is lost while a start is under way leaves a stream outside the
  group, and when there are more headsets than connections a missing one waits for a slot.

## Findings

1. `scanner_manager.cpp:163` and `:76`: joining under the mutex the handler takes (run `scanner_stop_deadlock`).
2. `probe_scheduler.cpp:74`: an mDNS agent is probed once, though the state diagram has it reprobed (`mdns_not_reprobed`).
3. `auracle_mode.c:94`: `-EALREADY` taken as success after the scan was stopped (`monitor_deaf`).
4. `bt_mgmt_scan_for_broadcast.c:66`: the timeout's work stops a scan it cannot restart (`scan_not_restarted`).
5. `unicast_client.c:459`: the group is given up although nothing will be released (`group_not_recreated`).
6. `audio_system.c:551`: the codec is uninitialized with another configuration than it was initialized with (`headset_runs_on`).

Disagreements that have no run of their own, because what is left of the properties is checked and proved with them as exceptions:

- `docs/features/005-wire-protocol.md:101-107` says that on USB connect all taps are off. `wire.c` changes a tap only on `tap_enable` and
  `tap_disable` (`wire.c:255-268`), and the daemon ignores a `tap_disable` that fails (`remote_wire_scanner.cpp:775`): after a lost link
  the next one to connect finds the tap on. `TapFollowsWorker` excepts it (`stray`).
- `unicast_client.c:1065` means to check "if the other streams are streaming". The count ends at a headset's first stream without an endpoint
  (`server_store.c:1005`), so that the application is told that nothing plays while a second channel does, when the headset has released
  its first one.
- `unicast_client.c:1530` returns from a start with the semaphore taken when the store's lock is not had in time; every later
  start and stop is queued ("Ongoing procedure, try again later", `:1503`) and none is ever run.
- `unicast_client.c:1209` answers a failed discovery of the set with a set of size 0, after which `main.c:356` does not resume the
  scan: the other member is not looked for until some link ends.
- `audio_datapath.c:1022-1042` discards a frame after the compensation has taken note of it (`:1000`). While locked, it
  does not notice the shift: the delay stays off by a frame until one is missing.

## Plan

1. Done: `ScannerManager`, `ScanSession`, their proofs.
2. Done: `Registry` with `Inventory` and `MdnsProvider`, their proofs.
3. Done: `BroadcastSink` with `AuracastSink`, their proofs.
4. Done: `ServerStore`, `UnicastClient`, `Gateway`; `Headset`, `Broadcaster`; the proofs of the store, the semaphore, the
   application and the types, of the headset and the source.
5. Done: `BoardLinks`, `Esp32Bridge`, their proofs.
6. `ScanBridge` (`scan_bridge.rs`, `useDevices.ts`) and `WatchStreams` (the two streaming RPCs), over `ScanSession`.
7. Done: `AudioRx`, `AudioDatapath`, `SdPlayback`, `Lc3Streamer`, `Advertising`, `MediaControl`, and the proofs
   named above.
8. The compliance expression language as functions against a reference definition, over short inputs.

## Not modelled

- Gateway: removal of a bond with its store entry, volume discovery, the sending of frames, the printing of capabilities.
  The callbacks' own waits for the store's lock end in time (the worker's and the starts' need not). The streams of a stop end in their
  order. A CIG is always number 0, as every caller passes, so that the range checks of start and stop never refuse. The iterators that
  `unicast_client.c:229` leaves uninitialized are taken as zero, and the array of a start (`:1520`) as large enough for its streams.
- Scanner: a board reads what it is sent. `write_all` (`remote_wire_scanner.cpp:80-90`) tries without end and without looking at the stop
  token, so that a worker whose board stops reading would keep a join waiting; `JoinReturnsOrDeadlocks` assumes there is none.
- Registry: the calls to the scanner manager end; that an unbind can meet the deadlock of the first finding is left to that run.
- Headset: configurations that are rejected (the link is then ended), the sending of the microphone's frames.
- Broadcast source: a second group. Broadcast sink: a second stream, the scan delegator (not compiled into the build).
- Audio receive queue: a configuration in the middle of an interval; it comes at the beginning of one.
- Audio datapath: references that are invalid and estimated (`audio_datapath.c:965-989`; those of received frames are taken as exact); a duplicate, which
  is dropped (`:939`), counts as a frame that is missing; the just-in-time check of the gateway and broadcast source, updates of the reference of a source, tones, samples.
- Advertising: failures to create or start a set in the work (`bt_mgmt_adv.c:264-287`), after which nothing is advertised until the next event.
- UART link: failures of `uart_rx_buf_rsp` and of the restart of the receiver (`esp_conn.c:216-220`, `:231-234`). The wire's two searches of a
  command's line for its verb (`wire.c:255`, `:262`) are one step. A transmit that timed out ends what is said of the buffers on the line.
- LC3 streamer: what is given out by a slot closed while its work ran.
- Volume and microphone control: calls to Zephyr's services without state of their own.
- ESP32: decoding of the form, the DNS redirect, status LEDs, `wifi_manager_start_provisioning` (nobody calls it), a
  write of the flash that is torn by a power failure, within a key (the flash library's promise) or between the network's name and its password
  (`wifi_manager.c:63-65`), which are stored in one step here.
- Daemon: leases, identities and capabilities as data, shutdown; the local Bluetooth scanner; the streaming RPCs (planned).
- Desktop: the scan bridge (planned); the user interface and the forwarding commands keep no state of their own.
- Not planned: command-line client, converters, file loaders, codec arithmetic, register access and board support,
  generated tables, and the ESP32 sources its build does not compile.
