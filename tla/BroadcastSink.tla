---------------------------- MODULE BroadcastSink ----------------------------
(***************************************************************************)
(* The Bluetooth host of the nRF5340 in its broadcast-sink build: scanning *)
(* for a broadcaster, the sync to its periodic advertising (PA), the sink  *)
(* object and its one stream, with the callbacks and work items that       *)
(* change them:                                                            *)
(*   bt_management/scanning/bt_mgmt_scan.c, bt_mgmt_scan_for_broadcast.c,  *)
(*   bt_stream/broadcast/broadcast_sink.c.                                 *)
(* Threads and mode control are in AuracastSink.                           *)
(*                                                                         *)
(* One broadcaster is within reach: sink mode searches for the broadcast   *)
(* id CONFIG_BT_AUDIO_BROADCAST_ID and monitor mode never syncs.  The      *)
(* build receives one stream (BT_AUDIO_CONCURRENT_RX_STREAMS_MAX is 1) and *)
(* has no scan delegator.  A PA sync object is one slot of a static pool,  *)
(* reused first, so a stale pointer to it reaches its next user.  Zephyr's *)
(* API and the controller are external.  Codec data, presentation delay    *)
(* and encryption are left out, and so is LE_AUDIO_EVT_CONFIG_RECEIVED,    *)
(* which carries nothing else.                                             *)
(***************************************************************************)
EXTENDS Naturals, Sequences

CONSTANTS MaxChanges, \* bound: how often the broadcaster and the radio act up
          MaxDisturbances, \* bound: expiries of pa_sync_timer and button presses
          MaxQueue    \* bound: messages on bt_mgmt_chan (the code's buffer pool is larger)

ASSUME SinkAssumption == MaxChanges \in Nat /\ MaxDisturbances \in Nat /\ MaxQueue \in Nat \ {0}

Modes == {"monitor", "sink"}

VARIABLES
    \* the air
    source,     \* "off", or the broadcaster's BASE is "good" or "bad" for this device
    changes,    \* how often something happened outside (bounded)
    \* auracle_mode.c
    mode,       \* current_mode, which scan_recv_cb asks before it syncs
    \* bt_mgmt_scan_for_broadcast.c
    scanning,   \* the application's scan runs in the controller
    scanCb,     \* scan_cb_registered
    paSync,     \* the sync the controller has: "none", "pending", "synced"
    timer,      \* pa_sync_timer is running
    disturbances, \* how often it expired or a button was pressed (bounded)
    restartQ,   \* scan_restart_work is submitted
    work,       \* the system work queue's next step in scan_restart_worker, or "idle"
    syncedCb,   \* the Bluetooth thread is inside pa_synced_cb
    mgmtQ,      \* bt_mgmt_chan, messages not yet taken by its subscriber
    \* broadcast_sink.c
    sink,       \* broadcast_sink # NULL
    fed,        \* the sink object is attached to the PA sync
    stored,     \* pa_sync_stored # NULL
    bits,       \* bis_index_bitfield # 0
    init,       \* init_routine_completed
    paused,     \* paused
    stream,     \* state of the stream: "idle", "establishing", "streaming"
    count,      \* sync_stream_cnt
    cleanupQ,   \* bis_cleanup_work is submitted
    audioQ      \* le_audio_chan, messages not yet taken by its subscriber

airVars == <<source, changes, mode>>
scanVars == <<scanning, scanCb, timer, restartQ, work, syncedCb>>
streamVars == <<stream, count, cleanupQ, audioQ>>
sinkVars == <<sink, bits, init, paused>>
syncVars == <<paSync, fed>>
hostVars == <<disturbances, airVars, scanVars, syncVars, mgmtQ, stored, sinkVars, streamVars>>

InitHost ==
    /\ source = "off" /\ changes = 0 /\ disturbances = 0 /\ mode = "monitor"
    /\ scanning = FALSE /\ scanCb = FALSE /\ timer = FALSE
    /\ restartQ = FALSE /\ work = "idle" /\ syncedCb = FALSE
    /\ paSync = "none" /\ fed = FALSE /\ stored = FALSE /\ mgmtQ = <<>>
    /\ sink = FALSE /\ bits = FALSE /\ init = FALSE /\ paused = FALSE
    /\ stream = "idle" /\ count = 0 /\ cleanupQ = FALSE /\ audioQ = <<>>

-----------------------------------------------------------------------------
(* What the code calls from several places.                                *)

\* bt_le_per_adv_sync_delete: a sync is terminated, a pending one cancelled.  The
\* term callback of the former reports LOCALHOST_TERM, which nobody acts on.
DeletePaSync ==
    /\ paSync' = "none"
    /\ fed' = (fed /\ paSync # "synced")

\* Mutant: the counter is left as it is.
StoppedUncounted(reason) ==
    /\ stream' = "idle"
    /\ count' = count
    /\ audioQ' = IF reason = "mic_fail" THEN audioQ
                 ELSE Append(audioQ, [event |-> IF reason = "lost" THEN "sync_lost" ELSE "not_streaming",
                                      paSync |-> stored])
    /\ stored' = (stored /\ reason # "lost")
    /\ cleanupQ' = (cleanupQ \/ reason = "lost")

\* stream_stopped_cb.  A stop that finds the counter at zero says nothing.
Stopped(reason) ==
    /\ stream' = "idle"
    /\ count' = 0
    /\ audioQ' = IF count = 0 \/ reason = "mic_fail" THEN audioQ
                 ELSE Append(audioQ, IF reason = "lost" THEN [event |-> "sync_lost", paSync |-> stored]
                                     ELSE [event |-> "not_streaming", paSync |-> FALSE])
    /\ stored' = (stored /\ ~(count > 0 /\ reason = "lost"))
    /\ cleanupQ' = (cleanupQ \/ (count > 0 /\ reason = "lost"))

\* bt_bap_broadcast_sink_stop, for the streams is_any_active_streams looks at;
\* the stopped callback runs in the caller's thread.
StopStreams ==
    IF stream = "streaming" THEN Stopped("localhost")
    ELSE UNCHANGED <<streamVars, stored>>

\* broadcast_sink_cleanup: the object cannot be deleted while its stream is up or
\* coming up, but the initialization counts as undone all the same.
Deletable == stream = "idle"
Cleanup ==
    /\ init' = FALSE
    /\ sink' = (sink /\ ~Deletable)

-----------------------------------------------------------------------------
(* Callbacks of the Bluetooth thread.                                      *)

Callback == ~syncedCb

\* scan_recv_cb and periodic_adv_sync, for an advertisement of the broadcaster.
\* The timer starts whether or not a sync can be created: with one pending or up
\* already the call fails, and the failure path deletes that one.
Found ==
    /\ Callback
    /\ scanning /\ scanCb /\ source # "off"
    /\ mode = "sink"
    /\ scanCb' = FALSE
    /\ timer' = TRUE
    /\ IF paSync = "none" THEN paSync' = "pending" /\ UNCHANGED fed ELSE DeletePaSync
    /\ UNCHANGED <<disturbances, airVars, scanning, restartQ, work, syncedCb, mgmtQ, stored, sinkVars, streamVars>>

\* pa_synced_cb up to its first call that blocks.
Synced ==
    /\ Callback
    /\ paSync = "pending" /\ source # "off"
    /\ paSync' = "synced"
    /\ timer' = FALSE
    /\ syncedCb' = TRUE
    /\ UNCHANGED <<disturbances, airVars, scanning, scanCb, restartQ, work, fed, mgmtQ, stored, sinkVars, streamVars>>

\* The rest of it: bt_le_scan_stop, BT_MGMT_PA_SYNCED.
SyncedTold ==
    /\ syncedCb /\ Len(mgmtQ) < MaxQueue
    /\ syncedCb' = FALSE
    /\ scanning' = FALSE
    /\ mgmtQ' = Append(mgmtQ, "pa_synced")
    /\ UNCHANGED <<disturbances, airVars, scanCb, timer, restartQ, work, syncVars, stored, sinkVars, streamVars>>

\* pa_sync_terminated_cb: the sync is lost, or a pending one is not established.
PaLost ==
    /\ Callback
    /\ paSync # "none" /\ source = "off" /\ Len(mgmtQ) < MaxQueue
    /\ DeletePaSync
    /\ mgmtQ' = Append(mgmtQ, "pa_sync_lost")
    /\ UNCHANGED <<disturbances, airVars, scanVars, stored, sinkVars, streamVars>>

\* base_recv_cb: only BASEs that come before the stream sync count, and each of
\* them resets the counter.  One that does not fit is reported (once at a time).
Received == Callback /\ sink /\ fed /\ paSync = "synced" /\ source # "off"
NoValidCfg == [event |-> "no_valid_cfg", paSync |-> FALSE]
BaseReceived ==
    /\ Received /\ ~init
    /\ count' = 0
    /\ IF source = "good" THEN bits' = TRUE /\ UNCHANGED audioQ
       ELSE /\ \A i \in DOMAIN audioQ : audioQ[i] # NoValidCfg
            /\ audioQ' = Append(audioQ, NoValidCfg)
            /\ UNCHANGED bits
    /\ UNCHANGED <<disturbances, airVars, scanVars, syncVars, mgmtQ, stored, sink, init, paused, stream, cleanupQ>>

\* syncable_cb, for the BIGInfo reports of a stream that is not up.
Syncable ==
    /\ Received /\ stream = "idle"
    /\ ~paused /\ bits
    /\ stream' = "establishing"
    /\ init' = TRUE
    /\ UNCHANGED <<disturbances, airVars, scanVars, syncVars, mgmtQ, stored, sink, bits, paused, count, cleanupQ, audioQ>>

\* stream_started_cb.
Started ==
    /\ Callback /\ stream = "establishing" /\ source # "off"
    /\ stream' = "streaming"
    /\ count' = count + 1
    /\ audioQ' = Append(audioQ, [event |-> "streaming", paSync |-> FALSE])
    /\ UNCHANGED <<disturbances, airVars, scanVars, syncVars, mgmtQ, stored, sinkVars, cleanupQ>>

\* stream_stopped_cb, for a stream the radio loses (or never gets).
StreamLost ==
    /\ Callback /\ stream # "idle" /\ source = "off"
    /\ Stopped("lost")
    /\ UNCHANGED <<disturbances, airVars, scanVars, syncVars, mgmtQ, sinkVars>>

\* stream_stopped_cb, for a stream the broadcaster ends or whose key is wrong.
StreamEnds ==
    /\ Callback /\ stream = "streaming" /\ changes < MaxChanges
    /\ changes' = changes + 1
    /\ \E reason \in {"remote", "mic_fail"} : Stopped(reason)
    /\ UNCHANGED <<disturbances, source, mode, scanVars, syncVars, mgmtQ, sinkVars>>

-----------------------------------------------------------------------------
(* The timer and the system work queue.                                    *)

\* pa_sync_timeout.
TimerFires ==
    /\ timer /\ disturbances < MaxDisturbances
    /\ disturbances' = disturbances + 1
    /\ timer' = FALSE
    /\ restartQ' = TRUE
    /\ UNCHANGED <<airVars, scanning, scanCb, work, syncedCb, syncVars, mgmtQ, stored, sinkVars, streamVars>>

\* scan_restart_worker: bt_le_scan_stop,
RestartStops ==
    /\ work = "idle" /\ restartQ
    /\ restartQ' = FALSE
    /\ scanning' = FALSE
    /\ work' = "delete"
    /\ UNCHANGED <<disturbances, airVars, scanCb, timer, syncedCb, syncVars, mgmtQ, stored, sinkVars, streamVars>>

\* Mutant: the pending sync is left to the next scan.
RestartDeletesNothing ==
    /\ work = "delete"
    /\ work' = "start"
    /\ UNCHANGED <<disturbances, airVars, scanning, scanCb, timer, restartQ, syncedCb, syncVars, mgmtQ, stored, sinkVars, streamVars>>

\* then the pending sync is deleted,
RestartDeletes ==
    /\ work = "delete"
    /\ DeletePaSync
    /\ work' = "start"
    /\ UNCHANGED <<disturbances, airVars, scanning, scanCb, timer, restartQ, syncedCb, mgmtQ, stored, sinkVars, streamVars>>

\* then bt_mgmt_scan_start with no name and no id, which is -EALREADY while the
\* callback is registered (the name it passes on is always the same buffer),
RestartRegisters ==
    /\ work = "start"
    /\ scanCb' = TRUE
    /\ work' = IF scanCb THEN "idle" ELSE "scan"
    /\ UNCHANGED <<disturbances, airVars, scanning, timer, restartQ, syncedCb, syncVars, mgmtQ, stored, sinkVars, streamVars>>

\* then bt_le_scan_start.
RestartScans ==
    /\ work = "scan"
    /\ scanning' = TRUE
    /\ work' = "idle"
    /\ UNCHANGED <<disturbances, airVars, scanCb, timer, restartQ, syncedCb, syncVars, mgmtQ, stored, sinkVars, streamVars>>

\* bis_cleanup_worker.
BisCleanup ==
    /\ work = "idle" /\ cleanupQ
    /\ cleanupQ' = FALSE
    /\ Cleanup
    /\ UNCHANGED <<disturbances, airVars, scanVars, syncVars, mgmtQ, stored, bits, paused, stream, count, audioQ>>

-----------------------------------------------------------------------------
\* The broadcaster comes, changes its configuration or goes.
SourceChanges ==
    /\ changes < MaxChanges
    /\ changes' = changes + 1
    /\ source' \in {"off", "good", "bad"} \ {source}
    /\ UNCHANGED <<disturbances, mode, scanVars, syncVars, mgmtQ, stored, sinkVars, streamVars>>

BluetoothThread ==
    \/ Found \/ Synced \/ SyncedTold \/ PaLost
    \/ BaseReceived \/ Syncable \/ Started \/ StreamLost

WorkQueue == RestartStops \/ RestartDeletes \/ RestartRegisters \/ RestartScans \/ BisCleanup

HostNext == SourceChanges \/ StreamEnds \/ TimerFires \/ BluetoothThread \/ WorkQueue

HostTypeOK ==
    /\ source \in {"off", "good", "bad"} /\ changes \in 0..MaxChanges /\ disturbances \in 0..MaxDisturbances
    /\ mode \in Modes
    /\ {scanning, scanCb, timer, restartQ, syncedCb, sink, fed, stored, bits, init, paused, cleanupQ}
           \subseteq BOOLEAN
    /\ paSync \in {"none", "pending", "synced"}
    /\ work \in {"idle", "delete", "start", "scan"}
    /\ mgmtQ \in Seq({"pa_synced", "pa_sync_lost"})
    /\ stream \in {"idle", "establishing", "streaming"}
    /\ count \in 0..1
    /\ audioQ \in Seq([event : {"streaming", "not_streaming", "sync_lost", "no_valid_cfg"},
                       paSync : BOOLEAN])
==============================================================================
