----------------------------- MODULE AuracastSink -----------------------------
(***************************************************************************)
(* The threads of the broadcast-sink build around BroadcastSink, and       *)
(* Auracle's mode control, which the desktop uses to switch the device     *)
(* between passive monitoring and playing a stream:                        *)
(*   rf5340 src/modules/auracle_mode.c, handle_set_mode of esp_conn.c,     *)
(*   broadcast_sink/main.c.                                                *)
(*                                                                         *)
(* Four threads call into the Bluetooth host: the receiver of the host's   *)
(* commands, the subscribers to le_audio_chan and bt_mgmt_chan, and the    *)
(* buttons' subscriber.  Only auracle_mode_set and auracle_mode_apply hold *)
(* mode_mutex; the buttons, the subscribers' other calls and BroadcastSink *)
(* do not know it.  Every call that waits for the controller ends a step.  *)
(***************************************************************************)
EXTENDS BroadcastSink

CONSTANTS Esp, Audio, Mgmt, Button, \* the four threads
          Nobody,                   \* mode_mutex when it is free
          MaxCommands               \* bound: how many set_mode commands come

Threads == {Esp, Audio, Mgmt, Button}

ASSUME ThreadsAssumption ==
    /\ \A t, u \in {1, 2, 3, 4} : t # u => <<Esp, Audio, Mgmt, Button>>[t] # <<Esp, Audio, Mgmt, Button>>[u]
    /\ Nobody \notin Threads
    /\ MaxCommands \in Nat

VARIABLES
    mutex,    \* the holder of mode_mutex, or Nobody
    step,     \* step[t]: where t is in the call it makes, or "idle"
    goal,     \* goal[t]: what the call is for
    strm,     \* strm_state, and with it the audio system: "paused", "streaming"
    acked,    \* the mode the last successful set_mode reported
    commands  \* set_mode commands so far (bounded)

threadVars == <<mutex, step, goal, strm, acked, commands>>
vars == <<hostVars, threadVars>>

\* Startup has reached the end of main: auracle_mode_apply is running, here
\* in the thread that takes the host's commands once it has returned.
Init ==
    /\ InitHost
    /\ acked = "monitor"
    /\ mutex = Nobody
    /\ step = [t \in Threads |-> IF t = Esp THEN "lock" ELSE "idle"]
    /\ goal = [t \in Threads |-> IF t = Esp THEN "apply" ELSE "none"]
    /\ strm = "paused"
    /\ commands = 0

Idle(t) == step[t] = "idle"
At(t, s) == step[t] = s
Go(t, s) == step' = [step EXCEPT ![t] = s]
Begin(t, s, g) == Go(t, s) /\ goal' = [goal EXCEPT ![t] = g]
Finish(t) == Begin(t, "idle", "none")

-----------------------------------------------------------------------------
(* auracle_mode_apply and auracle_mode_set, broadcast_sink_disable and     *)
(* bt_mgmt_scan_start.  goal[t] is "apply" for the current mode, a mode for *)
(* set_mode, "disable" for the sink alone, "alt" for button 5.             *)

Modal(t) == goal[t] \in Modes \cup {"apply"}

\* mode_mutex is taken, and the scan stopped.
LockStopsScan(t) ==
    /\ At(t, "lock") /\ mutex = Nobody
    /\ mutex' = t
    /\ goal' = [goal EXCEPT ![t] = IF @ = "apply" THEN mode ELSE @]
    /\ scanning' = FALSE
    /\ Go(t, "stop")
    /\ UNCHANGED <<disturbances, airVars, scanCb, timer, restartQ, work, syncedCb, syncVars, mgmtQ, stored,
                   sinkVars, streamVars, strm, acked, commands>>

\* broadcast_sink_disable: the streams are stopped,
DisableStops(t) ==
    /\ At(t, "stop")
    /\ StopStreams
    /\ Go(t, "delete")
    /\ UNCHANGED <<disturbances, airVars, scanVars, syncVars, mgmtQ, sinkVars,
                   mutex, goal, strm, acked, commands>>

\* then the PA sync is deleted (pa_sync_stored keeps pointing at it) and the sink
\* is cleaned up.  Button 5 gives up if that fails, mode control does not.
DisableDeletes(t) ==
    /\ At(t, "delete")
    /\ IF stored THEN DeletePaSync ELSE UNCHANGED syncVars
    /\ Cleanup
    /\ IF goal[t] = "disable" \/ (goal[t] = "alt" /\ ~Deletable) THEN Finish(t)
       ELSE Go(t, "start") /\ UNCHANGED goal
    /\ UNCHANGED <<disturbances, airVars, scanVars, mgmtQ, stored, bits, paused, streamVars,
                   mutex, strm, acked, commands>>

\* Mutant: the scan that needs no start returns without unlocking.
StartForgetsMutex(t) ==
    /\ At(t, "start")
    /\ scanCb' = TRUE
    /\ scanning' = (scanning /\ ~(scanCb /\ goal[t] = "sink"))
    /\ IF scanCb /\ goal[t] # "sink" THEN Finish(t) ELSE Go(t, "scan") /\ UNCHANGED goal
    /\ UNCHANGED <<disturbances, airVars, timer, restartQ, work, syncedCb, syncVars, mgmtQ, stored,
                   sinkVars, streamVars, mutex, strm, acked, commands>>

\* bt_mgmt_scan_for_broadcast_start.  With the callback registered and no id
\* given nothing is started: monitor mode and button 5 take that as success.
Start(t) ==
    /\ At(t, "start")
    /\ scanCb' = TRUE
    /\ scanning' = (scanning /\ ~(scanCb /\ goal[t] = "sink"))
    /\ Go(t, IF scanCb /\ goal[t] # "sink" THEN "done" ELSE "scan")
    /\ UNCHANGED <<disturbances, airVars, timer, restartQ, work, syncedCb, syncVars, mgmtQ, stored,
                   sinkVars, streamVars, mutex, goal, strm, acked, commands>>

StartScan(t) ==
    /\ At(t, "scan")
    /\ scanning' = TRUE
    /\ Go(t, "done")
    /\ UNCHANGED <<disturbances, airVars, scanCb, timer, restartQ, work, syncedCb, syncVars, mgmtQ, stored,
                   sinkVars, streamVars, mutex, goal, strm, acked, commands>>

\* The mode is set, the mutex released, a command answered.
Done(t) ==
    /\ At(t, "done")
    /\ IF Modal(t) THEN mode' = goal[t] /\ mutex' = Nobody ELSE UNCHANGED <<mode, mutex>>
    /\ acked' = IF t = Esp THEN mode' ELSE acked
    /\ Finish(t)
    /\ UNCHANGED <<disturbances, source, changes, scanVars, syncVars, mgmtQ, stored, sinkVars, streamVars,
                   strm, commands>>

-----------------------------------------------------------------------------
(* What makes the threads call.                                            *)

\* handle_set_mode.
SetMode(m) ==
    /\ Idle(Esp)
    /\ commands < MaxCommands
    /\ commands' = commands + 1
    /\ Begin(Esp, "lock", m)
    /\ UNCHANGED <<hostVars, mutex, strm, acked>>

\* Mutant: the thread reads what the channel holds last, not message by message.
AudioEventLatest ==
    /\ Idle(Audio) /\ audioQ # <<>>
    /\ strm' = IF Head(audioQ).event = "streaming" THEN "streaming" ELSE "paused"
    /\ audioQ' = <<>>
    /\ UNCHANGED syncVars
    /\ UNCHANGED <<step, goal>>
    /\ UNCHANGED <<disturbances, airVars, scanVars, mgmtQ, stored, sinkVars, stream, count, cleanupQ,
                   mutex, acked, commands>>

\* le_audio_msg_sub_thread takes a message.  A SYNC_LOST without a sync (the
\* second of two losses before the first is handled) makes it write to address 0.
AudioEvent ==
    /\ Idle(Audio) /\ audioQ # <<>>
    /\ LET msg == Head(audioQ)
       IN  /\ strm' = CASE msg.event = "streaming" -> "streaming"
                        [] msg.event \in {"not_streaming", "sync_lost"} -> "paused"
                        [] OTHER -> strm
           /\ IF msg.event = "sync_lost" /\ msg.paSync THEN DeletePaSync ELSE UNCHANGED syncVars
           /\ CASE msg.event = "sync_lost" -> Begin(Audio, IF msg.paSync THEN "lock" ELSE "fault", "apply")
                [] msg.event = "no_valid_cfg" -> Begin(Audio, "stop", "disable")
                [] OTHER -> UNCHANGED <<step, goal>>
    /\ audioQ' = Tail(audioQ)
    /\ UNCHANGED <<disturbances, airVars, scanVars, mgmtQ, stored, sinkVars, stream, count, cleanupQ,
                   mutex, acked, commands>>

\* Mutant: auracle_mode_apply reads the mode before it takes the mutex.
MgmtEventReadsMode ==
    /\ Idle(Mgmt) /\ mgmtQ # <<>>
    /\ IF Head(mgmtQ) = "pa_synced" THEN Begin(Mgmt, "set_stop", "set") ELSE Begin(Mgmt, "lock", mode)
    /\ mgmtQ' = Tail(mgmtQ)
    /\ UNCHANGED <<disturbances, airVars, scanVars, syncVars, stored, sinkVars, streamVars,
                   mutex, strm, acked, commands>>

\* bt_mgmt_msg_sub_thread takes a message.
MgmtEvent ==
    /\ Idle(Mgmt) /\ mgmtQ # <<>>
    /\ IF Head(mgmtQ) = "pa_synced" THEN Begin(Mgmt, "set_stop", "set") ELSE Begin(Mgmt, "lock", "apply")
    /\ mgmtQ' = Tail(mgmtQ)
    /\ UNCHANGED <<disturbances, airVars, scanVars, syncVars, stored, sinkVars, streamVars,
                   mutex, strm, acked, commands>>

\* broadcast_sink_pa_sync_set: a stream that is up is stopped,
PaSyncSetStops ==
    /\ At(Mgmt, "set_stop")
    /\ StopStreams
    /\ Go(Mgmt, "set_create")
    /\ UNCHANGED <<disturbances, airVars, scanVars, syncVars, mgmtQ, sinkVars, mutex, goal, strm, acked, commands>>

\* then the old object is deleted and a new one created for the PA sync.  The
\* pool holds one object: if the old one is still there, creation fails.
PaSyncSetCreates ==
    /\ At(Mgmt, "set_create")
    /\ init' = (init /\ ~sink)
    /\ sink' = TRUE
    /\ LET created == ~sink \/ Deletable
       IN  /\ fed' = (fed \/ created)
           /\ stored' = (stored \/ created)
    /\ Finish(Mgmt)
    /\ UNCHANGED <<disturbances, airVars, scanVars, paSync, mgmtQ, bits, paused, streamVars,
                   mutex, strm, acked, commands>>

\* The play/pause button: broadcast_sink_stop or broadcast_sink_start.
PlayPause ==
    /\ Idle(Button) /\ disturbances < MaxDisturbances
    /\ disturbances' = disturbances + 1
    /\ IF strm = "streaming" THEN
           IF ~paused /\ stream = "streaming" THEN paused' = TRUE /\ StopStreams
           ELSE UNCHANGED <<paused, streamVars, stored>>
       ELSE paused' = FALSE /\ UNCHANGED <<streamVars, stored>>
    /\ UNCHANGED <<airVars, scanVars, syncVars, mgmtQ, sink, bits, init, threadVars>>

\* Button 5: broadcast_sink_disable, then bt_mgmt_scan_start for the other name.
Button5 ==
    /\ Idle(Button) /\ disturbances < MaxDisturbances
    /\ disturbances' = disturbances + 1
    /\ Begin(Button, "stop", "alt")
    /\ UNCHANGED <<airVars, scanVars, syncVars, mgmtQ, stored, sinkVars, streamVars,
                   mutex, strm, acked, commands>>

-----------------------------------------------------------------------------
CallStep(t) ==
    \/ LockStopsScan(t) \/ DisableStops(t) \/ DisableDeletes(t)
    \/ Start(t) \/ StartScan(t) \/ Done(t)

MgmtStep == MgmtEvent \/ PaSyncSetStops \/ PaSyncSetCreates

Next ==
    \/ HostNext /\ UNCHANGED threadVars
    \/ \E t \in Threads : CallStep(t)
    \/ \E m \in Modes : SetMode(m)
    \/ AudioEvent \/ MgmtStep
    \/ PlayPause \/ Button5

\* Zephyr schedules every thread and the work queue; the broadcaster need not do
\* anything, the timer need not expire, commands and buttons need not come.
Fairness ==
    /\ \A t \in Threads : WF_vars(CallStep(t))
    /\ WF_vars(AudioEvent)
    /\ WF_vars(MgmtStep)
    /\ WF_vars(WorkQueue /\ UNCHANGED threadVars)
    /\ WF_vars(SyncedTold /\ UNCHANGED threadVars)

Spec == Init /\ [][Next]_vars
FairSpec == Spec /\ Fairness

-----------------------------------------------------------------------------
TypeOK ==
    /\ HostTypeOK
    /\ acked \in Modes
    /\ mutex \in Threads \cup {Nobody}
    /\ step \in [Threads -> {"idle", "lock", "stop", "delete", "start", "scan", "done",
                             "set_stop", "set_create", "fault"}]
    /\ goal \in [Threads -> Modes \cup {"none", "apply", "disable", "alt", "set"}]
    /\ strm \in {"paused", "streaming"}
    /\ commands \in 0..MaxCommands

Settled ==
    /\ \A t \in Threads : Idle(t)
    /\ audioQ = <<>> /\ mgmtQ = <<>>
    /\ work = "idle" /\ ~restartQ /\ ~cleanupQ /\ ~syncedCb

\* The mode the device works in is the one it last told the host, although two
\* other threads apply the current mode again whenever a sync or stream is lost.
ModeIsAcknowledged == Settled => mode = acked

\* A sync that is pending never stays so: the timer is running for it, or the work
\* that deletes it is due, however scans, commands and failed syncs overlap.
PendingIsWatched == paSync = "pending" => timer \/ restartQ \/ work = "delete"

\* Whoever stopped what in between, a stream that is up is played: the audio system
\* runs once the messages are handled.
ActiveIsHeard == Settled /\ stream = "streaming" => strm = "streaming"

\* A set_mode command is answered.
CommandIsAnswered == ~Idle(Esp) ~> Idle(Esp)

\* auracle_mode.h:5 has the desktop switch the device between passive monitoring
\* and playing: in monitor mode the device scans, which is all it does there.
MonitorScans == Settled /\ mode = "monitor" => scanning

\* pa_sync_timeout announces "restarting scanning": its work ends with a scan.
TimeoutRestartsScan == work = "start" ~> scanning \/ paSync # "none"
==============================================================================
