-------------------------- MODULE AuracastSinkProofs --------------------------
(***************************************************************************)
(* Proofs about the broadcast-sink build (AuracastSink), for every number  *)
(* of changes, disturbances and commands and every length of bt_mgmt_chan: *)
(* its types, the timer that watches a pending sync, the stream that is up *)
(* and heard, and the mode that was acknowledged.                          *)
(***************************************************************************)
EXTENDS AuracastSink, SequenceTheorems, TLAPS

-----------------------------------------------------------------------------
(* The invariant of the host's variables, in the groups its actions leave  *)
(* alone.                                                                  *)

AudioMsg == [event : {"streaming", "not_streaming", "sync_lost", "no_valid_cfg"}, paSync : BOOLEAN]
MgmtMsg == {"pa_synced", "pa_sync_lost"}

AirInv == source \in {"off", "good", "bad"} /\ changes \in 0..MaxChanges /\ mode \in Modes
DisturbancesInv == disturbances \in 0..MaxDisturbances
ScanInv == /\ scanning \in BOOLEAN /\ scanCb \in BOOLEAN /\ timer \in BOOLEAN /\ restartQ \in BOOLEAN
           /\ work \in {"idle", "delete", "start", "scan"} /\ syncedCb \in BOOLEAN
SyncInv == paSync \in {"none", "pending", "synced"} /\ fed \in BOOLEAN
SinkInv == sink \in BOOLEAN /\ bits \in BOOLEAN /\ init \in BOOLEAN /\ paused \in BOOLEAN
MgmtInv == mgmtQ \in Seq(MgmtMsg)

\* The counter counts the one stream: only while it is up is it not zero (a BASE that comes
\* late resets it even then).
StreamInv ==
    /\ stream \in {"idle", "establishing", "streaming"} /\ count \in 0..1
    /\ stream # "streaming" => count = 0
    /\ cleanupQ \in BOOLEAN /\ stored \in BOOLEAN
    /\ audioQ \in Seq(AudioMsg)

HostInv == AirInv /\ DisturbancesInv /\ ScanInv /\ SyncInv /\ SinkInv /\ MgmtInv /\ StreamInv

LEMMA HostInvIsTypeOK == HostInv => HostTypeOK
  BY DEF HostInv, HostTypeOK, AirInv, DisturbancesInv, ScanInv, SyncInv, SinkInv, MgmtInv, StreamInv,
         AudioMsg, MgmtMsg

\* A group whose variables do not change keeps its invariant.
LEMMA Untouched ==
  /\ AirInv /\ UNCHANGED airVars => AirInv'
  /\ DisturbancesInv /\ UNCHANGED disturbances => DisturbancesInv'
  /\ ScanInv /\ UNCHANGED scanVars => ScanInv'
  /\ SyncInv /\ UNCHANGED syncVars => SyncInv'
  /\ SinkInv /\ UNCHANGED sinkVars => SinkInv'
  /\ MgmtInv /\ UNCHANGED mgmtQ => MgmtInv'
  /\ StreamInv /\ UNCHANGED <<streamVars, stored>> => StreamInv'
  BY DEF AirInv, DisturbancesInv, ScanInv, SyncInv, SinkInv, MgmtInv, StreamInv,
         airVars, scanVars, syncVars, sinkVars, streamVars

LEMMA DeleteInv == SyncInv /\ DeletePaSync => SyncInv'
  BY DEF SyncInv, DeletePaSync

LEMMA CleanupInv == ASSUME SinkInv, Cleanup, UNCHANGED <<bits, paused>> PROVE SinkInv'
  BY DEF SinkInv, Cleanup

LEMMA ToldInv == ASSUME MgmtInv, NEW m \in MgmtMsg, mgmtQ' = Append(mgmtQ, m) PROVE MgmtInv'
  BY AppendProperties DEF MgmtInv

\* A stop leaves the stream idle and the counter at zero, and says so at most once.
LEMMA StoppedInv ==
  ASSUME StreamInv, NEW reason, Stopped(reason)
  PROVE  StreamInv' /\ stream' = "idle"
<1>1. /\ [event |-> "sync_lost", paSync |-> stored] \in AudioMsg
      /\ [event |-> "not_streaming", paSync |-> FALSE] \in AudioMsg
  BY DEF AudioMsg, StreamInv
<1>2. audioQ' = audioQ \/ \E m \in AudioMsg : audioQ' = Append(audioQ, m)
  BY <1>1 DEF Stopped
<1>3. audioQ' \in Seq(AudioMsg)
  BY <1>2, AppendProperties DEF StreamInv
<1>4. stored' \in BOOLEAN /\ cleanupQ' \in BOOLEAN
  BY DEF Stopped
<1>5. QED
  BY <1>3, <1>4 DEF Stopped, StreamInv

LEMMA StopStreamsInv == ASSUME StreamInv, StopStreams PROVE StreamInv' /\ stream' # "streaming"
<1>1. CASE stream = "streaming"
  BY <1>1, StoppedInv DEF StopStreams
<1>2. CASE stream # "streaming"
  BY <1>2, Untouched DEF StopStreams, streamVars
<1>3. QED
  BY <1>1, <1>2

LEMMA HostStep == ASSUME HostInv, HostNext PROVE HostInv'
<1> USE SinkAssumption, Untouched DEF SinkAssumption, HostInv
<1>1. CASE SourceChanges
  <2>1. AirInv'
    BY <1>1 DEF SourceChanges, AirInv
  <2>2. QED
    BY <1>1, <2>1 DEF SourceChanges
<1>2. CASE StreamEnds
  <2>1. AirInv'
    BY <1>2 DEF StreamEnds, AirInv
  <2>2. StreamInv'
    BY <1>2, StoppedInv DEF StreamEnds
  <2>3. QED
    BY <1>2, <2>1, <2>2 DEF StreamEnds
<1>3. CASE TimerFires
  <2>1. DisturbancesInv'
    BY <1>3 DEF TimerFires, DisturbancesInv
  <2>2. ScanInv'
    BY <1>3 DEF TimerFires, ScanInv
  <2>3. QED
    BY <1>3, <2>1, <2>2 DEF TimerFires
<1>4. CASE Found
  <2>1. ScanInv'
    BY <1>4 DEF Found, ScanInv
  <2>2. SyncInv'
    BY <1>4, DeleteInv DEF Found, SyncInv
  <2>3. QED
    BY <1>4, <2>1, <2>2 DEF Found
<1>5. CASE Synced
  <2>1. ScanInv' /\ SyncInv'
    BY <1>5 DEF Synced, ScanInv, SyncInv
  <2>2. QED
    BY <1>5, <2>1 DEF Synced
<1>6. CASE SyncedTold
  <2>1. ScanInv'
    BY <1>6 DEF SyncedTold, ScanInv
  <2>2. MgmtInv'
    BY <1>6, ToldInv DEF SyncedTold, MgmtMsg
  <2>3. QED
    BY <1>6, <2>1, <2>2 DEF SyncedTold
<1>7. CASE PaLost
  <2>1. SyncInv'
    BY <1>7, DeleteInv DEF PaLost
  <2>2. MgmtInv'
    BY <1>7, ToldInv DEF PaLost, MgmtMsg
  <2>3. QED
    BY <1>7, <2>1, <2>2 DEF PaLost
<1>8. CASE BaseReceived
  <2>1. SinkInv'
    BY <1>8 DEF BaseReceived, SinkInv
  <2>2. NoValidCfg \in AudioMsg
    BY DEF NoValidCfg, AudioMsg
  <2>3. audioQ' \in Seq(AudioMsg)
    BY <1>8, <2>2, AppendProperties DEF BaseReceived, StreamInv
  <2>4. StreamInv'
    BY <1>8, <2>3 DEF BaseReceived, StreamInv
  <2>5. QED
    BY <1>8, <2>1, <2>4 DEF BaseReceived
<1>9. CASE Syncable
  <2>1. SinkInv' /\ StreamInv'
    BY <1>9 DEF Syncable, SinkInv, StreamInv
  <2>2. QED
    BY <1>9, <2>1 DEF Syncable
<1>10. CASE Started
  <2>1. [event |-> "streaming", paSync |-> FALSE] \in AudioMsg
    BY DEF AudioMsg
  <2>2. audioQ' \in Seq(AudioMsg)
    BY <1>10, <2>1, AppendProperties DEF Started, StreamInv
  <2>3. StreamInv'
    BY <1>10, <2>2 DEF Started, StreamInv
  <2>4. QED
    BY <1>10, <2>3 DEF Started
<1>11. CASE StreamLost
  BY <1>11, StoppedInv DEF StreamLost
<1>12. CASE RestartStops
  <2>1. ScanInv'
    BY <1>12 DEF RestartStops, ScanInv
  <2>2. QED
    BY <1>12, <2>1 DEF RestartStops
<1>13. CASE RestartDeletes
  <2>1. ScanInv'
    BY <1>13 DEF RestartDeletes, ScanInv
  <2>2. QED
    BY <1>13, <2>1, DeleteInv DEF RestartDeletes
<1>14. CASE RestartRegisters
  <2>1. ScanInv'
    BY <1>14 DEF RestartRegisters, ScanInv
  <2>2. QED
    BY <1>14, <2>1 DEF RestartRegisters
<1>15. CASE RestartScans
  <2>1. ScanInv'
    BY <1>15 DEF RestartScans, ScanInv
  <2>2. QED
    BY <1>15, <2>1 DEF RestartScans
<1>16. CASE BisCleanup
  <2>1. SinkInv'
    BY <1>16, CleanupInv DEF BisCleanup
  <2>2. StreamInv'
    BY <1>16 DEF BisCleanup, StreamInv
  <2>3. QED
    BY <1>16, <2>1, <2>2 DEF BisCleanup
<1>17. QED
  BY <1>1, <1>2, <1>3, <1>4, <1>5, <1>6, <1>7, <1>8, <1>9, <1>10, <1>11, <1>12, <1>13, <1>14, <1>15, <1>16
  DEF HostNext, BluetoothThread, WorkQueue

-----------------------------------------------------------------------------
(* The threads, and mode_mutex.                                            *)

Steps == {"idle", "lock", "stop", "delete", "start", "scan", "done", "set_stop", "set_create", "fault"}
Goals == Modes \cup {"none", "apply", "disable", "alt", "set"}

ThreadInv ==
    /\ acked \in Modes
    /\ mutex \in Threads \cup {Nobody}
    /\ step \in [Threads -> Steps]
    /\ goal \in [Threads -> Goals]
    /\ strm \in {"paused", "streaming"}
    /\ commands \in 0..MaxCommands

\* The call of t has passed lock.
Inside(t) == step[t] \in {"stop", "delete", "start", "scan", "done"}

\* A call of mode control is alone behind mode_mutex and has a mode of its own by then, which
\* for every thread but Esp is the current one: only Esp, who acknowledges, changes the mode.
ModeInv ==
    /\ acked = mode
    /\ \A t \in Threads : Inside(t) /\ Modal(t) =>
           mutex = t /\ goal[t] \in Modes /\ (t # Esp => goal[t] = mode)
    /\ \A t \in Threads \ {Esp} : At(t, "lock") => goal[t] = "apply"
    /\ ~Idle(Esp) => Modal(Esp)

\* The inductive invariant of the threads' types and of the mode.
SinkBuildInv == HostInv /\ ThreadInv /\ ModeInv

LEMMA FourThreads ==
  /\ Esp \in Threads /\ Audio \in Threads /\ Mgmt \in Threads /\ Button \in Threads
  /\ Esp # Audio /\ Esp # Mgmt /\ Esp # Button
  /\ Nobody \notin Threads
  /\ MaxCommands \in Nat
<1>1. \A t, u \in {1, 2, 3, 4} : t # u => <<Esp, Audio, Mgmt, Button>>[t] # <<Esp, Audio, Mgmt, Button>>[u]
  BY ThreadsAssumption DEF ThreadsAssumption
<1>2. /\ <<Esp, Audio, Mgmt, Button>>[1] # <<Esp, Audio, Mgmt, Button>>[2]
      /\ <<Esp, Audio, Mgmt, Button>>[1] # <<Esp, Audio, Mgmt, Button>>[3]
      /\ <<Esp, Audio, Mgmt, Button>>[1] # <<Esp, Audio, Mgmt, Button>>[4]
  BY <1>1
<1>3. QED
  BY <1>2, ThreadsAssumption DEF ThreadsAssumption, Threads

LEMMA BeginInv ==
  ASSUME ThreadInv, NEW t \in Threads, NEW s \in Steps, NEW g \in Goals, Begin(t, s, g)
  PROVE  /\ step' \in [Threads -> Steps] /\ goal' \in [Threads -> Goals]
         /\ \A u \in Threads : step'[u] = (IF u = t THEN s ELSE step[u])
         /\ \A u \in Threads : goal'[u] = (IF u = t THEN g ELSE goal[u])
  BY DEF ThreadInv, Begin, Go

LEMMA GoInv ==
  ASSUME ThreadInv, NEW t \in Threads, NEW s \in Steps, Go(t, s)
  PROVE  /\ step' \in [Threads -> Steps]
         /\ \A u \in Threads : step'[u] = (IF u = t THEN s ELSE step[u])
  BY DEF ThreadInv, Go

\* A step that leaves mode, acked and mutex alone, and takes a thread somewhere it may be.
LEMMA ThreadMoves ==
  ASSUME ThreadInv, ModeInv, NEW t \in Threads, UNCHANGED <<mode, acked, mutex>>,
         \A u \in Threads \ {t} : step'[u] = step[u] /\ goal'[u] = goal[u],
         \/ Inside(t) /\ step'[t] \in {"stop", "delete", "start", "scan", "done"} /\ goal'[t] = goal[t]
         \/ t # Esp /\ step'[t] = "lock" /\ goal'[t] = "apply"
         \/ t = Esp /\ step'[t] = "lock" /\ goal'[t] \in Modes
         \/ t # Esp /\ step'[t] # "lock" /\ goal'[t] \in {"disable", "alt", "set", "none"}
         \/ t # Esp /\ step'[t] = "fault"
         \/ step'[t] = "idle"
  PROVE  ModeInv'
  BY FourThreads DEF ModeInv, Inside, Modal, At, Idle, Modes

LEMMA LockInv == ASSUME SinkBuildInv, NEW t \in Threads, LockStopsScan(t) PROVE SinkBuildInv'
<1> USE FourThreads DEF SinkBuildInv
<1>1. HostInv'
  <2>1. ScanInv'
    BY DEF HostInv, ScanInv, LockStopsScan
  <2>2. QED
    BY <2>1, Untouched DEF HostInv, LockStopsScan
<1>2. goal' = [goal EXCEPT ![t] = IF goal[t] = "apply" THEN mode ELSE goal[t]] /\ goal \in [Threads -> Goals]
  BY DEF LockStopsScan, ThreadInv
<1>3. mode \in Goals
  BY DEF HostInv, AirInv, Goals
<1>4. /\ goal' \in [Threads -> Goals]
      /\ goal'[t] = (IF goal[t] = "apply" THEN mode ELSE goal[t])
      /\ \A u \in Threads \ {t} : goal'[u] = goal[u]
  BY <1>2, <1>3
<1>5. step' \in [Threads -> Steps] /\ \A u \in Threads : step'[u] = (IF u = t THEN "stop" ELSE step[u])
  BY GoInv DEF LockStopsScan, Steps
<1>6. ThreadInv'
  BY <1>4, <1>5 DEF LockStopsScan, ThreadInv
<1>7. step[t] = "lock" /\ mutex = Nobody /\ mutex' = t /\ UNCHANGED <<mode, acked>>
  BY DEF LockStopsScan, At, airVars
<1>8. goal'[t] \in Modes /\ (t # Esp => goal'[t] = mode)
  <2>1. CASE t = Esp
    BY <1>4, <1>7, <2>1 DEF ModeInv, Idle, Modal, HostInv, AirInv
  <2>2. CASE t # Esp
    BY <1>4, <1>7, <2>2 DEF ModeInv, At, HostInv, AirInv
  <2>3. QED
    BY <2>1, <2>2
<1>9. \A u \in Threads : ~(Inside(u) /\ Modal(u))
  BY <1>7 DEF ModeInv
<1>10. ModeInv'
  BY <1>4, <1>5, <1>7, <1>8, <1>9 DEF ModeInv, Inside, Modal, At, Idle
<1>11. QED
  BY <1>1, <1>6, <1>10

\* The steps of a call that leave the mode and the mutex alone.
LEMMA InsideInv ==
  ASSUME SinkBuildInv, NEW t \in Threads, DisableStops(t) \/ DisableDeletes(t) \/ Start(t) \/ StartScan(t)
  PROVE  SinkBuildInv'
<1> USE FourThreads DEF SinkBuildInv
<1>1. CASE DisableStops(t)
  <2>1. HostInv'
    BY <1>1, StopStreamsInv, Untouched DEF HostInv, DisableStops
  <2>2. step' \in [Threads -> Steps] /\ \A u \in Threads : step'[u] = (IF u = t THEN "delete" ELSE step[u])
    BY <1>1, GoInv DEF DisableStops, Steps
  <2>3. ThreadInv'
    BY <1>1, <2>2 DEF DisableStops, ThreadInv
  <2>4. Inside(t) /\ UNCHANGED <<mode, acked, mutex, goal>>
    BY <1>1 DEF DisableStops, At, Inside, airVars
  <2>5. ModeInv'
    BY <2>2, <2>4, ThreadMoves
  <2>6. QED
    BY <2>1, <2>3, <2>5
<1>2. CASE DisableDeletes(t)
  <2>1. HostInv'
    <3>1. SyncInv'
      BY <1>2, DeleteInv, Untouched DEF HostInv, DisableDeletes
    <3>2. SinkInv'
      BY <1>2, CleanupInv DEF HostInv, DisableDeletes
    <3>3. QED
      BY <1>2, <3>1, <3>2, Untouched DEF HostInv, DisableDeletes
  <2>2. Inside(t) /\ UNCHANGED <<mode, acked, mutex>>
    BY <1>2 DEF DisableDeletes, At, Inside, airVars
  <2>3. CASE Finish(t)
    <3>1. "idle" \in Steps /\ "none" \in Goals
      BY DEF Steps, Goals
    <3>2. /\ step' \in [Threads -> Steps] /\ goal' \in [Threads -> Goals]
          /\ \A u \in Threads : step'[u] = (IF u = t THEN "idle" ELSE step[u])
          /\ \A u \in Threads : goal'[u] = (IF u = t THEN "none" ELSE goal[u])
      BY <2>3, <3>1, BeginInv DEF Finish
    <3>3. ThreadInv'
      BY <1>2, <3>2 DEF DisableDeletes, ThreadInv
    <3>4. ModeInv'
      BY <2>2, <3>2, ThreadMoves
    <3>5. QED
      BY <2>1, <3>3, <3>4
  <2>4. CASE Go(t, "start") /\ UNCHANGED goal
    <3>1. step' \in [Threads -> Steps] /\ \A u \in Threads : step'[u] = (IF u = t THEN "start" ELSE step[u])
      BY <2>4, GoInv DEF Steps
    <3>2. ThreadInv'
      BY <1>2, <2>4, <3>1 DEF DisableDeletes, ThreadInv
    <3>3. ModeInv'
      BY <2>2, <2>4, <3>1, ThreadMoves
    <3>4. QED
      BY <2>1, <3>2, <3>3
  <2>5. QED
    BY <1>2, <2>3, <2>4 DEF DisableDeletes
<1>3. CASE Start(t)
  <2>1. HostInv'
    <3>1. ScanInv'
      BY <1>3 DEF Start, HostInv, ScanInv
    <3>2. QED
      BY <1>3, <3>1, Untouched DEF HostInv, Start
  <2>2. PICK s \in {"done", "scan"} : Go(t, s)
    BY <1>3 DEF Start
  <2>3. step' \in [Threads -> Steps] /\ \A u \in Threads : step'[u] = (IF u = t THEN s ELSE step[u])
    BY <2>2, GoInv DEF Steps
  <2>4. ThreadInv'
    BY <1>3, <2>3 DEF Start, ThreadInv
  <2>5. Inside(t) /\ UNCHANGED <<mode, acked, mutex, goal>>
    BY <1>3 DEF Start, At, Inside, airVars
  <2>6. ModeInv'
    BY <2>3, <2>5, ThreadMoves
  <2>7. QED
    BY <2>1, <2>4, <2>6
<1>4. CASE StartScan(t)
  <2>1. HostInv'
    <3>1. ScanInv'
      BY <1>4 DEF StartScan, HostInv, ScanInv
    <3>2. QED
      BY <1>4, <3>1, Untouched DEF HostInv, StartScan
  <2>2. step' \in [Threads -> Steps] /\ \A u \in Threads : step'[u] = (IF u = t THEN "done" ELSE step[u])
    BY <1>4, GoInv DEF StartScan, Steps
  <2>3. ThreadInv'
    BY <1>4, <2>2 DEF StartScan, ThreadInv
  <2>4. Inside(t) /\ UNCHANGED <<mode, acked, mutex, goal>>
    BY <1>4 DEF StartScan, At, Inside, airVars
  <2>5. ModeInv'
    BY <2>2, <2>4, ThreadMoves
  <2>6. QED
    BY <2>1, <2>3, <2>5
<1>5. QED
  BY <1>1, <1>2, <1>3, <1>4

\* The end of a call: the one that may change the mode is Esp's.
LEMMA DoneInv == ASSUME SinkBuildInv, NEW t \in Threads, Done(t) PROVE SinkBuildInv'
<1> USE FourThreads DEF SinkBuildInv
<1>1. step[t] = "done" /\ Inside(t) /\ (t = Esp => Modal(t))
  BY DEF Done, At, Inside, ModeInv, Idle
<1>2. /\ step' \in [Threads -> Steps] /\ goal' \in [Threads -> Goals]
      /\ \A u \in Threads : step'[u] = (IF u = t THEN "idle" ELSE step[u])
      /\ \A u \in Threads : goal'[u] = (IF u = t THEN "none" ELSE goal[u])
  <2>1. "idle" \in Steps /\ "none" \in Goals
    BY DEF Steps, Goals
  <2>2. QED
    BY <2>1, BeginInv DEF Done, Finish
<1>3. Modal(t) => mutex = t /\ goal[t] \in Modes /\ (t # Esp => goal[t] = mode)
  BY <1>1 DEF ModeInv
<1>4. /\ mode' \in Modes /\ mutex' \in Threads \cup {Nobody} /\ acked' = mode'
      /\ (t # Esp => mode' = mode)
      /\ (Modal(t) => mutex = t) /\ (~Modal(t) => mutex' = mutex /\ mode' = mode)
  <2>1. CASE Modal(t)
    BY <1>1, <1>3, <2>1 DEF Done, ThreadInv, ModeInv
  <2>2. CASE ~Modal(t)
    BY <1>1, <2>2 DEF Done, ThreadInv, ModeInv, HostInv, AirInv
  <2>3. QED
    BY <2>1, <2>2
<1>5. HostInv'
  <2>1. AirInv'
    BY <1>4 DEF HostInv, AirInv, Done
  <2>2. QED
    BY <2>1, Untouched DEF HostInv, Done
<1>6. ThreadInv'
  BY <1>2, <1>4 DEF Done, ThreadInv
<1>7. ASSUME NEW u \in Threads, u # t, Inside(u), Modal(u)
      PROVE  mutex' = u /\ mode' = mode
  BY <1>4, <1>7 DEF ModeInv
<1>8. ModeInv'
  BY <1>2, <1>4, <1>7 DEF ModeInv, Inside, Modal, At, Idle
<1>9. QED
  BY <1>5, <1>6, <1>8

LEMMA SetModeInv == ASSUME SinkBuildInv, NEW m \in Modes, SetMode(m) PROVE SinkBuildInv'
<1> USE FourThreads DEF SinkBuildInv
<1>1. /\ step' \in [Threads -> Steps] /\ goal' \in [Threads -> Goals]
      /\ \A u \in Threads : step'[u] = (IF u = Esp THEN "lock" ELSE step[u])
      /\ \A u \in Threads : goal'[u] = (IF u = Esp THEN m ELSE goal[u])
  <2>1. "lock" \in Steps /\ m \in Goals
    BY DEF Steps, Goals
  <2>2. QED
    BY <2>1, BeginInv DEF SetMode
<1>2. HostInv'
  BY Untouched DEF HostInv, SetMode, hostVars
<1>3. ThreadInv'
  BY <1>1 DEF ThreadInv, SetMode
<1>4. UNCHANGED <<mode, acked, mutex>>
  BY DEF SetMode, hostVars, airVars
<1>5. ModeInv'
  BY <1>1, <1>4, ThreadMoves
<1>6. QED
  BY <1>2, <1>3, <1>5

\* A message of le_audio_chan is taken by a thread that is idle.
LEMMA AudioEventInv == ASSUME SinkBuildInv, AudioEvent PROVE SinkBuildInv'
<1> USE FourThreads DEF SinkBuildInv
<1> DEFINE msg == Head(audioQ)
<1>1. audioQ' \in Seq(AudioMsg) /\ msg \in AudioMsg
  BY HeadTailProperties DEF AudioEvent, HostInv, StreamInv
<1>2. HostInv'
  <2>1. SyncInv'
    BY DeleteInv, Untouched DEF HostInv, AudioEvent
  <2>2. StreamInv'
    BY <1>1 DEF HostInv, StreamInv, AudioEvent
  <2>3. QED
    BY <2>1, <2>2, Untouched DEF HostInv, AudioEvent
<1>3. strm' \in {"paused", "streaming"}
  BY DEF AudioEvent, ThreadInv
<1>4. UNCHANGED <<mode, acked, mutex, commands>>
  BY DEF AudioEvent, airVars
<1>5. CASE UNCHANGED <<step, goal>>
  BY <1>2, <1>3, <1>4, <1>5 DEF ThreadInv, ModeInv, Inside, Modal, At, Idle
<1>6. ASSUME NEW s \in {"lock", "fault", "stop"}, NEW g \in {"apply", "disable"}, Begin(Audio, s, g),
             s = "stop" <=> g = "disable"
      PROVE  SinkBuildInv'
  <2>1. /\ step' \in [Threads -> Steps] /\ goal' \in [Threads -> Goals]
        /\ \A u \in Threads : step'[u] = (IF u = Audio THEN s ELSE step[u])
        /\ \A u \in Threads : goal'[u] = (IF u = Audio THEN g ELSE goal[u])
    BY <1>6, BeginInv DEF Steps, Goals
  <2>2. ThreadInv'
    BY <1>3, <1>4, <2>1 DEF ThreadInv
  <2>3. ModeInv'
    BY <1>4, <1>6, <2>1, ThreadMoves
  <2>4. QED
    BY <1>2, <2>2, <2>3
<1>7. QED
  BY <1>5, <1>6 DEF AudioEvent

\* So is a message of bt_mgmt_chan; a sync that is up begins broadcast_sink_pa_sync_set.
LEMMA MgmtStepInv == ASSUME SinkBuildInv, MgmtStep PROVE SinkBuildInv'
<1> USE FourThreads DEF SinkBuildInv
<1>1. CASE MgmtEvent
  <2>1. HostInv'
    <3>1. MgmtInv'
      BY <1>1, HeadTailProperties DEF MgmtEvent, HostInv, MgmtInv
    <3>2. QED
      BY <1>1, <3>1, Untouched DEF HostInv, MgmtEvent
  <2>2. UNCHANGED <<mode, acked, mutex, strm, commands>>
    BY <1>1 DEF MgmtEvent, airVars
  <2>3. ASSUME NEW s \in {"lock", "set_stop"}, NEW g \in {"apply", "set"}, Begin(Mgmt, s, g),
               s = "lock" <=> g = "apply"
        PROVE  SinkBuildInv'
    <3>1. /\ step' \in [Threads -> Steps] /\ goal' \in [Threads -> Goals]
          /\ \A u \in Threads : step'[u] = (IF u = Mgmt THEN s ELSE step[u])
          /\ \A u \in Threads : goal'[u] = (IF u = Mgmt THEN g ELSE goal[u])
      BY <2>3, BeginInv DEF Steps, Goals
    <3>2. ThreadInv'
      BY <2>2, <3>1 DEF ThreadInv
    <3>3. ModeInv'
      BY <2>2, <2>3, <3>1, ThreadMoves
    <3>4. QED
      BY <2>1, <3>2, <3>3
  <2>4. QED
    BY <1>1, <2>3 DEF MgmtEvent
<1>2. CASE PaSyncSetStops
  <2>1. HostInv'
    BY <1>2, StopStreamsInv, Untouched DEF HostInv, PaSyncSetStops
  <2>2. /\ UNCHANGED <<mode, acked, mutex, goal>>
        /\ step' \in [Threads -> Steps]
        /\ \A u \in Threads : step'[u] = (IF u = Mgmt THEN "set_create" ELSE step[u])
    BY <1>2, GoInv DEF PaSyncSetStops, Steps, airVars
  <2>3. ThreadInv'
    BY <1>2, <2>2 DEF PaSyncSetStops, ThreadInv
  <2>4. ModeInv'
    BY <1>2, <2>2 DEF PaSyncSetStops, ModeInv, Inside, Modal, At, Idle
  <2>5. QED
    BY <2>1, <2>3, <2>4
<1>3. CASE PaSyncSetCreates
  <2>1. HostInv'
    <3>1. SinkInv'
      BY <1>3 DEF PaSyncSetCreates, HostInv, SinkInv
    <3>2. SyncInv'
      BY <1>3 DEF PaSyncSetCreates, HostInv, SyncInv
    <3>3. StreamInv'
      BY <1>3 DEF PaSyncSetCreates, HostInv, StreamInv, streamVars
    <3>4. QED
      BY <1>3, <3>1, <3>2, <3>3, Untouched DEF HostInv, PaSyncSetCreates
  <2>2. /\ step' \in [Threads -> Steps] /\ goal' \in [Threads -> Goals]
        /\ \A u \in Threads : step'[u] = (IF u = Mgmt THEN "idle" ELSE step[u])
        /\ \A u \in Threads : goal'[u] = (IF u = Mgmt THEN "none" ELSE goal[u])
    <3>1. "idle" \in Steps /\ "none" \in Goals
      BY DEF Steps, Goals
    <3>2. QED
      BY <1>3, <3>1, BeginInv DEF PaSyncSetCreates, Finish
  <2>3. ThreadInv'
    BY <1>3, <2>2 DEF PaSyncSetCreates, ThreadInv
  <2>4. UNCHANGED <<mode, acked, mutex>>
    BY <1>3 DEF PaSyncSetCreates, airVars
  <2>5. ModeInv'
    BY <2>2, <2>4, ThreadMoves
  <2>6. QED
    BY <2>1, <2>3, <2>5
<1>4. QED
  BY <1>1, <1>2, <1>3 DEF MgmtStep

LEMMA ButtonInv == ASSUME SinkBuildInv, PlayPause \/ Button5 PROVE SinkBuildInv'
<1> USE FourThreads, SinkAssumption DEF SinkBuildInv, SinkAssumption
<1>1. DisturbancesInv'
  BY DEF PlayPause, Button5, HostInv, DisturbancesInv
<1>2. CASE PlayPause
  <2>1. StreamInv' /\ paused' \in BOOLEAN
    BY <1>2, StopStreamsInv, Untouched DEF PlayPause, HostInv, SinkInv
  <2>2. HostInv'
    BY <1>1, <1>2, <2>1, Untouched DEF HostInv, SinkInv, PlayPause
  <2>3. UNCHANGED threadVars /\ UNCHANGED mode
    BY <1>2 DEF PlayPause, airVars
  <2>4. ThreadInv' /\ ModeInv'
    BY <2>3 DEF threadVars, ThreadInv, ModeInv, Inside, Modal, At, Idle
  <2>5. QED
    BY <2>2, <2>4
<1>3. CASE Button5
  <2>1. HostInv'
    BY <1>1, <1>3, Untouched DEF HostInv, Button5, streamVars
  <2>2. /\ step' \in [Threads -> Steps] /\ goal' \in [Threads -> Goals]
        /\ \A u \in Threads : step'[u] = (IF u = Button THEN "stop" ELSE step[u])
        /\ \A u \in Threads : goal'[u] = (IF u = Button THEN "alt" ELSE goal[u])
    <3>1. "stop" \in Steps /\ "alt" \in Goals
      BY DEF Steps, Goals
    <3>2. QED
      BY <1>3, <3>1, BeginInv DEF Button5
  <2>3. ThreadInv'
    BY <1>3, <2>2 DEF Button5, ThreadInv
  <2>4. UNCHANGED <<mode, acked, mutex>>
    BY <1>3 DEF Button5, airVars
  <2>5. ModeInv'
    BY <2>2, <2>4, ThreadMoves
  <2>6. QED
    BY <2>1, <2>3, <2>5
<1>4. QED
  BY <1>2, <1>3

LEMMA SinkBuildIsInvariant == Spec => []SinkBuildInv
<1>1. Init => SinkBuildInv
  <2> SUFFICES ASSUME Init PROVE SinkBuildInv
    OBVIOUS
  <2> USE FourThreads DEF Init, InitHost
  <2>1. mgmtQ \in Seq(MgmtMsg) /\ audioQ \in Seq(AudioMsg)
    BY EmptySeq
  <2>2. HostInv
    <3>1. AirInv /\ DisturbancesInv
      BY SinkAssumption DEF AirInv, DisturbancesInv, SinkAssumption, Modes
    <3>2. ScanInv
      BY DEF ScanInv
    <3>3. SyncInv
      BY DEF SyncInv
    <3>4. SinkInv
      <4>1. sink \in BOOLEAN /\ bits \in BOOLEAN
        OBVIOUS
      <4>2. init \in BOOLEAN /\ paused \in BOOLEAN
        OBVIOUS
      <4>3. QED
        BY <4>1, <4>2 DEF SinkInv
    <3>5. MgmtInv /\ StreamInv
      <4>1. stream \in {"idle", "establishing", "streaming"} /\ count = 0 /\ count \in 0..1
        OBVIOUS
      <4>2. cleanupQ \in BOOLEAN /\ stored \in BOOLEAN
        OBVIOUS
      <4>3. QED
        BY <2>1, <4>1, <4>2 DEF MgmtInv, StreamInv
    <3>6. QED
      BY <3>1, <3>2, <3>3, <3>4, <3>5 DEF HostInv
  <2>3. ThreadInv
    BY DEF ThreadInv, Modes, Steps, Goals
  <2>4. ModeInv
    BY DEF ModeInv, Inside, Modal, At, Idle
  <2>5. QED
    BY <2>2, <2>3, <2>4 DEF SinkBuildInv
<1>2. SinkBuildInv /\ [Next]_vars => SinkBuildInv'
  <2> SUFFICES ASSUME SinkBuildInv, [Next]_vars PROVE SinkBuildInv'
    OBVIOUS
  <2> USE DEF SinkBuildInv
  <2>1. CASE HostNext /\ UNCHANGED threadVars
    <3>1. UNCHANGED mode
      BY <2>1 DEF HostNext, BluetoothThread, WorkQueue, SourceChanges, StreamEnds, TimerFires, Found, Synced,
         SyncedTold, PaLost, BaseReceived, Syncable, Started, StreamLost, RestartStops, RestartDeletes,
         RestartRegisters, RestartScans, BisCleanup, airVars
    <3>2. ThreadInv' /\ ModeInv'
      BY <2>1, <3>1 DEF threadVars, ThreadInv, ModeInv, Inside, Modal, At, Idle
    <3>3. QED
      BY <2>1, <3>2, HostStep
  <2>2. ASSUME NEW t \in Threads, CallStep(t) PROVE SinkBuildInv'
    BY <2>2, LockInv, InsideInv, DoneInv DEF CallStep
  <2>3. ASSUME NEW m \in Modes, SetMode(m) PROVE SinkBuildInv'
    BY <2>3, SetModeInv
  <2>4. CASE UNCHANGED vars
    <3>1. HostInv'
      BY <2>4, Untouched DEF vars, hostVars, HostInv
    <3>2. ThreadInv' /\ ModeInv'
      BY <2>4 DEF vars, hostVars, airVars, threadVars, ThreadInv, ModeInv, Inside, Modal, At, Idle
    <3>3. QED
      BY <3>1, <3>2
  <2>5. QED
    BY <2>1, <2>2, <2>3, <2>4, AudioEventInv, MgmtStepInv, ButtonInv DEF Next
<1>3. QED
  BY <1>1, <1>2, PTL DEF Spec

\* Every variable of the broadcast-sink build keeps to its values (TypeOK), the one counter of
\* streams included, and a thread that ends a mode control call has a mode to set.
THEOREM SinkTypesHold == Spec => []TypeOK
<1>1. SinkBuildInv => TypeOK
  BY HostInvIsTypeOK DEF SinkBuildInv, ThreadInv, TypeOK, Steps, Goals
<1>2. QED
  BY <1>1, SinkBuildIsInvariant, PTL

\* Once every call has ended and every message is handled, the device is in the mode it last
\* reported to the host (ModeIsAcknowledged), for any number of commands, whoever applied the
\* mode again in between.
THEOREM AcknowledgedModeHolds == Spec => []ModeIsAcknowledged
<1>1. SinkBuildInv => ModeIsAcknowledged
  BY DEF SinkBuildInv, ModeInv, ModeIsAcknowledged
<1>2. QED
  BY <1>1, SinkBuildIsInvariant, PTL

-----------------------------------------------------------------------------
(* The pending sync and the stream.                                        *)

\* A sync that is pending always has the timer running for it or the work that deletes it due
\* (PendingIsWatched): nothing stops the timer, or ends the work, without ending the sync.
THEOREM PendingStaysWatched == Spec => []PendingIsWatched
<1>1. Init => PendingIsWatched
  BY DEF Init, InitHost, PendingIsWatched
<1>2. PendingIsWatched /\ [Next]_vars => PendingIsWatched'
  <2> SUFFICES ASSUME PendingIsWatched, [Next]_vars PROVE PendingIsWatched'
    OBVIOUS
  <2>1. \/ paSync' # "pending"
        \/ timer'
        \/ UNCHANGED <<paSync, timer, restartQ, work>>
        \/ work = "idle" /\ work' = "delete"
        \/ restartQ' /\ UNCHANGED <<paSync, work>>
        \/ work \in {"start", "scan"} /\ UNCHANGED <<paSync, timer, restartQ>>
    <3>1. CASE HostNext /\ UNCHANGED threadVars
      BY <3>1 DEF HostNext, BluetoothThread, WorkQueue, SourceChanges, StreamEnds, TimerFires, Found, Synced,
         SyncedTold, PaLost, BaseReceived, Syncable, Started, StreamLost, RestartStops, RestartDeletes,
         RestartRegisters, RestartScans, BisCleanup, DeletePaSync, scanVars, syncVars
    <3>2. ASSUME NEW t \in Threads, CallStep(t)
          PROVE  paSync' # "pending" \/ UNCHANGED <<paSync, timer, restartQ, work>>
      BY <3>2 DEF CallStep, LockStopsScan, DisableStops, DisableDeletes, Start, StartScan, Done, DeletePaSync,
         scanVars, syncVars
    <3>3. CASE (\E m \in Modes : SetMode(m)) \/ AudioEvent \/ MgmtStep \/ PlayPause \/ Button5
      BY <3>3 DEF SetMode, AudioEvent, MgmtStep, MgmtEvent, PaSyncSetStops, PaSyncSetCreates, PlayPause, Button5,
         DeletePaSync, hostVars, scanVars, syncVars
    <3>4. CASE UNCHANGED vars
      BY <3>4 DEF vars, hostVars, scanVars, syncVars
    <3>5. QED
      BY <3>1, <3>2, <3>3, <3>4 DEF Next
  <2>2. QED
    BY <2>1 DEF PendingIsWatched
<1>3. QED
  BY <1>1, <1>2, PTL DEF Spec

\* Nothing in le_audio_chan from its n-th message on changes the state of the stream.
QuietFrom(q, n) == \A i \in 1..Len(q) : i >= n => q[i].event = "no_valid_cfg"

\* A stream that is up is heard already, or will be when its message is handled: whatever
\* comes after that message changes nothing.
HeardInv ==
    stream = "streaming" =>
        \/ strm = "streaming" /\ QuietFrom(audioQ, 1)
        \/ \E n \in 1..Len(audioQ) : audioQ[n].event = "streaming" /\ QuietFrom(audioQ, n + 1)

LEMMA AppendAt ==
  ASSUME NEW q \in Seq(AudioMsg), NEW m \in AudioMsg
  PROVE  /\ Append(q, m) \in Seq(AudioMsg)
         /\ Len(Append(q, m)) = Len(q) + 1
         /\ \A i \in 1..Len(q) : Append(q, m)[i] = q[i]
         /\ Append(q, m)[Len(q) + 1] = m
  BY AppendProperties

LEMMA AppendQuiet ==
  ASSUME NEW q \in Seq(AudioMsg), NEW n \in Nat, QuietFrom(q, n)
  PROVE  QuietFrom(Append(q, NoValidCfg), n)
<1> DEFINE r == Append(q, NoValidCfg)
<1>1. NoValidCfg \in AudioMsg /\ NoValidCfg.event = "no_valid_cfg"
  BY DEF NoValidCfg, AudioMsg
<1>2. Len(q) \in Nat
  BY LenProperties
<1>3. Len(r) = Len(q) + 1 /\ (\A i \in 1..Len(q) : r[i] = q[i]) /\ r[Len(q) + 1] = NoValidCfg
  BY <1>1, AppendAt
<1> HIDE DEF r
<1>4. QED
  BY <1>1, <1>2, <1>3 DEF QuietFrom

\* The messages after the first one, one place nearer the front.
LEMMA TailAt ==
  ASSUME NEW q \in Seq(AudioMsg), q # <<>>
  PROVE  /\ Len(q) \in Nat \ {0} /\ Len(Tail(q)) = Len(q) - 1
         /\ Head(q) = q[1]
         /\ \A i \in 1..Len(q) - 1 : Tail(q)[i] = q[i + 1]
<1>1. Len(q) \in Nat \ {0}
  BY EmptySeq
<1>2. Head(q) = q[1]
  OBVIOUS
<1>3. Len(Tail(q)) = Len(q) - 1 /\ \A i \in 1..Len(Tail(q)) : Tail(q)[i] = q[i + 1]
  BY HeadTailProperties
<1>4. QED
  BY <1>1, <1>2, <1>3

LEMMA StreamStartsHeard == ASSUME StreamInv, Started PROVE HeardInv'
<1> DEFINE m == [event |-> "streaming", paSync |-> FALSE]
<1>1. m \in AudioMsg /\ m.event = "streaming" /\ audioQ \in Seq(AudioMsg) /\ Len(audioQ) \in Nat
  BY LenProperties DEF AudioMsg, StreamInv
<1>2. audioQ' = Append(audioQ, m)
  BY DEF Started
<1>3. Len(audioQ') = Len(audioQ) + 1 /\ audioQ'[Len(audioQ) + 1] = m
  BY <1>1, <1>2, AppendAt
<1> HIDE DEF m
<1>4. \E n \in 1..Len(audioQ') : audioQ'[n].event = "streaming" /\ (\A i \in 1..Len(audioQ') : i >= n + 1 => audioQ'[i].event = "no_valid_cfg")
  BY <1>1, <1>3
<1>5. QED
  BY <1>4 DEF HeardInv, QuietFrom

LEMMA BaseKeepsHeard == ASSUME StreamInv, HeardInv, BaseReceived, UNCHANGED strm PROVE HeardInv'
<1>1. UNCHANGED <<stream, strm>> /\ audioQ \in Seq(AudioMsg) /\ Len(audioQ) \in Nat
  BY LenProperties DEF StreamInv, BaseReceived
<1>2. CASE UNCHANGED audioQ
  BY <1>1, <1>2 DEF HeardInv, QuietFrom
<1>3. CASE audioQ' = Append(audioQ, NoValidCfg)
  <2>1. CASE stream = "streaming" /\ strm = "streaming" /\ QuietFrom(audioQ, 1)
    <3>1. QuietFrom(audioQ', 1)
      BY <1>1, <1>3, <2>1, AppendQuiet
    <3>2. QED
      BY <1>1, <2>1, <3>1 DEF HeardInv, QuietFrom
  <2>2. ASSUME NEW n \in 1..Len(audioQ), audioQ[n].event = "streaming", QuietFrom(audioQ, n + 1) PROVE HeardInv'
    <3>1. n \in Nat /\ n + 1 \in Nat
      BY <1>1
    <3>2. QuietFrom(audioQ', n + 1)
      BY <1>1, <1>3, <2>2, <3>1, AppendQuiet
    <3>3. NoValidCfg \in AudioMsg
      BY DEF NoValidCfg, AudioMsg
    <3>4. Len(audioQ') = Len(audioQ) + 1 /\ audioQ'[n] = audioQ[n]
      BY <1>1, <1>3, <3>3, AppendAt
    <3>5. n \in 1..Len(audioQ') /\ audioQ'[n].event = "streaming"
      BY <1>1, <2>2, <3>4
    <3>6. QED
      BY <3>2, <3>5 DEF HeardInv, QuietFrom
  <2>3. QED
    BY <1>1, <2>1, <2>2 DEF HeardInv
<1>4. QED
  BY <1>2, <1>3 DEF BaseReceived

\* The thread of le_audio_chan takes the first message.
LEMMA MessageKeepsHeard == ASSUME StreamInv, HeardInv, AudioEvent PROVE HeardInv'
<1>1. /\ UNCHANGED stream /\ audioQ \in Seq(AudioMsg) /\ audioQ # <<>> /\ audioQ' = Tail(audioQ)
      /\ Head(audioQ).event = "streaming" => strm' = "streaming"
      /\ Head(audioQ).event = "no_valid_cfg" => strm' = strm
  BY DEF StreamInv, AudioEvent
<1>2. /\ Len(audioQ) \in Nat \ {0} /\ Len(audioQ') = Len(audioQ) - 1
      /\ Head(audioQ) = audioQ[1]
      /\ \A i \in 1..Len(audioQ) - 1 : audioQ'[i] = audioQ[i + 1]
  BY <1>1, TailAt
<1>3. SUFFICES ASSUME stream = "streaming"
      PROVE  \/ strm' = "streaming" /\ QuietFrom(audioQ, 1)'
             \/ \E n \in 1..Len(audioQ') : audioQ'[n].event = "streaming" /\ \A i \in 1..Len(audioQ') :
                    i >= n + 1 => audioQ'[i].event = "no_valid_cfg"
  BY <1>1 DEF HeardInv, QuietFrom
<1>4. ASSUME NEW m \in 1..Len(audioQ) + 1, QuietFrom(audioQ, m)
      PROVE  \A i \in 1..Len(audioQ') : i >= m - 1 => audioQ'[i].event = "no_valid_cfg"
  BY <1>2, <1>4 DEF QuietFrom
<1>5. CASE strm = "streaming" /\ QuietFrom(audioQ, 1)
  <2>1. audioQ[1].event = "no_valid_cfg"
    BY <1>2, <1>5 DEF QuietFrom
  <2>2. \A i \in 1..Len(audioQ') : audioQ'[i].event = "no_valid_cfg"
    BY <1>2, <1>4, <1>5
  <2>3. QED
    BY <1>1, <1>2, <1>5, <2>1, <2>2 DEF QuietFrom
<1>6. ASSUME NEW n \in 1..Len(audioQ), audioQ[n].event = "streaming", QuietFrom(audioQ, n + 1)
      PROVE  \/ strm' = "streaming" /\ QuietFrom(audioQ, 1)'
             \/ \E k \in 1..Len(audioQ') : audioQ'[k].event = "streaming" /\ \A i \in 1..Len(audioQ') :
                    i >= k + 1 => audioQ'[i].event = "no_valid_cfg"
  <2>1. \A i \in 1..Len(audioQ') : i >= n => audioQ'[i].event = "no_valid_cfg"
    BY <1>2, <1>4, <1>6
  <2>2. CASE n = 1
    BY <1>1, <1>2, <1>6, <2>1, <2>2 DEF QuietFrom
  <2>3. CASE n # 1
    <3>1. n - 1 \in 1..Len(audioQ') /\ audioQ'[n - 1].event = "streaming" /\ (n - 1) + 1 = n
      BY <1>2, <1>6, <2>3
    <3>2. QED
      BY <2>1, <3>1
  <2>4. QED
    BY <2>2, <2>3
<1>7. QED
  BY <1>3, <1>5, <1>6 DEF HeardInv

LEMMA HeardStep == ASSUME SinkBuildInv, HeardInv, [Next]_vars PROVE HeardInv'
<1> USE DEF SinkBuildInv, HostInv
<1>1. ASSUME Stopped("localhost") \/ Stopped("lost") \/ \E reason \in {"remote", "mic_fail"} : Stopped(reason)
      PROVE HeardInv'
  BY <1>1, StoppedInv DEF HeardInv
<1>2. CASE StopStreams /\ UNCHANGED strm
  BY <1>2, StopStreamsInv DEF HeardInv
<1>3. CASE UNCHANGED <<stream, strm, audioQ>>
  BY <1>3 DEF HeardInv, QuietFrom
<1>4. CASE Syncable
  BY <1>4 DEF Syncable, HeardInv
<1>5. \/ UNCHANGED <<stream, strm, audioQ>>
      \/ Stopped("lost") \/ \E reason \in {"remote", "mic_fail"} : Stopped(reason)
      \/ StopStreams /\ UNCHANGED strm
      \/ Syncable \/ Started \/ AudioEvent
      \/ BaseReceived /\ UNCHANGED strm
  <2>1. CASE HostNext /\ UNCHANGED threadVars
    BY <2>1 DEF HostNext, BluetoothThread, WorkQueue, SourceChanges, StreamEnds, TimerFires, Found, Synced,
       SyncedTold, PaLost, StreamLost, RestartStops, RestartDeletes, RestartRegisters, RestartScans, BisCleanup,
       streamVars, threadVars
  <2>2. ASSUME NEW t \in Threads, CallStep(t)
        PROVE  UNCHANGED <<stream, strm, audioQ>> \/ (StopStreams /\ UNCHANGED strm)
    BY <2>2 DEF CallStep, LockStopsScan, DisableStops, DisableDeletes, Start, StartScan, Done, streamVars
  <2>3. CASE (\E m \in Modes : SetMode(m)) \/ MgmtStep \/ PlayPause \/ Button5
    BY <2>3 DEF SetMode, MgmtStep, MgmtEvent, PaSyncSetStops, PaSyncSetCreates, PlayPause, Button5,
       hostVars, streamVars, threadVars
  <2>4. CASE UNCHANGED vars
    BY <2>4 DEF vars, hostVars, streamVars, threadVars
  <2>5. QED
    BY <2>1, <2>2, <2>3, <2>4 DEF Next
<1>6. QED
  BY <1>1, <1>2, <1>3, <1>4, <1>5, StreamStartsHeard, BaseKeepsHeard, MessageKeepsHeard

\* Whoever started, stopped or lost the stream in between, and however many BASEs did not fit, a
\* stream that is up is played by the audio system once the messages are handled (ActiveIsHeard).
THEOREM ActiveStreamIsHeard == Spec => []ActiveIsHeard
<1>1. Init => HeardInv
  BY DEF Init, InitHost, HeardInv
<1>2. SinkBuildInv /\ HeardInv /\ [Next]_vars => HeardInv'
  BY HeardStep
<1>3. HeardInv => ActiveIsHeard
  <2> SUFFICES ASSUME HeardInv, audioQ = <<>>, stream = "streaming" PROVE strm = "streaming"
    BY DEF ActiveIsHeard, Settled
  <2>1. 1..Len(audioQ) = {}
    OBVIOUS
  <2>2. QED
    BY <2>1 DEF HeardInv
<1>4. QED
  BY <1>1, <1>2, <1>3, SinkBuildIsInvariant, PTL DEF Spec

===============================================================================
