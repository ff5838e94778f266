---------------------------- MODULE ScannerManager ----------------------------
(***************************************************************************)
(* The daemon's scanner manager and the remote wire scanners it owns:      *)
(* backend/observation/src/scanner_manager.cpp and                         *)
(* remote_wire_scanner.cpp.                                                *)
(*                                                                         *)
(* Caller threads (gRPC handlers and the threads that deliver inventory    *)
(* events) bind, start, stop and unbind scanners under the manager's one   *)
(* mutex.  Each started scanner owns a worker thread (a jthread) that      *)
(* opens the transport, reads advertisement lines and calls the manager's  *)
(* handler, which takes the same mutex.  A caller that stops a scanner     *)
(* joins the worker while it holds the mutex.                              *)
(*                                                                         *)
(* A critical section with no blocking call in it is one step; the two     *)
(* that join a worker (stop_scan, unbind_scanner) are a step that takes    *)
(* the mutex and a step that returns.                                      *)
(***************************************************************************)
EXTENDS Naturals, Sequences

CONSTANTS
    Units,        \* inventory units a scanner can be bound to
    WireTapUnits, \* those reached by serial, protocol WireTap; the others are EspConn
    Devices,      \* BLE devices an advertisement can come from
    Callers,      \* threads that call the manager
    Workers,      \* identities of worker threads
    NoWorker,     \* an empty jthread
    Free,         \* the mutex when nobody joins under it
    MaxSeen,      \* bound: advertisements counted for one device
    MaxChunk      \* bound: advertisement lines one read can bring

ASSUME ScannerAssumption ==
    /\ Units # {}
    /\ WireTapUnits \subseteq Units
    /\ NoWorker \notin Workers
    /\ MaxSeen \in Nat
    /\ MaxChunk \in Nat

VARIABLES
    mutex,    \* Free, or the call that joins a worker while it holds mutex_
    bound,    \* bound[u]: scanners_ has an entry for u
    scanning, \* scanning[u]: the scanner's atomic scanning_ flag
    jthread,  \* jthread[u]: the scanner's worker_, NoWorker when not joinable
    worker,   \* worker[w]: a thread inside RemoteWireScanner::run
    port,     \* port[u]: workers that have u's transport open
    tap,      \* tap[u]: the firmware at the other end has its "adv" tap enabled
    stray,    \* stray[u]: that tap was on when the link was lost (history)
    seen,     \* seen[u][d]: seen_count of the retained device, 0 when there is none
    emitted   \* emitted[u][d]: on_observation events published for it (history)

scanVars == <<mutex, bound, scanning, jthread, worker, port, tap, stray, seen,
              emitted>>

Unseen == [d \in Devices |-> 0]
Joins == [by : Callers, op : {"stop_scan", "unbind_scanner"}, unit : Units]
ASSUME FreeAssumption == Free \notin Joins
Phases == {"unused", "opening", "enabling", "reading", "callback", "emit", "closing",
           "ending", "ended"}

\* stop: stop_requested() on its token.  broken: the link was lost since open().
\* lines: devices of the advertisement lines read and not yet handled.
Thread == [pc : Phases, unit : Units, stop : BOOLEAN, broken : BOOLEAN,
           lines : Seq(Devices)]

NewThread(phase, u) ==
    [pc |-> phase, unit |-> u, stop |-> FALSE, broken |-> FALSE, lines |-> <<>>]
Unused == NewThread("unused", CHOOSE u \in Units : TRUE)

\* What a read_some brings once it is split in lines and each is parsed: the
\* devices of the lines that parse as advertisements, in order.
Chunks == UNION {[1..n -> Devices] : n \in 1..MaxChunk}

\* The thread may still use the transport, the scanner or the handler.
Live(w) == worker[w].pc \notin {"unused", "ended"}

\* Mutant: a detached thread, which nobody waits for.
JoinedDetached(w) == TRUE
\* worker_.join() returns: there is no thread, or it has ended.
Joined(w) == IF w = NoWorker THEN TRUE ELSE ~Live(w)

\* The threads once worker_ no longer refers to w.
Reaped(w) ==
    IF w = NoWorker THEN worker
    ELSE IF Live(w) THEN worker ELSE [worker EXCEPT ![w] = Unused]

Init ==
    /\ mutex = Free
    /\ bound = [u \in Units |-> FALSE]
    /\ scanning = [u \in Units |-> FALSE]
    /\ jthread = [u \in Units |-> NoWorker]
    /\ worker = [w \in Workers |-> Unused]
    /\ port = [u \in Units |-> {}]
    /\ tap = [u \in Units |-> FALSE]
    /\ stray = [u \in Units |-> FALSE]
    /\ seen = [u \in Units |-> Unseen]
    /\ emitted = [u \in Units |-> Unseen]

-----------------------------------------------------------------------------
(* Calls into the manager.  A call that finds nothing to do (no scanner     *)
(* bound, already scanning, not scanning) returns and changes nothing.      *)

\* bind_scanner: an existing binding is kept, so only the insertion is a step.
Bind(u) ==
    /\ mutex = Free
    /\ ~bound[u]
    /\ bound' = [bound EXCEPT ![u] = TRUE]
    /\ UNCHANGED <<mutex, scanning, jthread, worker, port, tap, stray, seen, emitted>>

\* start_scan: the handler is set, scanning_ raised, and a new thread replaces
\* worker_, whose move assignment joins the previous one.
StartScan(u, w) ==
    /\ mutex = Free
    /\ bound[u]
    /\ ~scanning[u]
    /\ worker[w] = Unused
    /\ Joined(jthread[u])
    /\ scanning' = [scanning EXCEPT ![u] = TRUE]
    /\ jthread' = [jthread EXCEPT ![u] = w]
    /\ worker' = [Reaped(jthread[u]) EXCEPT ![w] = NewThread("opening", u)]
    /\ UNCHANGED <<mutex, bound, port, tap, stray, seen, emitted>>

\* request_stop() on the scanner's thread, if it has one.
RequestStop(u) ==
    worker' = IF jthread[u] = NoWorker THEN worker
              ELSE [worker EXCEPT ![jthread[u]].stop = TRUE]

\* stop_scan up to the join in RemoteWireScanner::stop.  mutex_ stays held.
StopBegin(t, u) ==
    /\ mutex = Free
    /\ bound[u]
    /\ scanning[u]
    /\ mutex' = [by |-> t, op |-> "stop_scan", unit |-> u]
    /\ scanning' = [scanning EXCEPT ![u] = FALSE]
    /\ RequestStop(u)
    /\ UNCHANGED <<bound, jthread, port, tap, stray, seen, emitted>>

\* Mutant: the entry is erased at once, its thread left to end by itself.
UnbindAtOnce(t, u) ==
    /\ mutex = Free
    /\ bound[u]
    /\ bound' = [bound EXCEPT ![u] = FALSE]
    /\ scanning' = [scanning EXCEPT ![u] = FALSE]
    /\ jthread' = [jthread EXCEPT ![u] = NoWorker]
    /\ RequestStop(u)
    /\ seen' = [seen EXCEPT ![u] = Unseen]
    /\ emitted' = [emitted EXCEPT ![u] = Unseen]
    /\ UNCHANGED <<mutex, port, tap, stray>>

\* unbind_scanner up to the join in the scanner's stop() or, when scanning_ was
\* down already, in its jthread's destructor.
UnbindBegin(t, u) ==
    /\ mutex = Free
    /\ bound[u]
    /\ mutex' = [by |-> t, op |-> "unbind_scanner", unit |-> u]
    /\ scanning' = [scanning EXCEPT ![u] = FALSE]
    /\ RequestStop(u)
    /\ UNCHANGED <<bound, jthread, port, tap, stray, seen, emitted>>

\* The join of call `op` returns and the mutex is released.
JoinReturns(op) ==
    /\ mutex # Free
    /\ mutex.op = op
    /\ Joined(jthread[mutex.unit])
    /\ mutex' = Free
    /\ jthread' = [jthread EXCEPT ![mutex.unit] = NoWorker]
    /\ worker' = Reaped(jthread[mutex.unit])
    /\ UNCHANGED <<scanning, port, tap, stray>>

\* stop_scan answers OK.
StopEnd ==
    /\ JoinReturns("stop_scan")
    /\ UNCHANGED <<bound, seen, emitted>>

\* The entry, with the devices it retained, is erased.
UnbindEnd ==
    /\ JoinReturns("unbind_scanner")
    /\ bound' = [bound EXCEPT ![mutex.unit] = FALSE]
    /\ seen' = [seen EXCEPT ![mutex.unit] = Unseen]
    /\ emitted' = [emitted EXCEPT ![mutex.unit] = Unseen]

-----------------------------------------------------------------------------
(* The worker thread, RemoteWireScanner::run.                               *)

unitOf(w) == worker[w].unit
At(w, phase) == worker[w].pc = phase
Goto(w, phase) == worker' = [worker EXCEPT ![w].pc = phase]

\* transport->open() succeeds; a WireTap worker goes on to enable the tap.
Open(w) ==
    /\ At(w, "opening")
    /\ Goto(w, IF unitOf(w) \in WireTapUnits THEN "enabling" ELSE "reading")
    /\ port' = [port EXCEPT ![unitOf(w)] = @ \cup {w}]
    /\ UNCHANGED <<mutex, bound, scanning, jthread, tap, stray, seen, emitted>>

\* open() fails: the flag goes down and the thread ends.
OpenFails(w) ==
    /\ At(w, "opening")
    /\ Goto(w, "ended")
    /\ scanning' = [scanning EXCEPT ![unitOf(w)] = FALSE]
    /\ UNCHANGED <<mutex, bound, jthread, port, tap, stray, seen, emitted>>

\* tap_enable is written; a command takes effect on the board as it is written.
EnableTap(w) ==
    /\ At(w, "enabling")
    /\ ~worker[w].broken
    /\ Goto(w, "reading")
    /\ tap' = [tap EXCEPT ![unitOf(w)] = TRUE]
    /\ stray' = [stray EXCEPT ![unitOf(w)] = FALSE]
    /\ UNCHANGED <<mutex, bound, scanning, jthread, port, seen, emitted>>

\* tap_enable cannot be written: the transport is closed, then the flag lowered.
EnableTapFails(w) ==
    /\ At(w, "enabling")
    /\ worker[w].broken
    /\ Goto(w, "ending")
    /\ port' = [port EXCEPT ![unitOf(w)] = @ \ {w}]
    /\ UNCHANGED <<mutex, bound, scanning, jthread, tap, stray, seen, emitted>>

\* One turn of the read loop that brings advertisement lines.  A turn that
\* brings none (a timeout, control lines, malformed lines) changes nothing.
Read(w) ==
    /\ At(w, "reading")
    /\ ~worker[w].stop
    /\ ~worker[w].broken
    /\ \E chunk \in Chunks :
        /\ \A i \in DOMAIN chunk : seen[unitOf(w)][chunk[i]] + Len(chunk) <= MaxSeen
        /\ worker' = [worker EXCEPT ![w].pc = "callback", ![w].lines = chunk]
    /\ UNCHANGED <<mutex, bound, scanning, jthread, port, tap, stray, seen, emitted>>

\* Mutant: only a failed read ends the loop, the stop token is not looked at.
LeaveLoopOnErrorOnly(w) ==
    /\ At(w, "reading")
    /\ worker[w].broken
    /\ Goto(w, "closing")
    /\ UNCHANGED <<mutex, bound, scanning, jthread, port, tap, stray, seen, emitted>>

\* Mutant: the flag is lowered before the tap is disabled and the port closed.
LeaveLoopLowersFlag(w) ==
    /\ At(w, "reading")
    /\ worker[w].stop \/ worker[w].broken
    /\ Goto(w, "closing")
    /\ scanning' = [scanning EXCEPT ![unitOf(w)] = FALSE]
    /\ UNCHANGED <<mutex, bound, jthread, port, tap, stray, seen, emitted>>

\* The loop ends: a stop was requested, or the read failed.
LeaveLoop(w) ==
    /\ At(w, "reading")
    /\ worker[w].stop \/ worker[w].broken
    /\ Goto(w, "closing")
    /\ UNCHANGED <<mutex, bound, scanning, jthread, port, tap, stray, seen, emitted>>

\* Mutant: the buffer is not checked for another whole line.
NextLineUnchecked(w) ==
    worker' = [worker EXCEPT ![w].lines = Tail(@), ![w].pc = "callback"]

\* The line is done; the next one of the chunk follows without a look at the
\* stop token.
NextLine(w) ==
    LET rest == Tail(worker[w].lines)
    IN  worker' = [worker EXCEPT ![w].lines = rest,
                                 ![w].pc = IF rest = <<>> THEN "reading" ELSE "callback"]

\* Mutant: seen_count is set where the device is inserted and never increased.
HandlerCountsInsertion(w) ==
    LET u == unitOf(w)
        d == Head(worker[w].lines)
    IN  /\ At(w, "callback")
        /\ mutex = Free
        /\ Goto(w, "emit")
        /\ seen' = [seen EXCEPT ![u][d] = IF @ = 0 THEN 1 ELSE @]
        /\ UNCHANGED <<mutex, bound, scanning, jthread, port, tap, stray, emitted>>

\* The handler's critical section: nothing is done for a unit that is no longer
\* bound; otherwise the device is inserted or merged, and counted.
Handler(w) ==
    LET u == unitOf(w)
        d == Head(worker[w].lines)
    IN  /\ At(w, "callback")
        /\ mutex = Free
        /\ IF bound[u]
           THEN Goto(w, "emit") /\ seen' = [seen EXCEPT ![u][d] = @ + 1]
           ELSE NextLine(w) /\ UNCHANGED seen
        /\ UNCHANGED <<mutex, bound, scanning, jthread, port, tap, stray, emitted>>

\* on_observation.emit, after the mutex is released.
Emit(w) ==
    /\ At(w, "emit")
    /\ NextLine(w)
    /\ emitted' = [emitted EXCEPT ![unitOf(w)][Head(worker[w].lines)] = @ + 1]
    /\ UNCHANGED <<mutex, bound, scanning, jthread, port, tap, stray, seen>>

\* Mutant: run ends without tap_disable.
CloseKeepsTap(w) ==
    /\ At(w, "closing")
    /\ Goto(w, "ending")
    /\ port' = [port EXCEPT ![unitOf(w)] = @ \ {w}]
    /\ UNCHANGED <<mutex, bound, scanning, jthread, tap, stray, seen, emitted>>

\* A WireTap worker writes tap_disable, its failure ignored: on a lost link the
\* board never hears of it.  The transport closes.
Close(w) ==
    /\ At(w, "closing")
    /\ Goto(w, "ending")
    /\ IF unitOf(w) \in WireTapUnits /\ ~worker[w].broken
       THEN /\ tap' = [tap EXCEPT ![unitOf(w)] = FALSE]
            /\ stray' = [stray EXCEPT ![unitOf(w)] = FALSE]
       ELSE UNCHANGED <<tap, stray>>
    /\ port' = [port EXCEPT ![unitOf(w)] = @ \ {w}]
    /\ UNCHANGED <<mutex, bound, scanning, jthread, seen, emitted>>

\* scanning_.store(false), the worker's last access to the scanner.
End(w) ==
    /\ At(w, "ending")
    /\ Goto(w, "ended")
    /\ scanning' = [scanning EXCEPT ![unitOf(w)] = FALSE]
    /\ UNCHANGED <<mutex, bound, jthread, port, tap, stray, seen, emitted>>

WorkerStep(w) ==
    \/ Open(w) \/ OpenFails(w) \/ EnableTap(w) \/ EnableTapFails(w)
    \/ Read(w) \/ LeaveLoop(w) \/ Handler(w) \/ Emit(w) \/ Close(w) \/ End(w)

-----------------------------------------------------------------------------
(* The environment.                                                         *)

\* The transports open on u's board are dead from now on.
BreakLinks(u) ==
    worker' = [w \in Workers |->
                 IF w \in port[u] THEN [worker[w] EXCEPT !.broken = TRUE] ELSE worker[w]]

\* The cable is pulled, or the network link lost, and the board keeps its power:
\* its taps stay as they were told, with nobody left to turn them off.
LinkLost(u) ==
    /\ port[u] # {}
    /\ BreakLinks(u)
    /\ stray' = [stray EXCEPT ![u] = tap[u]]
    /\ UNCHANGED <<mutex, bound, scanning, jthread, port, tap, seen, emitted>>

\* The board resets and comes back with all its taps off.
BoardResets(u) ==
    /\ port[u] # {} \/ tap[u]
    /\ BreakLinks(u)
    /\ tap' = [tap EXCEPT ![u] = FALSE]
    /\ stray' = [stray EXCEPT ![u] = FALSE]
    /\ UNCHANGED <<mutex, bound, scanning, jthread, port, seen, emitted>>

Next ==
    \/ \E u \in Units :
        \/ Bind(u) \/ LinkLost(u) \/ BoardResets(u)
        \/ \E w \in Workers : StartScan(u, w)
        \/ \E t \in Callers : StopBegin(t, u) \/ UnbindBegin(t, u)
    \/ StopEnd \/ UnbindEnd
    \/ \E w \in Workers : WorkerStep(w)

\* Threads are scheduled and I/O is bounded by timeouts, so a thread that can
\* take its next step takes it.  Nothing makes a client call, or a read bring data.
Fairness ==
    /\ WF_scanVars(StopEnd)
    /\ WF_scanVars(UnbindEnd)
    /\ \A w \in Workers : WF_scanVars(WorkerStep(w))

Spec == Init /\ [][Next]_scanVars
FairSpec == Spec /\ Fairness

-----------------------------------------------------------------------------
\* The shape of the state; a thread is in the handler only with a line to handle.
TypeOK ==
    /\ mutex \in Joins \cup {Free}
    /\ bound \in [Units -> BOOLEAN]
    /\ scanning \in [Units -> BOOLEAN]
    /\ jthread \in [Units -> Workers \cup {NoWorker}]
    /\ worker \in [Workers -> Thread]
    /\ \A w \in Workers : worker[w].pc \in {"callback", "emit"} => worker[w].lines # <<>>
    /\ port \in [Units -> SUBSET Workers]
    /\ tap \in [Units -> BOOLEAN]
    /\ stray \in [Units -> BOOLEAN]
    /\ seen \in [Units -> [Devices -> Nat]]
    /\ emitted \in [Units -> [Devices -> Nat]]

\* A call is inside the join of u's worker.
Joining(u) == mutex # Free /\ mutex.unit = u

\* Outside a join, a scanner that says it is not scanning has no thread that
\* could still use the port or publish: when stop_scan has answered OK the unit
\* is quiet, and start_scan may replace worker_ without waiting.
NotScanningMeansQuiet ==
    \A w \in Workers :
        Live(w) => scanning[unitOf(w)] \/ Joining(unitOf(w))

\* Two threads never have one unit's serial port or socket open.
OnePortUser ==
    \A u \in Units : \A v, w \in port[u] : v = w

\* An observation event is published only for a unit that is still bound: the
\* erase in unbind_scanner never overtakes an emit that is on its way.
NoEventForUnboundUnit ==
    \A w \in Workers : At(w, "emit") => bound[unitOf(w)]

\* A worker is about to publish an event for d as seen by u's scanner.
InFlight(u, d) ==
    \E w \in Workers : At(w, "emit") /\ unitOf(w) = u /\ Head(worker[w].lines) = d

\* A retained device's seen_count is the number of its events that were
\* published, plus the one on its way.
CountsMatchEvents ==
    \A u \in Units, d \in Devices :
        seen[u][d] = emitted[u][d] + IF InFlight(u, d) THEN 1 ELSE 0

\* Worker w has told its board to report, over a link that still works.
Served(w) == ~At(w, "enabling") /\ ~worker[w].broken

\* The firmware's advertisement tap and the daemon's workers agree.  A board whose
\* tap is on has a worker at its port, or lost its link with the tap on; no stop,
\* unbind, restart or failed read leaves one on in any other way.  And a worker
\* that reads over a working link has its tap on: the disable an earlier worker
\* wrote never comes after its own enable.
TapFollowsWorker ==
    \A u \in WireTapUnits :
        /\ tap[u] => port[u] # {} \/ stray[u]
        /\ \A w \in port[u] : Served(w) => tap[u]

\* The manager's mutex is held by a join of a worker that is waiting for it.
JoinDeadlock ==
    /\ mutex # Free
    /\ jthread[mutex.unit] # NoWorker
    /\ At(jthread[mutex.unit], "callback")

\* No lock is held while calling into something that needs it back:
\* .skills/auracle-backend/SKILL.md:341 states the rule, stop_scan and
\* unbind_scanner break it.
NoJoinDeadlock == ~JoinDeadlock

\* The circular wait above is the only way a stop or an unbind hangs: link
\* failures, a full line buffer or a slow open never keep the join from returning.
JoinReturnsOrDeadlocks == mutex # Free ~> mutex = Free \/ JoinDeadlock

\* The observation service's promise about each unit.
Session(u) ==
    IF ~bound[u] THEN "unbound"
    ELSE IF jthread[u] = NoWorker THEN "idle"
    ELSE IF ~Live(jthread[u]) THEN "idle"
    ELSE IF scanning[u] THEN "scanning" ELSE "stopping"

Abstract == INSTANCE ScanSession WITH
                session <- [u \in Units |-> Session(u)],
                observed <- emitted

ImplementsScanSession == Abstract!Spec
==============================================================================
