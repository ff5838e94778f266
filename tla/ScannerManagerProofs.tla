------------------------- MODULE ScannerManagerProofs -------------------------
(***************************************************************************)
(* Proofs about ScannerManager, for any number of units, callers, workers  *)
(* and devices.                                                            *)
(***************************************************************************)
EXTENDS ScannerManager, SequenceTheorems, TLAPS

\* Every thread there is belongs to the scanner that started it.
ThreadsOwned ==
    /\ \A w \in Workers : ~At(w, "unused") => jthread[unitOf(w)] = w
    /\ \A u \in Units : jthread[u] # NoWorker =>
            bound[u] /\ unitOf(jthread[u]) = u /\ ~At(jthread[u], "unused")

\* A raised flag has a running thread; a unit that is being joined has it lowered.
FlagHasThread ==
    /\ \A u \in Units : scanning[u] => jthread[u] # NoWorker /\ Live(jthread[u])
    /\ mutex # Free => bound[mutex.unit] /\ ~scanning[mutex.unit]

\* A transport is open exactly while its thread is between open() and close().
PortFollowsThread ==
    \A u \in Units : \A w \in Workers :
        w \in port[u] <=>
            /\ unitOf(w) = u
            /\ worker[w].pc \in {"enabling", "reading", "callback", "emit", "closing"}

\* A tap that is on was left by a lost link or is served by a worker, and a worker
\* that serves has its tap on.
TapFollowsThread ==
    /\ \A w \in Workers : At(w, "enabling") => unitOf(w) \in WireTapUnits
    /\ \A u \in Units : tap[u] =>
          /\ u \in WireTapUnits
          /\ stray[u] \/ \E w \in port[u] : Served(w)
    /\ \A u \in WireTapUnits : \A w \in port[u] : Served(w) => tap[u]

\* The inductive invariant.
IInv ==
    /\ TypeOK
    /\ ThreadsOwned
    /\ FlagHasThread
    /\ NotScanningMeansQuiet
    /\ PortFollowsThread
    /\ TapFollowsThread
    /\ CountsMatchEvents

-----------------------------------------------------------------------------
(* Data: chunks of lines, and threads.                                      *)

\* What a read brings is a non-empty sequence of devices.
LEMMA ChunkType ==
    ASSUME NEW chunk \in Chunks
    PROVE  chunk \in Seq(Devices) /\ chunk # <<>>
<1>1. PICK n \in 1..MaxChunk : chunk \in [1..n -> Devices]
  BY DEF Chunks
<1>2. n \in Nat /\ n # 0
  BY ScannerAssumption
<1>3. chunk \in Seq(Devices)
  BY <1>1, <1>2, SeqDef
<1>4. Len(chunk) = n
  BY <1>1, <1>2, <1>3, LenProperties
<1>5. QED
  BY <1>2, <1>3, <1>4, EmptySeq

\* A new thread, in any phase and for any unit, is a thread with nothing to handle.
LEMMA NewThreadType ==
    ASSUME NEW phase \in Phases, NEW u \in Units
    PROVE  NewThread(phase, u) \in Thread
<1>1. <<>> \in Seq(Devices)
  BY EmptySeq
<1>2. QED
  BY <1>1 DEF NewThread, Thread

\* The value of an identity that is no thread is well formed.
LEMMA UnusedType == Unused \in Thread /\ Unused.pc = "unused"
<1>1. (CHOOSE u \in Units : TRUE) \in Units
  BY ScannerAssumption
<1>2. Unused \in Thread
  BY <1>1, NewThreadType DEF Unused, Phases
<1>3. QED
  BY <1>2 DEF Unused, NewThread

\* Forgetting a joined thread, and asking one to stop, keep the threads well formed.
LEMMA ReapedType ==
    ASSUME TypeOK, NEW w \in Workers \cup {NoWorker}
    PROVE  /\ Reaped(w) \in [Workers -> Thread]
           /\ \A v \in Workers : Reaped(w)[v] \in {worker[v], Unused}
BY UnusedType DEF TypeOK, Reaped

\* request_stop() changes nothing of a thread but its stop token.
LEMMA RequestStopType ==
    ASSUME TypeOK, NEW u \in Units, RequestStop(u)
    PROVE  /\ worker' \in [Workers -> Thread]
           /\ \A v \in Workers : worker'[v].pc = worker[v].pc
                                /\ worker'[v].lines = worker[v].lines
                                /\ worker'[v].unit = worker[v].unit
                                /\ worker'[v].broken = worker[v].broken
<1>1. CASE jthread[u] = NoWorker
  BY <1>1 DEF TypeOK, RequestStop
<1>2. CASE jthread[u] # NoWorker
  <2>1. jthread[u] \in Workers /\ worker[jthread[u]] \in Thread
    BY <1>2 DEF TypeOK
  <2>2. worker' = [worker EXCEPT ![jthread[u]] = [worker[jthread[u]] EXCEPT !.stop = TRUE]]
    BY <1>2, <2>1 DEF RequestStop, TypeOK
  <2>3. QED
    BY <2>1, <2>2 DEF TypeOK, Thread
<1>3. QED
  BY <1>1, <1>2

\* Breaking the links of a unit changes nothing of a thread but its broken flag.
LEMMA BreakLinksFields ==
    ASSUME TypeOK, NEW u \in Units, LinkLost(u) \/ BoardResets(u)
    PROVE  /\ worker' \in [Workers -> Thread]
           /\ \A v \in Workers :
                /\ worker'[v].pc = worker[v].pc
                /\ worker'[v].unit = worker[v].unit
                /\ worker'[v].lines = worker[v].lines
                /\ v \in port[u] => worker'[v].broken
                /\ v \notin port[u] => worker'[v] = worker[v]
<1>1. BreakLinks(u)
  BY DEF LinkLost, BoardResets
<1>2. QED
  BY <1>1 DEF TypeOK, BreakLinks, Thread

-----------------------------------------------------------------------------
(* Type correctness.                                                        *)

\* Moving a thread to a phase that handles no line keeps the threads well formed.
LEMMA GotoType ==
    ASSUME TypeOK, NEW w \in Workers, NEW phase \in Phases, Goto(w, phase),
           phase \notin {"callback", "emit"} \/ worker[w].lines # <<>>
    PROVE  /\ worker' \in [Workers -> Thread]
           /\ \A v \in Workers :
                worker'[v].pc \in {"callback", "emit"} => worker'[v].lines # <<>>
BY DEF TypeOK, Goto, Thread, Phases

\* The next line of a chunk keeps the threads well formed: the handler is entered
\* only when there is one.
LEMMA NextLineType ==
    ASSUME TypeOK, NEW w \in Workers, worker[w].lines # <<>>, NextLine(w)
    PROVE  /\ worker' \in [Workers -> Thread]
           /\ \A v \in Workers :
                worker'[v].pc \in {"callback", "emit"} => worker'[v].lines # <<>>
<1>1. Tail(worker[w].lines) \in Seq(Devices)
  BY HeadTailProperties DEF TypeOK, Thread
<1>2. worker[w] \in Thread
  BY DEF TypeOK
<1>3. worker' = [worker EXCEPT ![w] =
                    [worker[w] EXCEPT !.lines = Tail(worker[w].lines),
                        !.pc = IF Tail(worker[w].lines) = <<>> THEN "reading" ELSE "callback"]]
  BY <1>2 DEF NextLine, TypeOK, Thread
<1>4. QED
  BY <1>1, <1>2, <1>3 DEF TypeOK, Thread, Phases

\* The initial state has the declared shape.
LEMMA TypeInit == Init => TypeOK
BY UnusedType DEF Init, TypeOK, Unseen

\* Every step keeps the declared shape.
LEMMA TypeNext == TypeOK /\ [Next]_scanVars => TypeOK'
<1> SUFFICES ASSUME TypeOK, [Next]_scanVars PROVE TypeOK'
  OBVIOUS
<1>1. ASSUME NEW u \in Units, Bind(u) PROVE TypeOK'
  BY <1>1 DEF TypeOK, Bind
<1>2. ASSUME NEW u \in Units, LinkLost(u) \/ BoardResets(u) PROVE TypeOK'
  <2>1. tap' \in [Units -> BOOLEAN] /\ stray' \in [Units -> BOOLEAN]
    BY <1>2 DEF TypeOK, LinkLost, BoardResets
  <2>2. QED
    BY <1>2, <2>1, BreakLinksFields DEF TypeOK, LinkLost, BoardResets
<1>3. ASSUME NEW u \in Units, NEW w \in Workers, StartScan(u, w) PROVE TypeOK'
  <2>1. Reaped(jthread[u]) \in [Workers -> Thread]
        /\ \A v \in Workers : Reaped(jthread[u])[v] \in {worker[v], Unused}
    BY ReapedType DEF TypeOK
  <2>2. NewThread("opening", u) \in Thread /\ NewThread("opening", u).pc = "opening"
    BY NewThreadType DEF Phases, NewThread
  <2>3. QED
    BY <1>3, <2>1, <2>2, UnusedType DEF TypeOK, StartScan
<1>4. ASSUME NEW u \in Units, NEW t \in Callers, StopBegin(t, u) PROVE TypeOK'
  BY <1>4, RequestStopType DEF TypeOK, StopBegin, Joins
<1>5. ASSUME NEW u \in Units, NEW t \in Callers, UnbindBegin(t, u) PROVE TypeOK'
  BY <1>5, RequestStopType DEF TypeOK, UnbindBegin, Joins
<1>6. CASE StopEnd
  <2>1. mutex \in Joins /\ mutex.unit \in Units
    BY <1>6 DEF TypeOK, StopEnd, JoinReturns, Joins
  <2>2. Reaped(jthread[mutex.unit]) \in [Workers -> Thread]
        /\ \A v \in Workers : Reaped(jthread[mutex.unit])[v] \in {worker[v], Unused}
    BY <2>1, ReapedType DEF TypeOK
  <2>3. QED
    BY <1>6, <2>1, <2>2, UnusedType DEF TypeOK, StopEnd, JoinReturns
<1>7. CASE UnbindEnd
  <2>1. mutex \in Joins /\ mutex.unit \in Units
    BY <1>7 DEF TypeOK, UnbindEnd, JoinReturns, Joins
  <2>2. Reaped(jthread[mutex.unit]) \in [Workers -> Thread]
        /\ \A v \in Workers : Reaped(jthread[mutex.unit])[v] \in {worker[v], Unused}
    BY <2>1, ReapedType DEF TypeOK
  <2>3. QED
    BY <1>7, <2>1, <2>2, UnusedType DEF TypeOK, UnbindEnd, JoinReturns, Unseen
<1>8. ASSUME NEW w \in Workers, WorkerStep(w) PROVE TypeOK'
  <2>0. unitOf(w) \in Units
    BY DEF TypeOK, Thread, unitOf
  <2>1. CASE Open(w)
    BY <2>0, <2>1, GotoType DEF TypeOK, Open, Phases
  <2>2. CASE OpenFails(w)
    BY <2>0, <2>2, GotoType DEF TypeOK, OpenFails, Phases
  <2>3. CASE EnableTap(w)
    BY <2>0, <2>3, GotoType DEF TypeOK, EnableTap, Phases
  <2>4. CASE EnableTapFails(w)
    BY <2>0, <2>4, GotoType DEF TypeOK, EnableTapFails, Phases
  <2>5. CASE Read(w)
    <3>1. PICK chunk \in Chunks :
            worker' = [worker EXCEPT ![w].pc = "callback", ![w].lines = chunk]
      BY <2>5 DEF Read
    <3>2. chunk \in Seq(Devices) /\ chunk # <<>>
      BY ChunkType
    <3>3. worker[w] \in Thread
      BY DEF TypeOK
    <3>4. worker' = [worker EXCEPT ![w] =
                        [worker[w] EXCEPT !.pc = "callback", !.lines = chunk]]
      BY <3>1, <3>3 DEF TypeOK
    <3>5. QED
      BY <2>5, <3>2, <3>3, <3>4 DEF TypeOK, Read, Thread, Phases
  <2>6. CASE LeaveLoop(w)
    BY <2>6, GotoType DEF TypeOK, LeaveLoop, Phases
  <2>7. CASE Handler(w)
    <3>1. worker[w].lines # <<>> /\ worker[w].lines \in Seq(Devices)
      BY <2>7 DEF TypeOK, Handler, At, Thread
    <3>2. Head(worker[w].lines) \in Devices
      BY <3>1, HeadTailProperties
    <3>3. CASE bound[unitOf(w)]
      <4>1. /\ worker' \in [Workers -> Thread]
            /\ \A v \in Workers :
                 worker'[v].pc \in {"callback", "emit"} => worker'[v].lines # <<>>
        BY <2>7, <3>1, <3>3, GotoType DEF Handler, Phases
      <4>2. seen' = [seen EXCEPT ![unitOf(w)][Head(worker[w].lines)] = @ + 1]
        BY <2>7, <3>3 DEF Handler
      <4>3. seen' \in [Units -> [Devices -> Nat]]
        BY <2>0, <3>2, <4>2 DEF TypeOK
      <4>4. QED
        BY <2>7, <4>1, <4>3 DEF TypeOK, Handler
    <3>4. CASE ~bound[unitOf(w)]
      <4>1. /\ worker' \in [Workers -> Thread]
            /\ \A v \in Workers :
                 worker'[v].pc \in {"callback", "emit"} => worker'[v].lines # <<>>
        BY <2>7, <3>1, <3>4, NextLineType DEF Handler
      <4>2. QED
        BY <2>7, <3>4, <4>1 DEF TypeOK, Handler
    <3>5. QED
      BY <3>3, <3>4
  <2>8. CASE Emit(w)
    <3>1. worker[w].lines # <<>> /\ worker[w].lines \in Seq(Devices)
      BY <2>8 DEF TypeOK, Emit, At, Thread
    <3>2. Head(worker[w].lines) \in Devices
      BY <3>1, HeadTailProperties
    <3>3. QED
      BY <2>0, <2>8, <3>1, <3>2, NextLineType DEF TypeOK, Emit
  <2>9. CASE Close(w)
    BY <2>0, <2>9, GotoType DEF TypeOK, Close, Phases
  <2>10. CASE End(w)
    BY <2>0, <2>10, GotoType DEF TypeOK, End, Phases
  <2>11. QED
    BY <1>8, <2>1, <2>2, <2>3, <2>4, <2>5, <2>6, <2>7, <2>8, <2>9, <2>10 DEF WorkerStep
<1>9. CASE UNCHANGED scanVars
  BY <1>9 DEF TypeOK, scanVars
<1>10. QED
  BY <1>1, <1>2, <1>3, <1>4, <1>5, <1>6, <1>7, <1>8, <1>9 DEF Next

-----------------------------------------------------------------------------
(* The inductive invariant.                                                 *)

\* A thread that moves to a phase changes nothing else of any thread.
LEMMA GotoFields ==
    ASSUME TypeOK, NEW w \in Workers, NEW phase \in Phases, Goto(w, phase)
    PROVE  \A v \in Workers :
             /\ worker'[v].pc = IF v = w THEN phase ELSE worker[v].pc
             /\ worker'[v].unit = worker[v].unit
             /\ worker'[v].broken = worker[v].broken
             /\ worker'[v].lines = worker[v].lines
BY DEF TypeOK, Goto, Thread

\* The end of a line leads back to the loop or to the next line.
LEMMA NextLineFields ==
    ASSUME TypeOK, NEW w \in Workers, NextLine(w)
    PROVE  /\ worker'[w].pc \in {"reading", "callback"}
           /\ worker'[w].unit = worker[w].unit
           /\ worker'[w].broken = worker[w].broken
           /\ \A v \in Workers : v # w => worker'[v] = worker[v]
<1>1. worker[w] \in Thread
  BY DEF TypeOK
<1>2. worker' = [worker EXCEPT ![w] =
                    [worker[w] EXCEPT !.lines = Tail(worker[w].lines),
                        !.pc = IF Tail(worker[w].lines) = <<>> THEN "reading" ELSE "callback"]]
  BY <1>1 DEF NextLine, TypeOK, Thread
<1>3. QED
  BY <1>1, <1>2 DEF TypeOK, Thread

\* What IInv says of threads, flags, ports and taps.
Struct ==
    /\ ThreadsOwned
    /\ FlagHasThread
    /\ NotScanningMeansQuiet
    /\ PortFollowsThread
    /\ TapFollowsThread

\* The initial state satisfies the structural invariant.
LEMMA StructInit == Init => Struct
<1> SUFFICES ASSUME Init PROVE Struct
  OBVIOUS
<1>1. \A w \in Workers : worker[w].pc = "unused"
  BY UnusedType DEF Init
<1>2. ThreadsOwned /\ FlagHasThread
  BY <1>1 DEF Init, ThreadsOwned, FlagHasThread, At
<1>3. NotScanningMeansQuiet
  BY <1>1 DEF NotScanningMeansQuiet, Live
<1>4. /\ \A u \in Units : port[u] = {} /\ ~tap[u]
      /\ \A w \in Workers : worker[w].pc # "enabling"
  BY <1>1 DEF Init
<1>5. PortFollowsThread
  BY <1>1, <1>4 DEF PortFollowsThread
<1>6. TapFollowsThread
  BY <1>4, ScannerAssumption DEF At, TapFollowsThread
<1>7. QED
  BY <1>2, <1>3, <1>5, <1>6 DEF Struct

\* Owners and users of a transport are threads, of units there are.
LEMMA Owners ==
    ASSUME TypeOK, ThreadsOwned
    PROVE  /\ \A w \in Workers : unitOf(w) \in Units
           /\ \A u \in Units : jthread[u] # NoWorker => jthread[u] \in Workers
           /\ \A u \in Units : \A w \in port[u] : w \in Workers
BY DEF TypeOK, Thread, unitOf

\* The calls up to a join, and a lost link, keep the structural invariant.
LEMMA StructCalls ==
    ASSUME TypeOK, Struct, NEW u \in Units,
           \/ Bind(u)
           \/ LinkLost(u) \/ BoardResets(u)
           \/ \E w \in Workers : StartScan(u, w)
           \/ \E t \in Callers : StopBegin(t, u) \/ UnbindBegin(t, u)
    PROVE  Struct'
<1> USE ScannerAssumption, FreeAssumption
<1>0. /\ \A w \in Workers : unitOf(w) \in Units
      /\ \A x \in Units : jthread[x] # NoWorker => jthread[x] \in Workers
      /\ \A x \in Units : \A w \in port[x] : w \in Workers
  BY Owners DEF Struct
<1>1. CASE Bind(u)
  BY <1>1 DEF TypeOK, Bind, Struct, ThreadsOwned, FlagHasThread, NotScanningMeansQuiet,
              PortFollowsThread, TapFollowsThread, Served, At, Live, unitOf, Joining
<1>2. CASE LinkLost(u) \/ BoardResets(u)
  <2>1. \A v \in Workers :
           /\ worker'[v].pc = worker[v].pc
           /\ worker'[v].unit = worker[v].unit
           /\ v \notin port[u] => worker'[v].broken = worker[v].broken
           /\ v \in port[u] => worker'[v].broken
    BY <1>2, BreakLinksFields
  <2>2. UNCHANGED <<mutex, bound, scanning, jthread, port>>
    BY <1>2 DEF LinkLost, BoardResets
  <2>11. /\ \A x \in Units : x # u => tap'[x] = tap[x] /\ stray'[x] = stray[x]
         /\ tap'[u] => tap[u] /\ stray'[u]
    <3>1. CASE LinkLost(u)
      BY <3>1 DEF TypeOK, LinkLost
    <3>2. CASE BoardResets(u)
      <4>1. tap' = [tap EXCEPT ![u] = FALSE] /\ stray' = [stray EXCEPT ![u] = FALSE]
        BY <3>2 DEF BoardResets
      <4>2. ~tap'[u]
        BY <4>1 DEF TypeOK
      <4>3. ASSUME NEW x \in Units, x # u PROVE tap'[x] = tap[x] /\ stray'[x] = stray[x]
        BY <4>1, <4>3 DEF TypeOK
      <4>4. QED
        BY <4>2, <4>3
    <3>3. QED
      BY <1>2, <3>1, <3>2
  <2>3. ThreadsOwned'
    BY <1>0, <2>1, <2>2 DEF Struct, ThreadsOwned, At, unitOf
  <2>4. FlagHasThread'
    BY <2>1, <2>2 DEF TypeOK, Struct, FlagHasThread, Live
  <2>5. NotScanningMeansQuiet'
    BY <2>1, <2>2 DEF TypeOK, Struct, NotScanningMeansQuiet, Live, unitOf, Joining
  <2>6. PortFollowsThread'
    BY <2>1, <2>2 DEF TypeOK, Struct, PortFollowsThread, unitOf
  <2>7. ASSUME NEW x \in Units
        PROVE  /\ tap'[x] => /\ x \in WireTapUnits
                             /\ stray'[x] \/ \E w \in port'[x] : Served(w)'
               /\ x \in WireTapUnits => \A w \in port'[x] : Served(w)' => tap'[x]
    <3>1. /\ tap[x] => x \in WireTapUnits /\ (stray[x] \/ \E w \in port[x] : Served(w))
          /\ x \in WireTapUnits => \A w \in port[x] : Served(w) => tap[x]
      BY DEF Struct, TapFollowsThread
    <3>2. port'[x] = port[x] /\ \A w \in port[x] : w \in Workers
      BY <1>0, <2>2
    <3>3. CASE x = u
      <4>1. \A w \in port'[x] : ~Served(w)'
        <5>1. \A w \in port[x] : worker'[w].broken
          BY <2>1, <3>2, <3>3
        <5>2. QED
          BY <3>2, <5>1 DEF Served
      <4>2. tap'[x] => x \in WireTapUnits /\ stray'[x]
        BY <2>11, <3>1, <3>3
      <4>3. QED
        BY <4>1, <4>2
    <3>4. CASE x # u
      <4>1. \A w \in port[x] : w \in Workers /\ w \notin port[u]
        BY <3>2, <3>4 DEF Struct, PortFollowsThread
      <4>2. \A w \in port[x] : Served(w)' <=> Served(w)
        BY <2>1, <4>1 DEF Served, At
      <4>3. tap'[x] = tap[x] /\ stray'[x] = stray[x]
        BY <2>11, <3>4
      <4>4. QED
        BY <3>1, <3>2, <4>2, <4>3
    <3>5. QED
      BY <3>3, <3>4
  <2>8. \A w \in Workers : At(w, "enabling")' => unitOf(w)' \in WireTapUnits
    BY <2>1 DEF Struct, TapFollowsThread, At, unitOf
  <2>9. TapFollowsThread'
    BY <2>7, <2>8, ScannerAssumption DEF TapFollowsThread
  <2>10. QED
    BY <2>3, <2>4, <2>5, <2>6, <2>9 DEF Struct
<1>3. ASSUME NEW w \in Workers, StartScan(u, w) PROVE Struct'
  <2>1. /\ NewThread("opening", u).pc = "opening"
        /\ NewThread("opening", u).unit = u
    BY DEF NewThread
  <2>2. /\ UNCHANGED <<mutex, bound, port, tap, stray>>
        /\ scanning' = [scanning EXCEPT ![u] = TRUE]
        /\ jthread' = [jthread EXCEPT ![u] = w]
        /\ mutex = Free /\ bound[u] /\ Joined(jthread[u])
    BY <1>3 DEF StartScan
  <2>3. worker'[w] = NewThread("opening", u) /\ worker[w].pc = "unused"
    BY <1>3, ReapedType, UnusedType DEF TypeOK, StartScan
  <2>4. \A v \in Workers : v # w /\ v # jthread[u] => worker'[v] = worker[v]
    BY <1>3 DEF TypeOK, StartScan, Reaped
  <2>5. jthread[u] # NoWorker =>
           /\ worker'[jthread[u]].pc \in {"unused", "opening"}
           /\ jthread[u] # w => worker'[jthread[u]].pc = "unused"
           /\ ~Live(jthread[u])
    <3>1. CASE jthread[u] = NoWorker
      BY <3>1
    <3>2. CASE jthread[u] # NoWorker
      <4>1. jthread[u] \in Workers /\ ~Live(jthread[u])
        BY <2>2, <3>2 DEF TypeOK, Joined
      <4>2. worker' = [[worker EXCEPT ![jthread[u]] = Unused]
                            EXCEPT ![w] = NewThread("opening", u)]
        BY <1>3, <3>2, <4>1 DEF StartScan, Reaped
      <4>3. QED
        BY <2>1, <4>1, <4>2, UnusedType DEF TypeOK
    <3>3. QED
      BY <3>1, <3>2
  <2>6. \A v \in Workers : worker[v].pc # "unused" => jthread[unitOf(v)] = v
    BY DEF Struct, ThreadsOwned, At
  <2>7. \A x \in Units : jthread[x] # NoWorker =>
           /\ jthread[x] \in Workers
           /\ jthread[x] # w
           /\ unitOf(jthread[x]) = x
           /\ worker[jthread[x]].pc # "unused"
           /\ x # u => worker'[jthread[x]] = worker[jthread[x]]
    BY <2>3, <2>4 DEF TypeOK, Struct, ThreadsOwned, At, unitOf
  <2>8. \A v \in Workers : v # w /\ worker'[v].pc # "unused" =>
           worker'[v] = worker[v] /\ worker[v].unit # u
    BY <2>4, <2>5, <2>6, <2>7 DEF unitOf
  <2>9. \A v \in Workers : worker[v].unit \in Units
    BY DEF TypeOK, Thread
  <2>10. ThreadsOwned'
    <3>1. ASSUME NEW v \in Workers, worker'[v].pc # "unused"
          PROVE  jthread'[worker'[v].unit] = v
      <4>1. CASE v = w
        BY <2>1, <2>2, <2>3, <4>1 DEF TypeOK
      <4>2. CASE v # w
        <5>1. worker'[v] = worker[v] /\ worker[v].unit # u /\ worker[v].unit \in Units
          BY <2>8, <2>9, <3>1, <4>2
        <5>2. jthread[worker[v].unit] = v
          BY <2>6, <3>1, <5>1 DEF unitOf
        <5>3. QED
          BY <2>2, <5>1, <5>2 DEF TypeOK
      <4>3. QED
        BY <4>1, <4>2
    <3>2. ASSUME NEW x \in Units, jthread'[x] # NoWorker
          PROVE  /\ bound'[x]
                 /\ worker'[jthread'[x]].unit = x
                 /\ worker'[jthread'[x]].pc # "unused"
      <4>1. CASE x = u
        BY <2>1, <2>2, <2>3, <4>1 DEF TypeOK
      <4>2. CASE x # u
        <5>1. jthread'[x] = jthread[x] /\ bound'[x] = bound[x]
          BY <2>2, <4>2 DEF TypeOK
        <5>2. QED
          BY <2>7, <3>2, <4>2, <5>1 DEF Struct, ThreadsOwned, unitOf
      <4>3. QED
        BY <4>1, <4>2
    <3>3. QED
      BY <3>1, <3>2 DEF ThreadsOwned, At, unitOf
  <2>11. FlagHasThread'
    BY <2>1, <2>2, <2>3, <2>7 DEF TypeOK, Struct, FlagHasThread, Live
  <2>12. NotScanningMeansQuiet'
    <3>1. ASSUME NEW v \in Workers, worker'[v].pc \notin {"unused", "ended"}
          PROVE  scanning'[worker'[v].unit]
      <4>1. CASE v = w
        BY <2>1, <2>2, <2>3, <4>1 DEF TypeOK
      <4>2. CASE v # w
        <5>1. worker'[v] = worker[v] /\ worker[v].unit # u /\ worker[v].unit \in Units
          BY <2>8, <2>9, <3>1, <4>2
        <5>2. scanning[worker[v].unit]
          BY <2>2, <3>1, <5>1 DEF Struct, NotScanningMeansQuiet, Live, unitOf, Joining
        <5>3. QED
          BY <2>2, <5>1, <5>2 DEF TypeOK
      <4>3. QED
        BY <4>1, <4>2
    <3>2. QED
      BY <3>1 DEF NotScanningMeansQuiet, Live, unitOf
  <2>13. \A x \in Units : \A v \in port[x] :
            v \in Workers /\ v # w /\ worker'[v] = worker[v]
    <3>1. SUFFICES ASSUME NEW x \in Units, NEW v \in port[x]
                   PROVE  v \in Workers /\ v # w /\ worker'[v] = worker[v]
      OBVIOUS
    <3>2. /\ v \in Workers /\ unitOf(v) = x
          /\ worker[v].pc \in {"enabling", "reading", "callback", "emit", "closing"}
      BY DEF TypeOK, Struct, PortFollowsThread
    <3>3. v # w /\ jthread[x] = v
      BY <2>3, <2>6, <3>2
    <3>4. v # jthread[u]
      BY <2>5, <3>2, <3>3 DEF Live
    <3>5. QED
      BY <2>4, <3>2, <3>3, <3>4
  <2>14. PortFollowsThread'
    BY <2>1, <2>2, <2>3, <2>8, <2>13 DEF Struct, PortFollowsThread, unitOf
  <2>15. TapFollowsThread'
    BY <2>1, <2>2, <2>3, <2>8, <2>13 DEF Struct, TapFollowsThread, Served, At, unitOf
  <2>16. QED
    BY <2>10, <2>11, <2>12, <2>14, <2>15 DEF Struct
<1>4. ASSUME NEW t \in Callers, StopBegin(t, u) \/ UnbindBegin(t, u) PROVE Struct'
  <2>1. \A v \in Workers : /\ worker'[v].pc = worker[v].pc
                           /\ worker'[v].unit = worker[v].unit
                           /\ worker'[v].broken = worker[v].broken
    BY <1>4, RequestStopType DEF StopBegin, UnbindBegin
  <2>2. /\ bound[u]
        /\ mutex = Free
        /\ mutex'.unit = u
        /\ mutex' \in Joins
        /\ scanning' = [scanning EXCEPT ![u] = FALSE]
        /\ UNCHANGED <<bound, jthread, port, tap, stray>>
    BY <1>4 DEF StopBegin, UnbindBegin, Joins
  <2>3. ThreadsOwned'
    BY <1>0, <2>1, <2>2 DEF Struct, ThreadsOwned, At, unitOf
  <2>4. FlagHasThread'
    BY <2>1, <2>2 DEF TypeOK, Struct, FlagHasThread, Live
  <2>5. NotScanningMeansQuiet'
    <3>1. ASSUME NEW v \in Workers, Live(v) PROVE scanning'[unitOf(v)] \/ unitOf(v) = u
      BY <1>0, <2>2, <3>1 DEF TypeOK, Struct, NotScanningMeansQuiet, Joining
    <3>2. mutex' # Free
      BY <2>2
    <3>3. \A v \in Workers : (Live(v)' <=> Live(v)) /\ unitOf(v)' = unitOf(v)
      BY <2>1 DEF Live, unitOf
    <3>4. QED
      BY <2>2, <3>1, <3>2, <3>3 DEF NotScanningMeansQuiet, Joining
  <2>6. PortFollowsThread' /\ TapFollowsThread'
    BY <1>0, <2>1, <2>2 DEF Struct, PortFollowsThread, TapFollowsThread, Served, unitOf, At
  <2>7. QED
    BY <2>3, <2>4, <2>5, <2>6 DEF Struct
<1>5. QED
  BY <1>1, <1>2, <1>3, <1>4

\* The join returns: the joined unit has no thread left.
LEMMA StructJoins ==
    ASSUME TypeOK, Struct, StopEnd \/ UnbindEnd
    PROVE  /\ Struct'
           /\ mutex.unit \in Units
           /\ \A v \in Workers : unitOf(v) = mutex.unit => ~Live(v)
           /\ \A v \in Workers : unitOf(v) # mutex.unit => worker'[v] = worker[v]
           /\ \A v \in Workers : worker'[v] \in {worker[v], Unused}
<1> USE ScannerAssumption, FreeAssumption
<1> DEFINE u == mutex.unit
<1>0. /\ \A w \in Workers : unitOf(w) \in Units
      /\ \A x \in Units : jthread[x] # NoWorker => jthread[x] \in Workers
      /\ \A x \in Units : \A w \in port[x] : w \in Workers
  BY Owners DEF Struct
<1>1. /\ mutex # Free /\ mutex' = Free
      /\ Joined(jthread[u])
      /\ jthread' = [jthread EXCEPT ![u] = NoWorker]
      /\ worker' = Reaped(jthread[u])
      /\ UNCHANGED <<scanning, port, tap, stray>>
      /\ bound' = bound \/ bound' = [bound EXCEPT ![u] = FALSE]
  BY DEF StopEnd, UnbindEnd, JoinReturns
<1>2. u \in Units /\ ~scanning[u]
  BY <1>1 DEF TypeOK, Joins, Struct, FlagHasThread
<1> HIDE DEF u
<1>3. \A v \in Workers : worker[v].pc # "unused" => jthread[unitOf(v)] = v
  BY DEF Struct, ThreadsOwned, At
<1>4. \A v \in Workers : v # jthread[u] => worker'[v] = worker[v]
  BY <1>1, <1>2 DEF TypeOK, Reaped
<1>5. jthread[u] # NoWorker => ~Live(jthread[u]) /\ worker'[jthread[u]] = Unused
  BY <1>0, <1>1, <1>2 DEF TypeOK, Reaped, Joined
<1>6. \A v \in Workers : unitOf(v) = u => ~Live(v)
  <2>1. SUFFICES ASSUME NEW v \in Workers, unitOf(v) = u, Live(v) PROVE FALSE
    OBVIOUS
  <2>2. jthread[u] = v
    BY <1>3, <2>1 DEF Live
  <2>3. QED
    BY <1>5, <2>1, <2>2
<1>7. \A x \in Units : jthread[x] # NoWorker =>
         bound[x] /\ unitOf(jthread[x]) = x /\ worker[jthread[x]].pc # "unused"
  BY DEF Struct, ThreadsOwned, At
<1>8. \A v \in Workers : unitOf(v) # u => worker'[v] = worker[v]
  BY <1>0, <1>2, <1>4, <1>7
<1>9. \A v \in Workers : worker'[v] \in {worker[v], Unused}
  BY <1>4, <1>5
<1>10. \A v \in Workers : worker'[v].pc # "unused" =>
          worker'[v] = worker[v] /\ unitOf(v) # u
  <2>1. SUFFICES ASSUME NEW v \in Workers, worker'[v].pc # "unused"
                 PROVE  worker'[v] = worker[v] /\ unitOf(v) # u
    OBVIOUS
  <2>2. v # jthread[u]
    BY <1>5, <2>1, UnusedType
  <2>3. worker'[v] = worker[v] /\ jthread[unitOf(v)] = v
    BY <1>3, <1>4, <2>1, <2>2
  <2>4. QED
    BY <2>2, <2>3
<1>11. ThreadsOwned'
  <2>1. ASSUME NEW v \in Workers, worker'[v].pc # "unused"
        PROVE  jthread'[worker'[v].unit] = v
    <3>1. worker'[v] = worker[v] /\ unitOf(v) # u /\ unitOf(v) \in Units
      BY <1>0, <1>10, <2>1
    <3>2. jthread[unitOf(v)] = v
      BY <1>3, <2>1, <3>1
    <3>3. QED
      BY <1>1, <3>1, <3>2 DEF TypeOK, unitOf
  <2>2. ASSUME NEW x \in Units, jthread'[x] # NoWorker
        PROVE  /\ bound'[x]
               /\ worker'[jthread'[x]].unit = x
               /\ worker'[jthread'[x]].pc # "unused"
    <3>1. x # u /\ jthread'[x] = jthread[x]
      BY <1>1, <1>2, <2>2 DEF TypeOK
    <3>2. bound'[x] = bound[x]
      BY <1>1, <3>1 DEF TypeOK
    <3>3. worker'[jthread[x]] = worker[jthread[x]]
      BY <1>0, <1>7, <1>8, <2>2, <3>1
    <3>4. QED
      BY <1>7, <2>2, <3>1, <3>2, <3>3 DEF unitOf
  <2>3. QED
    BY <2>1, <2>2 DEF ThreadsOwned, At, unitOf
<1>12. FlagHasThread'
  <2>1. ASSUME NEW x \in Units, scanning'[x]
        PROVE  jthread'[x] # NoWorker /\ worker'[jthread'[x]].pc \notin {"unused", "ended"}
    <3>1. scanning[x] /\ x # u
      BY <1>1, <1>2, <2>1
    <3>2. jthread[x] # NoWorker /\ Live(jthread[x])
      BY <3>1 DEF Struct, FlagHasThread
    <3>3. jthread'[x] = jthread[x] /\ worker'[jthread[x]] = worker[jthread[x]]
      BY <1>0, <1>1, <1>7, <1>8, <3>1, <3>2 DEF TypeOK
    <3>4. QED
      BY <3>2, <3>3 DEF Live
  <2>2. QED
    BY <1>1, <2>1 DEF FlagHasThread, Live
<1>13. NotScanningMeansQuiet'
  <2>1. ASSUME NEW v \in Workers, worker'[v].pc \notin {"unused", "ended"}
        PROVE  scanning'[worker'[v].unit]
    <3>1. worker'[v] = worker[v] /\ unitOf(v) # u
      BY <1>10, <2>1
    <3>2. QED
      BY <1>1, <2>1, <3>1 DEF Struct, NotScanningMeansQuiet, Live, unitOf, Joining, u
  <2>2. QED
    BY <2>1 DEF NotScanningMeansQuiet, Live, unitOf
<1>14. \A x \in Units : \A v \in port[x] : v \in Workers /\ worker'[v] = worker[v]
  <2>1. SUFFICES ASSUME NEW x \in Units, NEW v \in port[x]
                 PROVE  v \in Workers /\ worker'[v] = worker[v]
    OBVIOUS
  <2>2. v \in Workers /\ unitOf(v) = x /\ Live(v)
    BY <1>0 DEF Struct, PortFollowsThread, Live
  <2>3. QED
    BY <1>6, <1>8, <2>2
<1>15. PortFollowsThread' /\ TapFollowsThread'
  BY <1>1, <1>10, <1>14 DEF Struct, PortFollowsThread, TapFollowsThread, Served, unitOf, At
<1>16. QED
  BY <1>2, <1>6, <1>8, <1>9, <1>11, <1>12, <1>13, <1>15 DEF Struct, u

\* What every step of a worker leaves alone: the calls, the entries, the owners,
\* the other threads.  The flag is lowered with the thread's last step, and only then.
LEMMA WorkerFrame ==
    ASSUME TypeOK, NEW w \in Workers, WorkerStep(w)
    PROVE  /\ UNCHANGED <<mutex, bound, jthread>>
           /\ \A v \in Workers : v # w => worker'[v].pc = worker[v].pc
                                          /\ worker'[v].lines = worker[v].lines
           /\ \A v \in Workers : worker'[v].unit = worker[v].unit
                                 /\ worker'[v].broken = worker[v].broken
           /\ Live(w)
           /\ worker'[w].pc # "unused"
           /\ \/ worker'[w].pc # "ended" /\ UNCHANGED scanning
              \/ /\ worker'[w].pc = "ended"
                 /\ scanning' = [scanning EXCEPT ![unitOf(w)] = FALSE]
<1>1. CASE Open(w)
  BY <1>1, GotoFields DEF Open, Phases, At, Live
<1>2. CASE OpenFails(w)
  BY <1>2, GotoFields DEF OpenFails, Phases, At, Live
<1>3. CASE EnableTap(w)
  BY <1>3, GotoFields DEF EnableTap, Phases, At, Live
<1>4. CASE EnableTapFails(w)
  BY <1>4, GotoFields DEF EnableTapFails, Phases, At, Live
<1>5. CASE Read(w)
  <2>1. PICK chunk \in Chunks :
          worker' = [worker EXCEPT ![w].pc = "callback", ![w].lines = chunk]
    BY <1>5 DEF Read
  <2>2. worker[w] \in Thread
    BY DEF TypeOK
  <2>3. worker' = [worker EXCEPT ![w] = [worker[w] EXCEPT !.pc = "callback", !.lines = chunk]]
    BY <2>1, <2>2 DEF TypeOK
  <2>4. /\ worker'[w].pc = "callback"
        /\ worker'[w].unit = worker[w].unit
        /\ worker'[w].broken = worker[w].broken
        /\ \A v \in Workers : v # w => worker'[v] = worker[v]
    BY <2>2, <2>3 DEF TypeOK, Thread
  <2>5. QED
    BY <1>5, <2>4 DEF Read, At, Live
<1>6. CASE LeaveLoop(w)
  BY <1>6, GotoFields DEF LeaveLoop, Phases, At, Live
<1>7. CASE Handler(w)
  <2>1. CASE bound[unitOf(w)]
    BY <1>7, <2>1, GotoFields DEF Handler, Phases, At, Live
  <2>2. CASE ~bound[unitOf(w)]
    BY <1>7, <2>2, NextLineFields DEF Handler, At, Live
  <2>3. QED
    BY <2>1, <2>2
<1>8. CASE Emit(w)
  BY <1>8, NextLineFields DEF Emit, At, Live
<1>9. CASE Close(w)
  BY <1>9, GotoFields DEF Close, Phases, At, Live
<1>10. CASE End(w)
  BY <1>10, GotoFields DEF End, Phases, At, Live
<1>11. QED
  BY <1>1, <1>2, <1>3, <1>4, <1>5, <1>6, <1>7, <1>8, <1>9, <1>10 DEF WorkerStep

\* What a step of w, a worker of unit u, does to its transport and its tap.
PortStep(w, u) ==
    \/ /\ port' = [port EXCEPT ![u] = port[u] \cup {w}]
       /\ UNCHANGED <<tap, stray>>
       /\ worker[w].pc = "opening"
       /\ \/ worker'[w].pc = "enabling" /\ u \in WireTapUnits
          \/ worker'[w].pc = "reading" /\ u \notin WireTapUnits
    \/ /\ port' = [port EXCEPT ![u] = port[u] \ {w}]
       /\ UNCHANGED <<tap, stray>>
       /\ worker'[w].pc = "ending"
       /\ worker[w].broken \/ u \notin WireTapUnits
    \/ /\ port' = [port EXCEPT ![u] = port[u] \ {w}]
       /\ worker'[w].pc = "ending"
       /\ tap' = [tap EXCEPT ![u] = FALSE]
       /\ stray' = [stray EXCEPT ![u] = FALSE]
    \/ /\ UNCHANGED port
       /\ tap' = [tap EXCEPT ![u] = TRUE]
       /\ stray' = [stray EXCEPT ![u] = FALSE]
       /\ worker[w].pc = "enabling"
       /\ ~worker[w].broken
       /\ worker'[w].pc = "reading"
    \/ /\ UNCHANGED <<port, tap, stray>>
       /\ worker[w].pc \in {"reading", "callback", "emit"}
       /\ worker'[w].pc \in {"reading", "callback", "emit", "closing"}
    \/ /\ UNCHANGED <<port, tap, stray>>
       /\ worker[w].pc \in {"opening", "ending"}
       /\ worker'[w].pc = "ended"

\* A worker's step adds it to its unit's port when it opens the transport, removes
\* it when it closes it, and touches no other unit's port or tap.
LEMMA WorkerPort ==
    ASSUME TypeOK, NEW w \in Workers, WorkerStep(w)
    PROVE  PortStep(w, unitOf(w))
<1> USE DEF PortStep
<1>1. CASE Open(w)
  BY <1>1, GotoFields DEF Open, Phases, At
<1>2. CASE OpenFails(w)
  BY <1>2, GotoFields DEF OpenFails, Phases, At
<1>3. CASE EnableTap(w)
  BY <1>3, GotoFields DEF EnableTap, Phases, At
<1>4. CASE EnableTapFails(w)
  BY <1>4, GotoFields DEF EnableTapFails, Phases, At
<1>5. CASE Read(w)
  <2>1. PICK chunk \in Chunks :
          worker' = [worker EXCEPT ![w].pc = "callback", ![w].lines = chunk]
    BY <1>5 DEF Read
  <2>2. worker[w] \in Thread
    BY DEF TypeOK
  <2>3. worker' = [worker EXCEPT ![w] = [worker[w] EXCEPT !.pc = "callback", !.lines = chunk]]
    BY <2>1, <2>2 DEF TypeOK
  <2>4. worker'[w].pc = "callback"
    BY <2>2, <2>3 DEF TypeOK, Thread
  <2>5. QED
    BY <1>5, <2>4 DEF Read, At
<1>6. CASE LeaveLoop(w)
  BY <1>6, GotoFields DEF LeaveLoop, Phases, At
<1>7. CASE Handler(w)
  <2>1. CASE bound[unitOf(w)]
    BY <1>7, <2>1, GotoFields DEF Handler, Phases, At
  <2>2. CASE ~bound[unitOf(w)]
    BY <1>7, <2>2, NextLineFields DEF Handler, At
  <2>3. QED
    BY <2>1, <2>2
<1>8. CASE Emit(w)
  BY <1>8, NextLineFields DEF Emit, At
<1>9. CASE Close(w)
  BY <1>9, GotoFields DEF Close, Phases
<1>10. CASE End(w)
  BY <1>10, GotoFields DEF End, Phases, At
<1>11. QED
  BY <1>1, <1>2, <1>3, <1>4, <1>5, <1>6, <1>7, <1>8, <1>9, <1>10 DEF WorkerStep

\* A worker's step keeps the structural invariant.
LEMMA StructWorker ==
    ASSUME TypeOK, Struct, NEW w \in Workers, WorkerStep(w)
    PROVE  Struct'
<1> USE ScannerAssumption, FreeAssumption
<1> DEFINE u == unitOf(w)
<1>0. /\ \A v \in Workers : unitOf(v) \in Units
      /\ \A x \in Units : jthread[x] # NoWorker => jthread[x] \in Workers
      /\ \A x \in Units : \A v \in port[x] : v \in Workers
  BY Owners DEF Struct
<1>1. /\ UNCHANGED <<mutex, bound, jthread>>
      /\ \A v \in Workers : v # w => worker'[v].pc = worker[v].pc
      /\ \A v \in Workers : worker'[v].unit = worker[v].unit
                            /\ worker'[v].broken = worker[v].broken
      /\ Live(w)
      /\ worker'[w].pc # "unused"
      /\ \/ worker'[w].pc # "ended" /\ UNCHANGED scanning
         \/ /\ worker'[w].pc = "ended"
            /\ scanning' = [scanning EXCEPT ![u] = FALSE]
  BY WorkerFrame
<1>2. u \in Units /\ jthread[u] = w /\ w # NoWorker
  BY <1>0, <1>1 DEF Struct, ThreadsOwned, At, Live
<1>p. PortStep(w, u) /\ unitOf(w) = u
  BY WorkerPort
<1> HIDE DEF u
<1>3. \A v \in Workers : unitOf(v) = u /\ worker[v].pc # "unused" => v = w
  BY <1>2 DEF Struct, ThreadsOwned, At
<1>4. ThreadsOwned'
  BY <1>0, <1>1, <1>2 DEF Struct, ThreadsOwned, At, Live, unitOf, u
<1>5. FlagHasThread'
  <2>1. ASSUME NEW x \in Units, scanning'[x]
        PROVE  jthread[x] # NoWorker /\ worker'[jthread[x]].pc \notin {"unused", "ended"}
    <3>1. scanning[x]
      BY <1>1, <1>2, <2>1 DEF TypeOK
    <3>2. jthread[x] # NoWorker /\ Live(jthread[x])
      BY <3>1 DEF Struct, FlagHasThread
    <3>3. CASE jthread[x] = w
      <4>1. x = u
        BY <1>0, <3>2, <3>3 DEF Struct, ThreadsOwned, u
      <4>2. QED
        BY <1>1, <1>2, <2>1, <3>2, <3>3, <4>1 DEF TypeOK
    <3>4. CASE jthread[x] # w
      BY <1>0, <1>1, <3>2, <3>4 DEF Live
    <3>5. QED
      BY <3>3, <3>4
  <2>2. mutex' # Free => bound'[mutex'.unit] /\ ~scanning'[mutex'.unit]
    BY <1>1, <1>2 DEF TypeOK, Joins, Struct, FlagHasThread
  <2>3. QED
    BY <1>1, <2>1, <2>2 DEF FlagHasThread, Live
<1>6. NotScanningMeansQuiet'
  <2>1. ASSUME NEW v \in Workers, worker'[v].pc \notin {"unused", "ended"}
        PROVE  scanning'[unitOf(v)] \/ Joining(unitOf(v))
    <3>1. Live(v)
      BY <1>1, <2>1 DEF Live
    <3>2. scanning[unitOf(v)] \/ Joining(unitOf(v))
      BY <3>1 DEF Struct, NotScanningMeansQuiet
    <3>3. worker'[w].pc = "ended" => unitOf(v) # u
      BY <1>3, <2>1, <3>1 DEF Live
    <3>4. QED
      BY <1>0, <1>1, <1>2, <3>2, <3>3 DEF TypeOK
  <2>2. QED
    BY <1>1, <2>1 DEF NotScanningMeansQuiet, Live, unitOf, Joining
<1>7. \A x \in Units : \A v \in Workers :
        v \in port[x] <=>
           /\ unitOf(v) = x
           /\ worker[v].pc \in {"enabling", "reading", "callback", "emit", "closing"}
  BY DEF Struct, PortFollowsThread
<1>8. \A v \in port[u] : v = w
  BY <1>0, <1>2, <1>3, <1>7
<1>9. ASSUME NEW x \in Units, x # u
      PROVE  /\ port'[x] = port[x] /\ tap'[x] = tap[x] /\ stray'[x] = stray[x]
             /\ \A v \in port[x] : v \in Workers /\ v # w /\ worker'[v].pc = worker[v].pc
  <2>1. port'[x] = port[x] /\ tap'[x] = tap[x] /\ stray'[x] = stray[x]
    BY <1>2, <1>9, <1>p DEF TypeOK, PortStep
  <2>2. \A v \in port[x] : v \in Workers /\ v # w
    BY <1>0, <1>7, <1>9, <1>p
  <2>3. QED
    BY <1>1, <2>1, <2>2
<1>10. PortFollowsThread'
  <2>1. ASSUME NEW x \in Units, NEW v \in Workers
        PROVE  v \in port'[x] <=>
                 /\ unitOf(v) = x
                 /\ worker'[v].pc \in {"enabling", "reading", "callback", "emit", "closing"}
    <3>1. CASE v = w /\ x = u
      BY <1>2, <1>7, <3>1, <1>p DEF TypeOK, PortStep
    <3>2. CASE v # w /\ x = u
      <4>1. v \in port'[u] <=> v \in port[u]
        BY <1>2, <3>2, <1>p DEF TypeOK, PortStep
      <4>2. QED
        BY <1>1, <1>2, <1>7, <1>p, <3>2, <4>1
    <3>3. CASE x # u
      BY <1>1, <1>7, <1>9, <1>p, <3>3
    <3>4. QED
      BY <3>1, <3>2, <3>3
  <2>2. QED
    BY <1>1, <2>1 DEF PortFollowsThread, unitOf
<1>11. TapFollowsThread'
  <2>1. \A x \in Units : tap[x] =>
          x \in WireTapUnits /\ (stray[x] \/ \E v \in port[x] : Served(v))
    BY DEF Struct, TapFollowsThread
  <2>2. \A x \in WireTapUnits : \A v \in port[x] : Served(v) => tap[x]
    BY DEF Struct, TapFollowsThread
  <2>3. \A v \in Workers : worker[v].pc = "enabling" => unitOf(v) \in WireTapUnits
    BY DEF Struct, TapFollowsThread, At
  <2>4. \A v \in Workers : worker'[v].pc = "enabling" => unitOf(v) \in WireTapUnits
    BY <1>1, <1>p, <2>3 DEF PortStep
  <2>5. \A v \in Workers : v # w => (Served(v)' <=> Served(v))
    BY <1>1 DEF Served, At
  <2>6. ASSUME NEW x \in Units, x # u
        PROVE  /\ tap'[x] => /\ x \in WireTapUnits
                             /\ stray'[x] \/ \E v \in port'[x] : Served(v)'
               /\ x \in WireTapUnits => \A v \in port'[x] : Served(v)' => tap'[x]
    BY <1>9, <2>1, <2>2, <2>5, <2>6
  <2>7. /\ tap'[u] => u \in WireTapUnits /\ (stray'[u] \/ \E v \in port'[u] : Served(v)')
        /\ u \in WireTapUnits => \A v \in port'[u] : Served(v)' => tap'[u]
    <3>1. /\ w \in port[u] <=>
               worker[w].pc \in {"enabling", "reading", "callback", "emit", "closing"}
          /\ tap[u] => u \in WireTapUnits /\ (stray[u] \/ (w \in port[u] /\ Served(w)))
          /\ u \in WireTapUnits /\ w \in port[u] /\ Served(w) => tap[u]
      BY <1>2, <1>7, <1>8, <1>p, <2>1, <2>2
    <3>2. /\ \A v \in port'[u] : v = w
          /\ tap[u] \in BOOLEAN /\ stray[u] \in BOOLEAN
      BY <1>2, <1>8, <1>p DEF TypeOK, PortStep
    <3>3. /\ Served(w) <=> worker[w].pc # "enabling" /\ ~worker[w].broken
          /\ Served(w)' <=> worker'[w].pc # "enabling" /\ ~worker[w].broken
      BY <1>1 DEF Served, At
    <3>4. CASE /\ port' = [port EXCEPT ![u] = port[u] \cup {w}]
               /\ UNCHANGED <<tap, stray>>
               /\ worker[w].pc = "opening"
               /\ \/ worker'[w].pc = "enabling" /\ u \in WireTapUnits
                  \/ worker'[w].pc = "reading" /\ u \notin WireTapUnits
      BY <3>1, <3>2, <3>3, <3>4
    <3>5. CASE /\ port' = [port EXCEPT ![u] = port[u] \ {w}]
               /\ UNCHANGED <<tap, stray>>
               /\ worker'[w].pc = "ending"
               /\ worker[w].broken \/ u \notin WireTapUnits
      <4>1. port'[u] = {}
        BY <1>2, <1>8, <3>5 DEF TypeOK
      <4>2. QED
        BY <3>1, <3>3, <3>5, <4>1
    <3>6. CASE /\ port' = [port EXCEPT ![u] = port[u] \ {w}]
               /\ tap' = [tap EXCEPT ![u] = FALSE]
      <4>1. port'[u] = {} /\ ~tap'[u]
        BY <1>2, <1>8, <3>6 DEF TypeOK
      <4>2. QED
        BY <4>1
    <3>7. CASE /\ UNCHANGED port
               /\ tap' = [tap EXCEPT ![u] = TRUE]
               /\ worker[w].pc = "enabling"
               /\ ~worker[w].broken
               /\ worker'[w].pc = "reading"
      <4>1. tap'[u] /\ u \in WireTapUnits
        BY <1>2, <1>p, <2>3, <3>7 DEF TypeOK
      <4>2. w \in port'[u] /\ Served(w)'
        BY <3>1, <3>3, <3>7
      <4>3. QED
        BY <4>1, <4>2
    <3>8. CASE /\ UNCHANGED <<port, tap, stray>>
               /\ worker[w].pc \in {"reading", "callback", "emit"}
               /\ worker'[w].pc \in {"reading", "callback", "emit", "closing"}
      BY <3>1, <3>2, <3>3, <3>8
    <3>9. CASE /\ UNCHANGED <<port, tap, stray>>
               /\ worker[w].pc \in {"opening", "ending"}
      <4>1. w \notin port[u]
        BY <3>1, <3>9
      <4>2. port'[u] = {}
        BY <1>8, <3>9, <4>1
      <4>3. QED
        BY <3>1, <3>9, <4>1, <4>2
    <3>10. QED
      BY <1>p, <3>4, <3>5, <3>6, <3>7, <3>8, <3>9 DEF PortStep
  <2>8. QED
    BY <1>1, <2>4, <2>6, <2>7, ScannerAssumption DEF TapFollowsThread, At, unitOf
<1>12. QED
  BY <1>4, <1>5, <1>6, <1>10, <1>11 DEF Struct

\* The invariant but for the counts is inductive by itself.
LEMMA StructNext == TypeOK /\ Struct /\ [Next]_scanVars => Struct'
<1> SUFFICES ASSUME TypeOK, Struct, [Next]_scanVars PROVE Struct'
  OBVIOUS
<1>1. ASSUME NEW u \in Units,
             \/ Bind(u) \/ LinkLost(u) \/ BoardResets(u)
             \/ \E w \in Workers : StartScan(u, w)
             \/ \E t \in Callers : StopBegin(t, u) \/ UnbindBegin(t, u)
      PROVE  Struct'
  BY <1>1, StructCalls
<1>2. CASE StopEnd \/ UnbindEnd
  BY <1>2, StructJoins
<1>3. ASSUME NEW w \in Workers, WorkerStep(w) PROVE Struct'
  BY <1>3, StructWorker
<1>4. CASE UNCHANGED scanVars
  BY <1>4 DEF scanVars, Struct, ThreadsOwned, FlagHasThread, NotScanningMeansQuiet,
              PortFollowsThread, TapFollowsThread, Served, At, Live, unitOf, Joining
<1>5. QED
  BY <1>1, <1>2, <1>3, <1>4 DEF Next

\* Counts stay matched when neither they nor the lines being published change.
LEMMA CountFrame ==
    ASSUME CountsMatchEvents, UNCHANGED <<seen, emitted>>,
           \A v \in Workers : worker'[v].pc = "emit" <=> worker[v].pc = "emit",
           \A v \in Workers : worker[v].pc = "emit" =>
                worker'[v].unit = worker[v].unit /\ worker'[v].lines = worker[v].lines
    PROVE  CountsMatchEvents'
<1>1. \A u \in Units, d \in Devices : InFlight(u, d)' <=> InFlight(u, d)
  BY DEF InFlight, At, unitOf
<1>2. QED
  BY <1>1 DEF CountsMatchEvents

\* Only the owner of a unit can be about to publish for it.
LEMMA OneEmitter ==
    ASSUME ThreadsOwned, NEW w \in Workers, ~At(w, "unused"),
           NEW v \in Workers, At(v, "emit"), unitOf(v) = unitOf(w)
    PROVE  v = w
BY DEF ThreadsOwned, At

\* The handler counts the device it is then about to publish.
LEMMA CountHandler ==
    ASSUME TypeOK, Struct, CountsMatchEvents, NEW w \in Workers, Handler(w), bound[unitOf(w)]
    PROVE  CountsMatchEvents'
<1>1. PICK u \in Units, d \in Devices : unitOf(w) = u /\ Head(worker[w].lines) = d
  <2>1. worker[w].lines # <<>> /\ worker[w].lines \in Seq(Devices) /\ unitOf(w) \in Units
    BY DEF TypeOK, Thread, Handler, At, unitOf
  <2>2. Head(worker[w].lines) \in Devices
    BY <2>1, HeadTailProperties
  <2>3. QED
    BY <2>1, <2>2
<1>2. /\ seen' = [seen EXCEPT ![u][d] = @ + 1]
      /\ emitted' = emitted
      /\ Goto(w, "emit")
      /\ worker[w].pc = "callback"
  BY <1>1 DEF Handler, At
<1>3. \A v \in Workers : /\ worker'[v].pc = IF v = w THEN "emit" ELSE worker[v].pc
                         /\ worker'[v].unit = worker[v].unit
                         /\ worker'[v].lines = worker[v].lines
  BY <1>2, GotoFields DEF Phases
<1>5. \A v \in Workers : ~(At(v, "emit") /\ unitOf(v) = u)
  BY <1>2, <1>1, OneEmitter DEF Struct, At
<1>6. ASSUME NEW x \in Units, NEW e \in Devices
      PROVE  /\ ~(x = u /\ e = d) => (InFlight(x, e)' <=> InFlight(x, e))
             /\ ~InFlight(u, d) /\ InFlight(u, d)'
  <2>1. ~InFlight(u, d)
    BY <1>5 DEF InFlight
  <2>2. InFlight(u, d)'
    BY <1>3, <1>1 DEF InFlight, At, unitOf
  <2>3. ASSUME ~(x = u /\ e = d) PROVE InFlight(x, e)' <=> InFlight(x, e)
    BY <1>2, <1>3, <1>1, <2>3 DEF InFlight, At, unitOf
  <2>4. QED
    BY <2>1, <2>2, <2>3
<1>7. ASSUME NEW x \in Units, NEW e \in Devices
      PROVE  seen'[x][e] = emitted'[x][e] + IF InFlight(x, e)' THEN 1 ELSE 0
  <2>1. seen[x][e] = emitted[x][e] + IF InFlight(x, e) THEN 1 ELSE 0
    BY DEF CountsMatchEvents
  <2>2. seen[x][e] \in Nat /\ emitted[x][e] \in Nat
    BY DEF TypeOK
  <2>3. seen'[x][e] = IF x = u /\ e = d THEN seen[x][e] + 1 ELSE seen[x][e]
    BY <1>1, <1>2 DEF TypeOK
  <2>4. QED
    BY <1>2, <1>6, <2>1, <2>2, <2>3 DEF TypeOK
<1>8. QED
  BY <1>7 DEF CountsMatchEvents

\* The event that was on its way is published: the two counts move together.
LEMMA CountEmit ==
    ASSUME TypeOK, Struct, CountsMatchEvents, NEW w \in Workers, Emit(w)
    PROVE  CountsMatchEvents'
<1>1. PICK u \in Units, d \in Devices : unitOf(w) = u /\ Head(worker[w].lines) = d
  <2>1. worker[w].lines # <<>> /\ worker[w].lines \in Seq(Devices) /\ unitOf(w) \in Units
    BY DEF TypeOK, Thread, Emit, At, unitOf
  <2>2. Head(worker[w].lines) \in Devices
    BY <2>1, HeadTailProperties
  <2>3. QED
    BY <2>1, <2>2
<1>2. /\ emitted' = [emitted EXCEPT ![u][d] = @ + 1]
      /\ seen' = seen
      /\ worker[w].pc = "emit"
  BY <1>1 DEF Emit, At
<1>3. /\ worker'[w].pc # "emit"
      /\ \A v \in Workers : v # w => worker'[v] = worker[v]
  BY NextLineFields DEF Emit
<1>5. \A v \in Workers : At(v, "emit") /\ unitOf(v) = u => v = w
  BY <1>2, <1>1, OneEmitter DEF Struct, At
<1>6. ASSUME NEW x \in Units, NEW e \in Devices
      PROVE  /\ ~(x = u /\ e = d) => (InFlight(x, e)' <=> InFlight(x, e))
             /\ InFlight(u, d) /\ ~InFlight(u, d)'
  <2>1. InFlight(u, d)
    BY <1>2, <1>1 DEF InFlight, At
  <2>2. ~InFlight(u, d)'
    BY <1>3, <1>5 DEF InFlight, At, unitOf
  <2>3. ASSUME ~(x = u /\ e = d) PROVE InFlight(x, e)' <=> InFlight(x, e)
    BY <1>2, <1>3, <1>1, <2>3 DEF InFlight, At, unitOf
  <2>4. QED
    BY <2>1, <2>2, <2>3
<1>7. ASSUME NEW x \in Units, NEW e \in Devices
      PROVE  seen'[x][e] = emitted'[x][e] + IF InFlight(x, e)' THEN 1 ELSE 0
  <2>1. seen[x][e] = emitted[x][e] + IF InFlight(x, e) THEN 1 ELSE 0
    BY DEF CountsMatchEvents
  <2>2. seen[x][e] \in Nat /\ emitted[x][e] \in Nat
    BY DEF TypeOK
  <2>3. emitted'[x][e] = IF x = u /\ e = d THEN emitted[x][e] + 1 ELSE emitted[x][e]
    BY <1>1, <1>2 DEF TypeOK
  <2>4. QED
    BY <1>2, <1>6, <2>1, <2>2, <2>3 DEF TypeOK
<1>8. QED
  BY <1>7 DEF CountsMatchEvents

\* A step of a worker other than the handler's count and the emit counts nothing.
LEMMA CountWorker ==
    ASSUME TypeOK, Struct, CountsMatchEvents, NEW w \in Workers, WorkerStep(w)
    PROVE  CountsMatchEvents'
<1>1. CASE Handler(w) /\ bound[unitOf(w)]
  BY <1>1, CountHandler
<1>2. CASE Emit(w)
  BY <1>2, CountEmit
<1>3. CASE ~(Handler(w) /\ bound[unitOf(w)]) /\ ~Emit(w)
  <2>1. UNCHANGED <<seen, emitted>> /\ worker[w].pc # "emit" /\ worker'[w].pc # "emit"
    <3>1. CASE Open(w) \/ OpenFails(w) \/ EnableTap(w) \/ EnableTapFails(w)
               \/ LeaveLoop(w) \/ Close(w) \/ End(w)
      BY <3>1, GotoFields DEF Open, OpenFails, EnableTap, EnableTapFails, LeaveLoop,
                              Close, End, At, Phases
    <3>2. CASE Read(w)
      <4>1. PICK chunk \in Chunks :
              worker' = [worker EXCEPT ![w].pc = "callback", ![w].lines = chunk]
        BY <3>2 DEF Read
      <4>2. worker[w] \in Thread
        BY DEF TypeOK
      <4>3. worker' = [worker EXCEPT ![w] =
                          [worker[w] EXCEPT !.pc = "callback", !.lines = chunk]]
        BY <4>1, <4>2 DEF TypeOK
      <4>4. worker'[w].pc = "callback"
        BY <4>2, <4>3 DEF TypeOK, Thread
      <4>5. QED
        BY <3>2, <4>4 DEF Read, At
    <3>3. CASE Handler(w)
      BY <1>3, <3>3, NextLineFields DEF Handler, At
    <3>4. QED
      BY <1>3, <3>1, <3>2, <3>3 DEF WorkerStep
  <2>2. QED
    BY <2>1, CountFrame, WorkerFrame
<1>4. QED
  BY <1>1, <1>2, <1>3

\* Every step keeps the counts matched.
LEMMA CountNext == TypeOK /\ Struct /\ CountsMatchEvents /\ [Next]_scanVars => CountsMatchEvents'
<1> SUFFICES ASSUME TypeOK, Struct, CountsMatchEvents, [Next]_scanVars
             PROVE  CountsMatchEvents'
  OBVIOUS
<1>1. ASSUME NEW u \in Units, Bind(u) PROVE CountsMatchEvents'
  BY <1>1, CountFrame DEF Bind
<1>2. ASSUME NEW u \in Units, LinkLost(u) \/ BoardResets(u) PROVE CountsMatchEvents'
  <2>1. \A v \in Workers : /\ worker'[v].pc = worker[v].pc
                           /\ worker'[v].unit = worker[v].unit
                           /\ worker'[v].lines = worker[v].lines
    BY <1>2, BreakLinksFields
  <2>2. QED
    BY <1>2, <2>1, CountFrame DEF LinkLost, BoardResets
<1>3. ASSUME NEW u \in Units, NEW w \in Workers, StartScan(u, w) PROVE CountsMatchEvents'
  <2>1. worker'[w].pc = "opening" /\ worker[w].pc = "unused"
    BY <1>3, ReapedType, UnusedType DEF TypeOK, StartScan, NewThread
  <2>2. \A v \in Workers : v # w =>
          \/ worker'[v] = worker[v]
          \/ worker'[v].pc = "unused" /\ ~Live(v)
    BY <1>3, UnusedType DEF TypeOK, StartScan, Reaped
  <2>3. \A v \in Workers : v # w /\ ~Live(v) => worker[v].pc # "emit"
    BY DEF Live
  <2>4. QED
    BY <1>3, <2>1, <2>2, <2>3, CountFrame DEF StartScan
<1>4. ASSUME NEW u \in Units, NEW t \in Callers, StopBegin(t, u) \/ UnbindBegin(t, u)
      PROVE  CountsMatchEvents'
  <2>1. \A v \in Workers : /\ worker'[v].pc = worker[v].pc
                           /\ worker'[v].unit = worker[v].unit
                           /\ worker'[v].lines = worker[v].lines
    BY <1>4, RequestStopType DEF StopBegin, UnbindBegin
  <2>2. UNCHANGED <<seen, emitted>>
    BY <1>4 DEF StopBegin, UnbindBegin
  <2>3. QED
    BY <2>1, <2>2, CountFrame
<1>5. CASE StopEnd \/ UnbindEnd
  <2>1. /\ mutex.unit \in Units
        /\ \A v \in Workers : unitOf(v) = mutex.unit => ~Live(v)
        /\ \A v \in Workers : unitOf(v) # mutex.unit => worker'[v] = worker[v]
        /\ \A v \in Workers : worker'[v] \in {worker[v], Unused}
    BY <1>5, StructJoins
  <2>2. \A v \in Workers : worker'[v].pc = "emit" <=> worker[v].pc = "emit"
    BY <2>1, UnusedType DEF Live
  <2>3. \A v \in Workers : worker[v].pc = "emit" => worker'[v] = worker[v]
    BY <2>1 DEF Live
  <2>4. CASE StopEnd
    BY <2>2, <2>3, <2>4, CountFrame DEF StopEnd
  <2>5. CASE UnbindEnd
    <3>1. PICK m \in Units : m = mutex.unit
      BY <2>1
    <3>2. /\ seen' = [seen EXCEPT ![m] = Unseen]
          /\ emitted' = [emitted EXCEPT ![m] = Unseen]
      BY <2>5, <3>1 DEF UnbindEnd
    <3>3. \A u \in Units, d \in Devices : InFlight(u, d)' <=> InFlight(u, d)
      BY <2>2, <2>3 DEF InFlight, At, unitOf
    <3>4. \A d \in Devices : ~InFlight(m, d)
      BY <2>1, <3>1 DEF InFlight, At, Live
    <3>5. ASSUME NEW u \in Units, NEW d \in Devices
          PROVE  seen'[u][d] = emitted'[u][d] + IF InFlight(u, d)' THEN 1 ELSE 0
      <4>1. CASE u = m
        <5>1. seen'[u][d] = 0 /\ emitted'[u][d] = 0
          BY <3>2, <4>1 DEF TypeOK, Unseen
        <5>2. QED
          BY <3>3, <3>4, <4>1, <5>1
      <4>2. CASE u # m
        <5>1. seen'[u][d] = seen[u][d] /\ emitted'[u][d] = emitted[u][d]
          BY <3>2, <4>2 DEF TypeOK
        <5>2. QED
          BY <3>3, <5>1 DEF CountsMatchEvents
      <4>3. QED
        BY <4>1, <4>2
    <3>6. QED
      BY <3>5 DEF CountsMatchEvents
  <2>6. QED
    BY <1>5, <2>4, <2>5
<1>6. ASSUME NEW w \in Workers, WorkerStep(w) PROVE CountsMatchEvents'
  BY <1>6, CountWorker
<1>7. CASE UNCHANGED scanVars
  BY <1>7, CountFrame DEF scanVars
<1>8. QED
  BY <1>1, <1>2, <1>3, <1>4, <1>5, <1>6, <1>7 DEF Next

\* Nothing was seen and nothing published in the initial state.
LEMMA CountInit == Init => CountsMatchEvents
BY UnusedType DEF Init, CountsMatchEvents, InFlight, At, Unseen

-----------------------------------------------------------------------------
(* The theorems.                                                            *)

\* The state always has the declared shape, and a thread is in the handler only
\* with a line to handle.
THEOREM TypeCorrect == Spec => []TypeOK
BY TypeInit, TypeNext, PTL DEF Spec

\* The inductive invariant holds.
THEOREM Invariance == Spec => []IInv
<1>1. Init => IInv
  BY TypeInit, StructInit, CountInit DEF IInv, Struct
<1>2. IInv /\ [Next]_scanVars => IInv'
  BY TypeNext, StructNext, CountNext DEF IInv, Struct
<1>3. QED
  BY <1>1, <1>2, PTL DEF Spec

\* When stop_scan has answered OK no thread of the unit uses the port, the
\* scanner or the handler any more.
THEOREM Quiet == Spec => []NotScanningMeansQuiet
<1>1. IInv => NotScanningMeansQuiet
  BY DEF IInv
<1>2. QED
  BY <1>1, Invariance, PTL

\* A unit's serial port or socket is never open twice.
THEOREM PortExclusive == Spec => []OnePortUser
<1>1. IInv => OnePortUser
  <2> SUFFICES ASSUME IInv, NEW u \in Units, NEW v \in port[u], NEW w \in port[u]
               PROVE  v = w
    BY DEF OnePortUser
  <2>1. v \in Workers /\ w \in Workers
    BY DEF IInv, TypeOK
  <2>2. unitOf(v) = u /\ unitOf(w) = u /\ ~At(v, "unused") /\ ~At(w, "unused")
    BY <2>1 DEF IInv, PortFollowsThread, At
  <2>3. QED
    BY <2>1, <2>2 DEF IInv, ThreadsOwned
<1>2. QED
  BY <1>1, Invariance, PTL

\* No observation is published for a unit whose entry has been erased.
THEOREM EventsOfBoundUnits == Spec => []NoEventForUnboundUnit
<1>1. IInv => NoEventForUnboundUnit
  <2> SUFFICES ASSUME IInv, NEW w \in Workers, At(w, "emit") PROVE bound[unitOf(w)]
    BY DEF NoEventForUnboundUnit
  <2>1. jthread[unitOf(w)] = w /\ unitOf(w) \in Units
    BY DEF IInv, ThreadsOwned, TypeOK, Thread, At, unitOf
  <2>2. QED
    BY <2>1, ScannerAssumption DEF IInv, ThreadsOwned
<1>2. QED
  BY <1>1, Invariance, PTL

\* The counts a client reads are those of the events it could have received.
THEOREM Counts == Spec => []CountsMatchEvents
<1>1. IInv => CountsMatchEvents
  BY DEF IInv
<1>2. QED
  BY <1>1, Invariance, PTL

\* A board is left reporting to nobody only by a lost link, and a worker that reads
\* over a working link has its board reporting.
THEOREM Taps == Spec => []TapFollowsWorker
<1>1. IInv => TapFollowsWorker
  BY ScannerAssumption DEF IInv, TapFollowsThread, TapFollowsWorker
<1>2. QED
  BY <1>1, Invariance, PTL

-----------------------------------------------------------------------------
(* The scanner manager implements the promised scan session.                *)

Sessions == [u \in Units |-> Session(u)]

\* A step that changes at most one unit's session maps to a step of that unit.
LEMMA SessionExcept ==
    ASSUME NEW u \in Units, \A x \in Units : x # u => Session(x)' = Session(x)
    PROVE  Sessions' = [Sessions EXCEPT ![u] = Session(u)']
BY DEF Sessions

\* A step that changes no unit's session maps to a stutter.
LEMMA SessionStutter ==
    ASSUME \A x \in Units : Session(x)' = Session(x)
    PROVE  Sessions' = Sessions
BY DEF Sessions

\* Binding, starting, and beginning to stop or unbind map to steps of the session or
\* to stutters.
LEMMA SessionCalls ==
    ASSUME TypeOK, Struct, NEW u \in Units,
           \/ Bind(u) \/ LinkLost(u) \/ BoardResets(u)
           \/ \E w \in Workers : StartScan(u, w)
           \/ \E t \in Callers : StopBegin(t, u) \/ UnbindBegin(t, u)
    PROVE  [Abstract!Next]_<<Sessions, emitted>>
<1> USE ScannerAssumption, FreeAssumption
<1>0. /\ \A x \in Units : jthread[x] # NoWorker => jthread[x] \in Workers
      /\ \A x \in Units : jthread[x] # NoWorker => bound[x] /\ unitOf(jthread[x]) = x
                                                   /\ worker[jthread[x]].pc # "unused"
      /\ \A x \in Units : scanning[x] => jthread[x] # NoWorker /\ Live(jthread[x])
  BY Owners DEF Struct, ThreadsOwned, FlagHasThread, At
<1>1. CASE Bind(u)
  <2>1. \A x \in Units : x # u => Session(x)' = Session(x)
    BY <1>1 DEF Bind, Session, Live, TypeOK
  <2>2. Session(u) = "unbound" /\ Session(u)' = "idle"
    BY <1>0, <1>1 DEF Bind, Session, TypeOK
  <2>3. Sessions' = [Sessions EXCEPT ![u] = "idle"] /\ Sessions[u] = "unbound"
    BY <2>1, <2>2, SessionExcept DEF Sessions
  <2>4. Abstract!Bind(u)
    BY <1>1, <2>3 DEF Bind, Abstract!Bind, Abstract!Become, Sessions
  <2>5. QED
    BY <2>4 DEF Abstract!Next, Sessions
<1>2. CASE LinkLost(u) \/ BoardResets(u)
  <2>1. \A v \in Workers : worker'[v].pc = worker[v].pc
    BY <1>2, BreakLinksFields
  <2>2. \A x \in Units : Session(x)' = Session(x)
    BY <1>0, <1>2, <2>1 DEF LinkLost, BoardResets, Session, Live
  <2>3. QED
    BY <1>2, <2>2, SessionStutter DEF LinkLost, BoardResets
<1>3. ASSUME NEW w \in Workers, StartScan(u, w) PROVE [Abstract!Next]_<<Sessions, emitted>>
  <2>1. worker'[w].pc = "opening" /\ worker[w].pc = "unused"
    BY <1>3, ReapedType, UnusedType DEF TypeOK, StartScan, NewThread
  <2>2. \A v \in Workers : v # w /\ v # jthread[u] => worker'[v] = worker[v]
    BY <1>3 DEF TypeOK, StartScan, Reaped
  <2>3. /\ bound' = bound /\ bound[u] /\ emitted' = emitted
        /\ Joined(jthread[u])
        /\ scanning' = [scanning EXCEPT ![u] = TRUE]
        /\ jthread' = [jthread EXCEPT ![u] = w]
    BY <1>3 DEF StartScan
  <2>4. ASSUME NEW x \in Units, x # u PROVE Session(x)' = Session(x)
    <3>1. jthread'[x] = jthread[x] /\ scanning'[x] = scanning[x]
      BY <2>3, <2>4 DEF TypeOK
    <3>2. jthread[x] # NoWorker => worker'[jthread[x]] = worker[jthread[x]]
      BY <1>0, <2>1, <2>2, <2>4
    <3>3. QED
      BY <2>3, <3>1, <3>2 DEF Session, Live
  <2>5. Session(u) = "idle"
    BY <2>3 DEF Session, Joined
  <2>6. Session(u)' = "scanning"
    BY <2>1, <2>3 DEF Session, Live, TypeOK
  <2>7. Sessions' = [Sessions EXCEPT ![u] = "scanning"] /\ Sessions[u] = "idle"
    BY <2>4, <2>5, <2>6, SessionExcept DEF Sessions
  <2>8. Abstract!Start(u)
    BY <2>3, <2>7 DEF Abstract!Start, Abstract!Become, Sessions
  <2>9. QED
    BY <2>8 DEF Abstract!Next, Sessions
<1>4. ASSUME NEW t \in Callers, StopBegin(t, u) \/ UnbindBegin(t, u)
      PROVE  [Abstract!Next]_<<Sessions, emitted>>
  <2>1. \A v \in Workers : worker'[v].pc = worker[v].pc
    BY <1>4, RequestStopType DEF StopBegin, UnbindBegin
  <2>2. /\ bound[u] /\ UNCHANGED <<bound, jthread, emitted>>
        /\ scanning' = [scanning EXCEPT ![u] = FALSE]
    BY <1>4 DEF StopBegin, UnbindBegin
  <2>3. \A x \in Units : x # u => Session(x)' = Session(x)
    BY <1>0, <2>1, <2>2 DEF Session, Live, TypeOK
  <2>4. CASE scanning[u]
    <3>1. Session(u) = "scanning" /\ Session(u)' = "stopping"
      BY <1>0, <2>1, <2>2, <2>4 DEF Session, Live, TypeOK
    <3>2. Sessions' = [Sessions EXCEPT ![u] = "stopping"] /\ Sessions[u] = "scanning"
      BY <2>3, <3>1, SessionExcept DEF Sessions
    <3>3. Abstract!Stop(u)
      BY <2>2, <3>2 DEF Abstract!Stop, Abstract!Become, Sessions
    <3>4. QED
      BY <3>3 DEF Abstract!Next, Sessions
  <2>5. CASE ~scanning[u]
    <3>1. Session(u)' = Session(u)
      BY <1>0, <2>1, <2>2, <2>5 DEF Session, Live, TypeOK
    <3>2. QED
      BY <2>2, <2>3, <3>1, SessionStutter
  <2>6. QED
    BY <2>4, <2>5
<1>5. QED
  BY <1>1, <1>2, <1>3, <1>4

\* The end of stop_scan is a stutter, the end of unbind_scanner the session's Unbind.
LEMMA SessionJoins ==
    ASSUME TypeOK, Struct, StopEnd \/ UnbindEnd
    PROVE  [Abstract!Next]_<<Sessions, emitted>>
<1> USE ScannerAssumption
<1>1. PICK m \in Units : m = mutex.unit
  BY StructJoins
<1>2. /\ \A v \in Workers : unitOf(v) = m => ~Live(v)
      /\ \A v \in Workers : unitOf(v) # m => worker'[v] = worker[v]
  BY <1>1, StructJoins
<1>3. \A x \in Units : jthread[x] # NoWorker =>
        jthread[x] \in Workers /\ bound[x] /\ unitOf(jthread[x]) = x
  BY Owners DEF Struct, ThreadsOwned
<1>4. /\ jthread' = [jthread EXCEPT ![m] = NoWorker]
      /\ scanning' = scanning
      /\ bound[m]
  BY <1>1 DEF StopEnd, UnbindEnd, JoinReturns, Struct, FlagHasThread
<1>5. Session(m) = "idle"
  BY <1>2, <1>3, <1>4 DEF Session
<1>6. ASSUME NEW x \in Units, x # m, bound'[x] = bound[x] PROVE Session(x)' = Session(x)
  <2>1. jthread'[x] = jthread[x]
    BY <1>4, <1>6 DEF TypeOK
  <2>2. jthread[x] # NoWorker => worker'[jthread[x]] = worker[jthread[x]]
    BY <1>2, <1>3, <1>6
  <2>3. QED
    BY <1>4, <1>6, <2>1, <2>2 DEF Session, Live
<1>7. CASE StopEnd
  <2>1. bound' = bound /\ emitted' = emitted
    BY <1>7 DEF StopEnd
  <2>2. Session(m)' = "idle"
    BY <1>4, <2>1 DEF Session, TypeOK
  <2>3. \A x \in Units : Session(x)' = Session(x)
    BY <1>5, <1>6, <2>1, <2>2
  <2>4. QED
    BY <2>1, <2>3, SessionStutter
<1>8. CASE UnbindEnd
  <2>1. /\ bound' = [bound EXCEPT ![m] = FALSE]
        /\ emitted' = [emitted EXCEPT ![m] = Unseen]
    BY <1>1, <1>8 DEF UnbindEnd
  <2>2. Session(m)' = "unbound"
    BY <2>1 DEF Session, TypeOK
  <2>3. \A x \in Units : x # m => Session(x)' = Session(x)
    BY <1>6, <2>1 DEF TypeOK
  <2>4. Sessions' = [Sessions EXCEPT ![m] = "unbound"] /\ Sessions[m] = "idle"
    BY <1>5, <2>2, <2>3, SessionExcept DEF Sessions
  <2>5. Abstract!Unbind(m)
    BY <2>1, <2>4 DEF Abstract!Unbind, Abstract!Become, Sessions, Unseen
  <2>6. QED
    BY <2>5 DEF Abstract!Next, Sessions
<1>9. QED
  BY <1>7, <1>8

\* A worker's steps map to the session's Observe and End or to stutters.
LEMMA SessionWorker ==
    ASSUME TypeOK, Struct, NEW w \in Workers, WorkerStep(w)
    PROVE  [Abstract!Next]_<<Sessions, emitted>>
<1> USE ScannerAssumption
<1>0. /\ \A v \in Workers : unitOf(v) \in Units
      /\ \A x \in Units : jthread[x] # NoWorker =>
            jthread[x] \in Workers /\ bound[x] /\ unitOf(jthread[x]) = x
  BY Owners DEF Struct, ThreadsOwned
<1>1. PICK u \in Units : u = unitOf(w)
  BY <1>0
<1>2. /\ UNCHANGED <<bound, jthread>>
      /\ \A v \in Workers : v # w => worker'[v].pc = worker[v].pc
      /\ Live(w)
      /\ worker'[w].pc # "unused"
      /\ \/ worker'[w].pc # "ended" /\ UNCHANGED scanning
         \/ /\ worker'[w].pc = "ended"
            /\ scanning' = [scanning EXCEPT ![u] = FALSE]
  BY <1>1, WorkerFrame
<1>3. jthread[u] = w /\ w # NoWorker /\ bound[u]
  BY <1>0, <1>1, <1>2 DEF Struct, ThreadsOwned, At, Live
<1>4. Session(u) \in {"scanning", "stopping"}
  BY <1>2, <1>3 DEF Session
<1>5. ASSUME NEW x \in Units, x # u PROVE Session(x)' = Session(x)
  <2>1. jthread[x] # NoWorker => worker'[jthread[x]].pc = worker[jthread[x]].pc
    BY <1>0, <1>1, <1>2, <1>5
  <2>2. scanning'[x] = scanning[x]
    BY <1>2, <1>5 DEF TypeOK
  <2>3. QED
    BY <1>2, <2>1, <2>2 DEF Session, Live
<1>6. CASE worker'[w].pc = "ended"
  <2>1. emitted' = emitted
    <3>1. CASE Emit(w)
      BY <1>6, <3>1, NextLineFields DEF Emit
    <3>2. CASE ~Emit(w)
      BY <3>2 DEF WorkerStep, Open, OpenFails, EnableTap, EnableTapFails, Read, LeaveLoop,
                  Handler, Close, End
    <3>3. QED
      BY <3>1, <3>2
  <2>2. Session(u)' = "idle"
    BY <1>2, <1>3, <1>6 DEF Session, Live
  <2>3. Sessions' = [Sessions EXCEPT ![u] = "idle"] /\ Sessions[u] = Session(u)
    BY <1>5, <2>2, SessionExcept DEF Sessions
  <2>4. Abstract!End(u)
    BY <1>4, <2>1, <2>3 DEF Abstract!End, Abstract!Become, Sessions
  <2>5. QED
    BY <2>4 DEF Abstract!Next, Sessions
<1>7. CASE worker'[w].pc # "ended"
  <2>1. Session(u)' = Session(u)
    BY <1>2, <1>3, <1>7 DEF Session, Live
  <2>2. Sessions' = Sessions
    BY <1>5, <2>1, SessionStutter
  <2>3. CASE Emit(w)
    <3>1. PICK d \in Devices : d = Head(worker[w].lines)
      <4>1. worker[w].lines # <<>> /\ worker[w].lines \in Seq(Devices)
        BY <2>3 DEF TypeOK, Thread, Emit, At
      <4>2. QED
        BY <4>1, HeadTailProperties
    <3>2. emitted' = [emitted EXCEPT ![u][d] = @ + 1]
      BY <1>1, <2>3, <3>1 DEF Emit
    <3>3. Sessions[u] \in {"scanning", "stopping"}
      BY <1>4 DEF Sessions
    <3>4. Abstract!Observe(u, d)
      BY <2>2, <3>2, <3>3 DEF Abstract!Observe, Sessions
    <3>5. QED
      BY <3>4 DEF Abstract!Next, Sessions
  <2>4. CASE ~Emit(w)
    BY <2>2, <2>4 DEF WorkerStep, Open, OpenFails, EnableTap, EnableTapFails, Read, LeaveLoop,
                      Handler, Close, End
  <2>5. QED
    BY <2>3, <2>4
<1>8. QED
  BY <1>6, <1>7

\* Every run of the manager is a run of ScanSession: a scan reports devices only
\* while it is in flight, and a scanner is taken away only when its scan has ended.
THEOREM Refinement == Spec => ImplementsScanSession
<1>1. Init => Abstract!Init
  BY DEF Init, Abstract!Init, Session, Unseen
<1>2. TypeOK /\ Struct /\ [Next]_scanVars => [Abstract!Next]_<<Sessions, emitted>>
  <2> SUFFICES ASSUME TypeOK, Struct, [Next]_scanVars
               PROVE  [Abstract!Next]_<<Sessions, emitted>>
    OBVIOUS
  <2>1. CASE UNCHANGED scanVars
    <3>1. \A x \in Units : Session(x)' = Session(x)
      BY <2>1 DEF scanVars, Session, Live
    <3>2. QED
      BY <2>1, <3>1, SessionStutter DEF scanVars
  <2>2. CASE Next
    BY <2>2, SessionCalls, SessionJoins, SessionWorker DEF Next
  <2>3. QED
    BY <2>1, <2>2
<1>3. TypeOK /\ Struct /\ [Next]_scanVars => [Abstract!Next]_Abstract!sessionVars
  BY <1>2 DEF Abstract!sessionVars, Sessions
<1>4. IInv => TypeOK /\ Struct
  BY DEF IInv, Struct
<1>5. QED
  BY <1>1, <1>3, <1>4, Invariance, PTL DEF Spec, ImplementsScanSession, Abstract!Spec

==============================================================================
