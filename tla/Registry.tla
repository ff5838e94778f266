------------------------------- MODULE Registry -------------------------------
(***************************************************************************)
(* The daemon's inventory registry and what hangs on its event signal:     *)
(* backend/inventory/src/registry.cpp, the event half of                   *)
(* probe_scheduler.cpp, the scanner binding in daemon/src/main.cpp and a   *)
(* client of the Watch stream in rpc/src/inventory_service.cpp.            *)
(*                                                                         *)
(* Every registry call changes the maps under the registry's mutex and     *)
(* then, with the mutex released, emits its event.  Delivery is            *)
(* synchronous: the emitting thread runs the subscribers one after the     *)
(* other, and a subscriber may call the registry again (the scheduler      *)
(* probes and submits).  todo[t] is that call stack of thread t, flattened *)
(* to the calls it still has to make, so that the steps of several threads *)
(* interleave between a change and the delivery of its event.              *)
(*                                                                         *)
(* The providers (Inventory, MdnsProvider) own the threads and decide what *)
(* a probe finds.                                                          *)
(***************************************************************************)
EXTENDS Naturals, Sequences

CONSTANTS Candidates,  \* ids of hardware candidates; the unit has its candidate's id
          Threads      \* threads that call the registry

ASSUME RegistryAssumption == Candidates # {} /\ Threads # {}

VARIABLES
    cand,      \* cand[c]: candidates_ has no entry, or one that is present or gone
    unit,      \* unit[c]: units_ has no entry, or one that is offline or online
    bound,     \* bound[c]: the scanner manager has a scanner for the unit
    view,      \* view[c]: the client that watches has the unit in its list
    listening, \* the scheduler has subscribed to the registry's events
    todo,      \* todo[t]: the calls thread t still has to make, innermost first
    overtaken  \* overtaken[c]: the registry changed c's entry for one thread while another
               \* was in the middle of something about c, and no departure that found
               \* c's unit has cleaned up since (history)

registryVars == <<cand, unit, bound, view, listening, todo, overtaken>>

Findings == {"none", "offline", "online"}
Calls == [op : {"upsert", "gone", "probe", "submit", "bind", "unbind", "tell", "untell",
                "monitor", "unlock"},
          cand : Candidates, found : Findings]
Call(op, c) == [op |-> op, cand |-> c, found |-> "none"]

Idle(t) == todo[t] = <<>>
Doing(t, op) == ~Idle(t) /\ Head(todo[t]).op = op
Subject(t) == Head(todo[t]).cand

\* The call at the top is done; these calls, made by it or by its subscribers, come next.
Continue(t, calls) == todo' = [todo EXCEPT ![t] = calls \o Tail(@)]

\* Thread t has something about c to do.
About(t, c) == \E i \in DOMAIN todo[t] : todo[t][i].cand = c

\* Another thread than t is in the middle of something about c.
Contended(t, c) == \E s \in Threads \ {t} : About(s, c)

InitRegistry ==
    /\ cand = [c \in Candidates |-> "unknown"]
    /\ unit = [c \in Candidates |-> "none"]
    /\ bound = [c \in Candidates |-> FALSE]
    /\ view = [c \in Candidates |-> FALSE]
    /\ listening = FALSE
    /\ todo = [t \in Threads |-> <<>>]
    /\ overtaken = [c \in Candidates |-> FALSE]

\* upsert_candidate: CandidateAdded or CandidateUpdated, both of which make the
\* scheduler probe the candidate in this thread.
Upsert(t) ==
    /\ Doing(t, "upsert")
    /\ cand' = [cand EXCEPT ![Subject(t)] = "present"]
    /\ Continue(t, IF listening THEN <<Call("probe", Subject(t))>> ELSE <<>>)
    /\ UNCHANGED <<unit, bound, view, listening, overtaken>>

\* Mutant: the unit of a departed candidate is kept.
MarkGoneKeepsUnit(t) ==
    LET c == Subject(t)
    IN  /\ Doing(t, "gone")
        /\ cand' = [cand EXCEPT ![c] = IF @ = "unknown" THEN @ ELSE "gone"]
        /\ Continue(t, <<>>)
        /\ overtaken' = [overtaken EXCEPT ![c] = (@ /\ unit[c] = "none") \/ Contended(t, c)]
        /\ UNCHANGED <<unit, bound, view, listening>>

\* mark_candidate_gone: the candidate is kept as gone, its unit is erased.
\* CandidateGone concerns only clients; UnitRemoved unbinds the scanner.
MarkGone(t) ==
    LET c == Subject(t)
    IN  /\ Doing(t, "gone")
        /\ cand' = [cand EXCEPT ![c] = IF @ = "unknown" THEN @ ELSE "gone"]
        /\ unit' = [unit EXCEPT ![c] = IF cand[c] = "unknown" THEN @ ELSE "none"]
        /\ Continue(t, IF unit'[c] # unit[c]
                       THEN <<Call("unbind", c), Call("untell", c)>> ELSE <<>>)
        /\ overtaken' = [overtaken EXCEPT ![c] = (@ /\ unit[c] = "none") \/ Contended(t, c)]
        /\ UNCHANGED <<bound, view, listening>>

\* A prober answers, and its result is submitted unless it is a failure.
Probe(t, found) ==
    /\ Doing(t, "probe")
    /\ Continue(t, IF found = "none" THEN <<>>
                   ELSE <<[Call("submit", Subject(t)) EXCEPT !.found = found]>>)
    /\ UNCHANGED <<cand, unit, bound, view, listening, overtaken>>

\* Mutant: a known unit that is found again is not announced as updated.
SubmitAnnouncesNewOnly(t) ==
    LET c == Subject(t)
        found == Head(todo[t]).found
    IN  /\ Doing(t, "submit")
        /\ unit' = [unit EXCEPT ![c] = IF cand[c] = "unknown" THEN @ ELSE found]
        /\ Continue(t, IF cand[c] # "unknown" /\ unit[c] = "none"
                       THEN <<Call("bind", c), Call("tell", c)>> ELSE <<>>)
        /\ overtaken' = [overtaken EXCEPT ![c] = @ \/ Contended(t, c)]
        /\ UNCHANGED <<cand, bound, view, listening>>

\* submit_probe_result for a Supported result: UnitAdded and UnitUpdated bind a
\* scanner, UnitOnline and UnitOffline do not.  Whether the candidate is still
\* present is not asked.
Submit(t) ==
    LET c == Subject(t)
        found == Head(todo[t]).found
    IN  /\ Doing(t, "submit")
        /\ unit' = [unit EXCEPT ![c] = IF cand[c] = "unknown" THEN @ ELSE found]
        /\ Continue(t, IF cand[c] # "unknown" /\ unit[c] \in {"none", found}
                       THEN <<Call("bind", c), Call("tell", c)>> ELSE <<>>)
        /\ overtaken' = [overtaken EXCEPT ![c] = @ \/ Contended(t, c)]
        /\ UNCHANGED <<cand, bound, view, listening>>

\* The daemon's subscriber: bind_scanner keeps a binding there is.
Bind(t) ==
    /\ Doing(t, "bind")
    /\ bound' = [bound EXCEPT ![Subject(t)] = TRUE]
    /\ Continue(t, <<>>)
    /\ UNCHANGED <<cand, unit, view, listening, overtaken>>

Unbind(t) ==
    /\ Doing(t, "unbind")
    /\ bound' = [bound EXCEPT ![Subject(t)] = FALSE]
    /\ Continue(t, <<>>)
    /\ UNCHANGED <<cand, unit, view, listening, overtaken>>

\* The watching client's channel gets a UnitAdded, a UnitUpdated or a UnitRemoved;
\* the channel keeps their order, so the client's list is changed here.
Tell(t) ==
    /\ Doing(t, "tell") \/ Doing(t, "untell")
    /\ view' = [view EXCEPT ![Subject(t)] = Doing(t, "tell")]
    /\ Continue(t, <<>>)
    /\ UNCHANGED <<cand, unit, bound, listening, overtaken>>

\* A step of thread t inside the registry or one of its subscribers.
RegistryStep(t) ==
    Upsert(t) \/ MarkGone(t) \/ Submit(t) \/ Bind(t) \/ Unbind(t) \/ Tell(t)

\* ProbeScheduler::start connects to the signal.
Listen ==
    /\ ~listening
    /\ listening' = TRUE
    /\ UNCHANGED <<cand, unit, bound, view, todo, overtaken>>

-----------------------------------------------------------------------------
RegistryTypeOK ==
    /\ cand \in [Candidates -> {"unknown", "present", "gone"}]
    /\ unit \in [Candidates -> Findings]
    /\ bound \in [Candidates -> BOOLEAN]
    /\ view \in [Candidates -> BOOLEAN]
    /\ listening \in BOOLEAN
    /\ todo \in [Threads -> Seq(Calls)]
    /\ overtaken \in [Candidates -> BOOLEAN]

\* No thread is in the middle of anything about c.
Settled(c) == \A t \in Threads : ~About(t, c)
==============================================================================
