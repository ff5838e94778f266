----------------------------- MODULE MdnsProvider -----------------------------
(***************************************************************************)
(* The mDNS provider, backend/inventory/providers/src/mdns_provider.cpp:   *)
(* services that announce themselves become candidates, and a thread of    *)
(* its own pings every host twice a second to notice the ones that         *)
(* disappear without a goodbye.                                            *)
(*                                                                         *)
(* The monitor's thread and the ping thread share ping_targets_ under      *)
(* ping_mutex_.  The ping thread pings without it, but calls the registry  *)
(* (and so the prober, the scanner manager and the clients) while it holds *)
(* it.  The mDNS browser itself is an external library.                    *)
(***************************************************************************)
EXTENDS Registry

CONSTANTS MonitorThread, PingThread,
          Free,                   \* ping_mutex_ when nobody holds it
          NoAnswer,               \* the ping thread has no ping result in hand
          PingFailuresBeforeGone, \* consecutive failures after which a host is gone
          MaxChanges              \* bound: how often the network changes

ASSUME MdnsAssumption ==
    /\ Threads = {MonitorThread, PingThread}
    /\ MonitorThread # PingThread
    /\ Free \notin Threads
    /\ PingFailuresBeforeGone \in Nat \ {0}
    /\ MaxChanges \in Nat

VARIABLES
    announced, \* announced[c]: the service is in the mDNS cache
    ipv4,      \* ipv4[c]: the announcement has an IPv4 address of the host
    alive,     \* alive[c]: its host answers pings
    agent,     \* agent[c]: its TCP port accepts connections
    told,      \* told[c]: the monitor's last callback for c was on_arrived
    pingMutex, \* the thread that holds ping_mutex_ over a call, or Free
    target,    \* target[c]: c's entry in ping_targets_
    round,     \* candidates of the ping thread's snapshot that are not pinged yet
    answer,    \* the ping result in hand: whose it is, and whether it was answered
    changes    \* how many times the network changed (bounded)

networkVars == <<announced, ipv4, alive, agent, changes>>
pingVars == <<pingMutex, target, round, answer>>
mdnsVars == <<registryVars, networkVars, told, pingVars>>

NoTarget == [tracked |-> FALSE, failures |-> 0, gone |-> FALSE]
NewTarget == [tracked |-> TRUE, failures |-> 0, gone |-> FALSE]

Init ==
    /\ InitRegistry
    /\ announced = [c \in Candidates |-> FALSE]
    /\ ipv4 \in [Candidates -> BOOLEAN]
    /\ alive = [c \in Candidates |-> TRUE]
    /\ agent \in [Candidates -> BOOLEAN]
    /\ told = [c \in Candidates |-> FALSE]
    /\ pingMutex = Free
    /\ target = [c \in Candidates |-> NoTarget]
    /\ round = {}
    /\ answer = NoAnswer
    /\ changes = 0

Flip(f, c) == [f EXCEPT ![c] = ~@]

\* A service appears or expires, a host goes or comes, its agent starts or stops.
\* The addresses of a service change between two announcements only.
NetworkChanges(c) ==
    /\ changes < MaxChanges
    /\ changes' = changes + 1
    /\ \/ announced' = Flip(announced, c) /\ UNCHANGED <<ipv4, alive, agent>>
       \/ ipv4' = Flip(ipv4, c) /\ ~announced[c] /\ ~told[c]
          /\ UNCHANGED <<announced, alive, agent>>
       \/ alive' = Flip(alive, c) /\ UNCHANGED <<announced, ipv4, agent>>
       \/ agent' = Flip(agent, c) /\ UNCHANGED <<announced, ipv4, alive>>
    /\ UNCHANGED <<registryVars, told, pingVars>>

-----------------------------------------------------------------------------
(* The monitor's thread.                                                    *)

Return(t, calls) == todo' = [todo EXCEPT ![t] = calls]
KeepMaps == UNCHANGED <<cand, unit, bound, view, listening, overtaken>>

\* on_arrived: the candidate is upserted first, and only then a ping target, if
\* the announcement has an address that can be pinged.
Arrived(c) ==
    /\ Idle(MonitorThread)
    /\ announced[c] /\ ~told[c]
    /\ told' = [told EXCEPT ![c] = TRUE]
    /\ Return(MonitorThread, IF ipv4[c] THEN <<Call("upsert", c), Call("monitor", c)>>
                             ELSE <<Call("upsert", c)>>)
    /\ KeepMaps
    /\ UNCHANGED <<networkVars, pingVars>>

Track ==
    /\ Doing(MonitorThread, "monitor")
    /\ pingMutex = Free
    /\ target' = [target EXCEPT ![Subject(MonitorThread)] = NewTarget]
    /\ Continue(MonitorThread, <<>>)
    /\ KeepMaps
    /\ UNCHANGED <<networkVars, told, pingMutex, round, answer>>

\* Mutant: the target is left to the ping thread.
DepartedKeepsTarget(c) ==
    /\ Idle(MonitorThread)
    /\ ~announced[c] /\ told[c]
    /\ pingMutex = Free
    /\ told' = [told EXCEPT ![c] = FALSE]
    /\ Return(MonitorThread, <<Call("gone", c)>>)
    /\ KeepMaps
    /\ UNCHANGED <<networkVars, pingMutex, target, round, answer>>

\* on_departed: the target is erased under the lock, then the candidate is gone.
Departed(c) ==
    /\ Idle(MonitorThread)
    /\ ~announced[c] /\ told[c]
    /\ pingMutex = Free
    /\ told' = [told EXCEPT ![c] = FALSE]
    /\ target' = [target EXCEPT ![c] = NoTarget]
    /\ Return(MonitorThread, <<Call("gone", c)>>)
    /\ KeepMaps
    /\ UNCHANGED <<networkVars, pingMutex, round, answer>>

-----------------------------------------------------------------------------
(* The ping thread.                                                         *)

\* A round starts with a snapshot of the targets.
StartRound ==
    /\ Idle(PingThread)
    /\ round = {} /\ answer = NoAnswer
    /\ pingMutex = Free
    /\ round' = {c \in Candidates : target[c].tracked}
    /\ round' # {}
    /\ UNCHANGED <<registryVars, networkVars, told, pingMutex, target, answer>>

\* One host is pinged, without the lock.
Ping(c) ==
    /\ Idle(PingThread)
    /\ answer = NoAnswer
    /\ c \in round
    /\ round' = round \ {c}
    /\ answer' = [cand |-> c, alive |-> alive[c]]
    /\ UNCHANGED <<registryVars, networkVars, told, pingMutex, target>>

\* Mutant: the counter is restarted where it should be increased.
FailuresRestart(c) == 1

\* Mutant: the counter goes on where the code only compares it.
FailuresUncapped(c) == target[c].failures + 1

\* consecutive_failures + 1, capped where the code only asks whether it is reached.
Failures(c) == IF target[c].failures = PingFailuresBeforeGone THEN PingFailuresBeforeGone
               ELSE target[c].failures + 1

\* The result is applied under the lock to the target as it is now, if it is
\* still there, and nothing is due to the registry.
AnswerNoted ==
    /\ answer # NoAnswer
    /\ pingMutex = Free
    /\ LET c == answer.cand
       IN  /\ answer.alive => ~target[c].gone
           /\ ~answer.alive => target[c].gone \/ ~target[c].tracked
                               \/ Failures(c) < PingFailuresBeforeGone
           /\ target' = IF ~target[c].tracked THEN target
                        ELSE [target EXCEPT ![c].failures = IF answer.alive THEN 0
                                                            ELSE Failures(c)]
    /\ answer' = NoAnswer
    /\ UNCHANGED <<registryVars, networkVars, told, pingMutex, round>>

\* Mutant: the lock is released before the registry is called.
RecoveredUnlocked ==
    /\ answer # NoAnswer
    /\ pingMutex = Free
    /\ answer.alive /\ target[answer.cand].gone
    /\ target' = [target EXCEPT ![answer.cand] = NewTarget]
    /\ answer' = NoAnswer
    /\ Return(PingThread, <<Call("upsert", answer.cand)>>)
    /\ KeepMaps
    /\ UNCHANGED <<networkVars, told, pingMutex, round>>

\* Mutant: the target is as new again, but the registry is not told.
RecoveredSilently ==
    /\ answer # NoAnswer
    /\ pingMutex = Free
    /\ answer.alive /\ target[answer.cand].gone
    /\ target' = [target EXCEPT ![answer.cand] = NewTarget]
    /\ answer' = NoAnswer
    /\ UNCHANGED <<registryVars, networkVars, told, pingMutex, round>>

\* A host that was gone answers: the candidate is upserted, the lock still held.
Recovered ==
    /\ answer # NoAnswer
    /\ pingMutex = Free
    /\ answer.alive /\ target[answer.cand].gone
    /\ target' = [target EXCEPT ![answer.cand] = NewTarget]
    /\ answer' = NoAnswer
    /\ pingMutex' = PingThread
    /\ Return(PingThread, <<Call("upsert", answer.cand), Call("unlock", answer.cand)>>)
    /\ KeepMaps
    /\ UNCHANGED <<networkVars, told, round>>

\* The last of too many failures in a row: the candidate is marked gone, the
\* lock still held.
Lost ==
    /\ answer # NoAnswer
    /\ pingMutex = Free
    /\ ~answer.alive
    /\ LET c == answer.cand
       IN  /\ target[c].tracked /\ ~target[c].gone
           /\ Failures(c) = PingFailuresBeforeGone
           /\ target' = [target EXCEPT ![c] = [@ EXCEPT !.failures = Failures(c), !.gone = TRUE]]
           /\ Return(PingThread, <<Call("gone", c), Call("unlock", c)>>)
    /\ answer' = NoAnswer
    /\ pingMutex' = PingThread
    /\ KeepMaps
    /\ UNCHANGED <<networkVars, told, round>>

Unlock ==
    /\ Doing(PingThread, "unlock")
    /\ Continue(PingThread, <<>>)
    /\ pingMutex' = Free
    /\ KeepMaps
    /\ UNCHANGED <<networkVars, told, target, round, answer>>

-----------------------------------------------------------------------------
\* The mDNS prober connects to the announced port.
ProbeStep(t) ==
    /\ Doing(t, "probe")
    /\ Probe(t, IF agent[Subject(t)] THEN "online" ELSE "none")
    /\ UNCHANGED <<networkVars, told, pingVars>>

CallStep(t) == RegistryStep(t) /\ UNCHANGED <<networkVars, told, pingVars>>

StartScheduler == Listen /\ UNCHANGED <<networkVars, told, pingVars>>

MonitorStep ==
    \/ CallStep(MonitorThread) \/ ProbeStep(MonitorThread)
    \/ Track
    \/ \E c \in Candidates : Arrived(c) \/ Departed(c)

PingStep ==
    \/ CallStep(PingThread) \/ ProbeStep(PingThread)
    \/ StartRound \/ AnswerNoted \/ Recovered \/ Lost \/ Unlock
    \/ \E c \in Candidates : Ping(c)

Next ==
    \/ \E c \in Candidates : NetworkChanges(c)
    \/ StartScheduler
    \/ MonitorStep
    \/ PingStep

\* The two threads run and startup completes; ping and connect have timeouts, so
\* neither keeps the other from ping_mutex_ for ever.
Fairness ==
    /\ WF_mdnsVars(StartScheduler)
    /\ WF_mdnsVars(MonitorStep)
    /\ WF_mdnsVars(PingStep)

Spec == Init /\ [][Next]_mdnsVars
FairSpec == Spec /\ Fairness

-----------------------------------------------------------------------------
TypeOK ==
    /\ RegistryTypeOK
    /\ announced \in [Candidates -> BOOLEAN]
    /\ ipv4 \in [Candidates -> BOOLEAN]
    /\ alive \in [Candidates -> BOOLEAN]
    /\ agent \in [Candidates -> BOOLEAN]
    /\ told \in [Candidates -> BOOLEAN]
    /\ pingMutex \in {Free, PingThread}
    /\ target \in [Candidates -> [tracked : BOOLEAN, gone : BOOLEAN,
                                  failures : 0..PingFailuresBeforeGone]]
    /\ round \subseteq Candidates
    /\ answer \in {NoAnswer} \cup [cand : Candidates, alive : BOOLEAN]
    /\ changes \in 0..MaxChanges

\* When a departure has been handled nothing of the service is left, whatever
\* the ping thread was doing meanwhile: no candidate that is present, no unit,
\* no scanner, no entry in a client's list.
DepartedLeavesNothing ==
    \A c \in Candidates : ~told[c] /\ Idle(MonitorThread) =>
        cand[c] # "present" /\ unit[c] = "none" /\ ~bound[c] /\ ~view[c]

\* The two threads never work on the same candidate at the same time, so the
\* events about it are delivered in the order of the changes.
NeverOvertaken == \A c \in Candidates : ~overtaken[c]

\* A host that stays silent is taken out of the inventory, and kept out.  One that
\* announces no IPv4 address is never pinged, and stays until its service expires.
SilentIsGone ==
    \A c \in Candidates :
        <>[](~alive[c] /\ (ipv4[c] \/ ~announced[c])) =>
            <>[](cand[c] # "present" /\ unit[c] = "none")

\* A service that stays announced and whose host keeps answering is a candidate.
AnsweringIsPresent ==
    \A c \in Candidates : <>[](announced[c] /\ alive[c]) => <>[](cand[c] = "present")

\* docs/diagrams/DAEMON-1-inventory-state-machine.mmd has a candidate whose probe
\* failed probed again after 10 s, so an agent that answers for good ends as a
\* unit.  The scheduler's reprobe loop skips mDNS candidates.
AnsweringAgentIsServed ==
    \A c \in Candidates :
        <>[](announced[c] /\ alive[c] /\ agent[c]) => <>[](unit[c] = "online" /\ bound[c])
==============================================================================
