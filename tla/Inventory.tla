------------------------------ MODULE Inventory -------------------------------
(***************************************************************************)
(* The inventory with its serial and host-Bluetooth providers and the      *)
(* probe scheduler's reprobe thread: backend/inventory/providers,          *)
(* probers, probe_scheduler.cpp, and the daemon's startup order.           *)
(*                                                                         *)
(* The two device monitors are an external library: each has one thread    *)
(* that compares what is attached with what it has told so far and calls   *)
(* the provider with the difference.                                       *)
(***************************************************************************)
EXTENDS Registry, FiniteSets

CONSTANTS Serial,        \* candidates behind a serial port of the Nordic board
          HostBt,        \* candidates that are Bluetooth adapters of this computer
          SerialThread, HostBtThread, ReprobeThread,
          MaxChanges     \* bound: how often a device is plugged, unplugged or switched

ASSUME InventoryAssumption ==
    /\ Candidates = Serial \cup HostBt
    /\ Serial \cap HostBt = {} /\ IsFiniteSet(Candidates)
    /\ Threads = {SerialThread, HostBtThread, ReprobeThread}
    /\ MaxChanges \in Nat

VARIABLES
    device, \* device[c]: the port or adapter is absent, there but off, or usable
    told,   \* told[c]: what the monitor's last callback said of it
    changes \* how many times a device changed (bounded)

inventoryVars == <<registryVars, device, told, changes>>

Init ==
    /\ InitRegistry
    /\ device \in [Candidates -> {"none", "online"}]
    /\ told = [c \in Candidates |-> "none"]
    /\ changes = 0

\* A port or an adapter is plugged in, unplugged, or an adapter is switched on or off.
DeviceChanges(c) ==
    /\ changes < MaxChanges
    /\ changes' = changes + 1
    /\ \E state \in (IF c \in Serial THEN {"none", "online"} ELSE Findings) \ {device[c]} :
          device' = [device EXCEPT ![c] = state]
    /\ UNCHANGED <<registryVars, told>>

Watched(t) == CASE t = SerialThread -> Serial
                [] t = HostBtThread -> HostBt
                [] OTHER -> {}

\* Mutant: the callback is chosen by the device's state, not by whether it is there.
MonitorCallbackPassesState(t, c) ==
    /\ c \in Watched(t)
    /\ Idle(t)
    /\ told[c] # device[c]
    /\ told' = [told EXCEPT ![c] = device[c]]
    /\ todo' = [todo EXCEPT ![t] = <<Call(device[c], c)>>]
    /\ UNCHANGED <<cand, unit, bound, view, listening, overtaken, device, changes>>

\* The monitor's thread calls on_arrived, on_changed or on_departed.
MonitorCallback(t, c) ==
    /\ c \in Watched(t)
    /\ Idle(t)
    /\ told[c] # device[c]
    /\ told' = [told EXCEPT ![c] = device[c]]
    /\ todo' = [todo EXCEPT ![t] = <<Call(IF device[c] = "none" THEN "gone" ELSE "upsert", c)>>]
    /\ UNCHANGED <<cand, unit, bound, view, listening, overtaken, device, changes>>

\* The serial prober looks at the candidate's USB ids only; the Bluetooth prober
\* looks for the adapter and whether it is powered.
ProbeFinds(c) == IF c \in Serial THEN "online" ELSE device[c]

ProbeStep(t) ==
    /\ Doing(t, "probe")
    /\ Probe(t, ProbeFinds(Subject(t)))
    /\ UNCHANGED <<device, told, changes>>

\* The orders in which a map's entries can be listed.
Listings(S) ==
    {order \in [1..Cardinality(S) -> S] : \A i, j \in DOMAIN order : order[i] = order[j] => i = j}

\* Every 10 seconds the reprobe thread lists the candidates that are present and
\* probes them one after the other.
Reprobe ==
    /\ listening
    /\ Idle(ReprobeThread)
    /\ \E listing \in Listings({c \in Candidates : cand[c] = "present"}) :
          /\ listing # <<>>
          /\ todo' = [todo EXCEPT ![ReprobeThread] =
                        [i \in DOMAIN listing |-> Call("probe", listing[i])]]
    /\ UNCHANGED <<cand, unit, bound, view, listening, overtaken, device, told, changes>>

CallStep(t) == RegistryStep(t) /\ UNCHANGED <<device, told, changes>>

\* main starts the monitors first, the scheduler last.
StartScheduler == Listen /\ UNCHANGED <<device, told, changes>>

ThreadStep(t) ==
    \/ CallStep(t)
    \/ ProbeStep(t)
    \/ \E c \in Candidates : MonitorCallback(t, c)

Next ==
    \/ \E c \in Candidates : DeviceChanges(c)
    \/ StartScheduler
    \/ Reprobe
    \/ \E t \in Threads : ThreadStep(t)

\* Every thread runs, startup completes, and the 10 seconds pass.
Fairness ==
    /\ WF_inventoryVars(StartScheduler)
    /\ WF_inventoryVars(Reprobe)
    /\ \A t \in Threads : WF_inventoryVars(ThreadStep(t))

Spec == Init /\ [][Next]_inventoryVars
FairSpec == Spec /\ Fairness

-----------------------------------------------------------------------------
TypeOK ==
    /\ RegistryTypeOK
    /\ device \in [Candidates -> Findings]
    /\ told \in [Candidates -> Findings]
    /\ changes \in 0..MaxChanges

\* Once nothing about a candidate is under way, registry, scanner manager and
\* client agree about its unit, and a unit has a candidate that is present,
\* unless another thread was overtaken when the candidate was last marked gone.
SettledAgree ==
    \A c \in Candidates : Settled(c) /\ ~overtaken[c] =>
        /\ bound[c] = (unit[c] # "none")
        /\ view[c] = bound[c]
        /\ unit[c] # "none" => cand[c] = "present"

\* A unit that stays plugged in and usable is found, gets its scanner and is
\* listed by the client, whatever races, failed probes and lost bindings there
\* were before: the reprobe thread repairs them.
AttachedIsServed ==
    \A c \in Candidates :
        <>[](device[c] = "online") => <>[](unit[c] = "online" /\ bound[c] /\ view[c])
==============================================================================
