----------------------------- MODULE ScanSession -----------------------------
(***************************************************************************)
(* What the observation service promises about the scan of one unit, with  *)
(* no thread, lock or transport in sight: a scanner is bound to the unit,  *)
(* a scan is started, reports devices, is asked to stop, ends, and only    *)
(* then may the scanner be taken away.  ScannerManager implements it.      *)
(***************************************************************************)
EXTENDS Naturals

CONSTANTS Units,    \* inventory units a scanner can be bound to
          Devices   \* BLE devices an advertisement can come from

VARIABLES session,  \* session[u]: the phase of u's scan
          observed  \* observed[u][d]: events published for d since u was bound

sessionVars == <<session, observed>>

Init ==
    /\ session = [u \in Units |-> "unbound"]
    /\ observed = [u \in Units |-> [d \in Devices |-> 0]]

Become(u, from, to) ==
    /\ session[u] \in from
    /\ session' = [session EXCEPT ![u] = to]

Bind(u)  == Become(u, {"unbound"}, "idle") /\ UNCHANGED observed
Start(u) == Become(u, {"idle"}, "scanning") /\ UNCHANGED observed
Stop(u)  == Become(u, {"scanning"}, "stopping") /\ UNCHANGED observed

\* The scan ends: it was asked to stop, or it lost its link.
End(u) == Become(u, {"scanning", "stopping"}, "idle") /\ UNCHANGED observed

\* Only a scanner with no scan in flight is taken away, with what it retained.
Unbind(u) ==
    /\ Become(u, {"idle"}, "unbound")
    /\ observed' = [observed EXCEPT ![u] = [d \in Devices |-> 0]]

\* An event is published for a device only while a scan is in flight.
Observe(u, d) ==
    /\ session[u] \in {"scanning", "stopping"}
    /\ observed' = [observed EXCEPT ![u][d] = @ + 1]
    /\ UNCHANGED session

Next ==
    \E u \in Units :
        \/ Bind(u) \/ Start(u) \/ Stop(u) \/ End(u) \/ Unbind(u)
        \/ \E d \in Devices : Observe(u, d)

Spec == Init /\ [][Next]_sessionVars
==============================================================================
