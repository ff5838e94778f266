------------------------------ MODULE GatewayMC ------------------------------
(* Two headsets of one set for TLC. *)
EXTENDS Gateway

CONSTANTS h1, h2 \* the headsets

Rates(S) == [type |-> "rates", rates |-> S, min |-> 0, max |-> 0]
Octets(a, b) == [type |-> "octets", rates |-> {}, min |-> a, max |-> b]
Qos == [min |-> 20, prefMin |-> 40, max |-> 60]
None == [caps |-> <<>>, loc |-> {}, eps |-> 0, qos |-> Qos]
Caps == <<<<Rates({16, 24, 48}), Octets(40, 120)>>>>
Mono == [caps |-> Caps, loc |-> {"left"}, eps |-> 1, qos |-> Qos]
\* Three endpoints, of which an instance with MaxEps = 2 keeps two.
Stereo == [caps |-> Caps, loc |-> {"left", "right"}, eps |-> 3, qos |-> Qos]

Sinks == [a \in Addrs |-> [sink |-> IF a = h1 THEN Stereo ELSE Mono, source |-> None]]
\* The mono headset has a microphone.
MicrophoneToo == [Sinks EXCEPT ![h2].source = Mono]
OneSet == [a \in Addrs |-> "set"]
=============================================================================
