----------------------------- MODULE ServerStore -----------------------------
(***************************************************************************)
(* The gateway's record of the headsets (unicast servers) it knows:        *)
(*   rf5340 src/bluetooth/bt_stream/unicast/server_store.c.                *)
(*                                                                         *)
(* The store is an array searched by address.  Its operations are written  *)
(* as operators on the array; UnicastClient and Gateway hold it in a       *)
(* variable and call them under the store's lock, as the code does.  An    *)
(* operation that may refuse is a pair of a result and the new array.      *)
(* Names, contexts and the printing of capabilities are left out: nothing  *)
(* reads the first two.                                                    *)
(***************************************************************************)
EXTENDS Integers, Sequences, FiniteSets

CONSTANTS Addrs,        \* the addresses of the headsets
          NoAddr,       \* BT_ADDR_LE_ANY, the address of an empty entry
          MaxServers,   \* MAX_SERVERS
          MaxEps,       \* CONFIG_BT_BAP_UNICAST_CLIENT_ASE_SNK_COUNT and _SRC_COUNT
          MaxCaps,      \* CONFIG_CODEC_CAP_COUNT_MAX
          PreferredRate \* CONFIG_BT_AUDIO_PREF_SINK_SAMPLE_RATE_VALUE and _SOURCE_, in kHz

ASSUME StoreAssumption ==
    /\ NoAddr \notin Addrs /\ IsFiniteSet(Addrs)
    /\ MaxServers \in Nat \ {0} /\ MaxEps \in Nat \ {0} /\ MaxCaps \in Nat \ {0}

Dirs == {"sink", "source"}
Entries == 1..MaxServers
NoConn == 0 \* connections are numbered from 1, as slots of Zephyr's pool
Streams == Entries \X Dirs \X (1..MaxEps) \* cap_streams[] of each direction of each entry

\* A preset is its rate in kHz, its octets per frame and its presentation
\* delay in ms; zeroed, it has none of the three.
NoPreset == [rate |-> 0, octets |-> 0, pd |-> 0]
Lc3Presets == {[rate |-> 48, octets |-> 120, pd |-> 40],
               [rate |-> 24, octets |-> 60, pd |-> 40],
               [rate |-> 16, octets |-> 40, pd |-> 40]}

EmptyHalf == [waiting |-> FALSE, locations |-> {}, presets |-> [i \in 1..MaxEps |-> NoPreset],
              caps |-> <<>>, eps |-> 0]
NoServer == [addr |-> NoAddr, conn |-> NoConn, member |-> FALSE, sink |-> EmptyHalf, source |-> EmptyHalf]

Least(S) == CHOOSE x \in S : \A y \in S : x <= y
Greatest(S) == CHOOSE x \in S : \A y \in S : x >= y
Result(ret, servers) == [ret |-> ret, servers |-> servers]

-----------------------------------------------------------------------------
(* Entries by address and by connection.                                   *)

\* The first entry with this address, or 0.
FromAddr(servers, addr) ==
    LET found == {i \in Entries : servers[i].addr = addr}
    IN IF found = {} THEN 0 ELSE Least(found)

\* The entry of a connection to this address, if it is that connection's.
FromConn(servers, conn, addr) ==
    LET i == FromAddr(servers, addr)
    IN IF i # 0 /\ servers[i].conn = conn THEN i ELSE 0

ServerAdd(servers, server) ==
    LET free == FromAddr(servers, NoAddr)
    IN IF free = 0 THEN Result("ENOMEM", servers)
       ELSE Result("ok", [servers EXCEPT ![free] = server])

AddByAddr(servers, addr) ==
    IF FromAddr(servers, addr) # 0 THEN Result("EALREADY", servers)
    ELSE ServerAdd(servers, [NoServer EXCEPT !.addr = addr])

AddByConn(servers, conn, addr) ==
    IF FromConn(servers, conn, addr) # 0 THEN Result("EALREADY", servers)
    ELSE ServerAdd(servers, [NoServer EXCEPT !.addr = addr, !.conn = conn])

ConnUpdate(servers, conn, addr) ==
    LET i == FromAddr(servers, addr)
    IN IF i = 0 THEN Result("ENOENT", servers)
       ELSE IF servers[i].conn # NoConn THEN Result("EACCES", servers)
       ELSE Result("ok", [servers EXCEPT ![i].conn = conn])

\* Mutant: the entry keeps its connection.
ClearByConnKeepsConn(servers, conn, addr) ==
    LET i == FromAddr(servers, addr)
    IN IF i = 0 THEN servers
       ELSE [servers EXCEPT ![i] = [NoServer EXCEPT !.addr = addr, !.conn = conn]]

\* All but the address and the streams goes; an entry of another connection is
\* cleared all the same.
ClearByConn(servers, conn, addr) ==
    LET i == FromAddr(servers, addr)
    IN IF i = 0 THEN servers ELSE [servers EXCEPT ![i] = [NoServer EXCEPT !.addr = addr]]

NoServers == [i \in Entries |-> NoServer] \* srv_store_init

Connected(servers) == {i \in Entries : servers[i].conn # NoConn} \* srv_store_foreach_server

-----------------------------------------------------------------------------
(* What a headset can do, and the preset made of it.                       *)

LocationSet(servers, i, dir, loc) == [servers EXCEPT ![i][dir].locations = loc]

CodecCapSet(servers, i, dir, cap) ==
    IF Len(servers[i][dir].caps) >= MaxCaps THEN servers
    ELSE [servers EXCEPT ![i][dir].caps = Append(@, cap)]

\* The preferred rate if the record has it, or else the highest one.
SampleRate(rates) ==
    IF PreferredRate \in rates THEN PreferredRate
    ELSE LET known == rates \cap {p.rate : p \in Lc3Presets}
         IN IF known = {} THEN 0 ELSE Greatest(known)

\* One capability record, a sequence of values of type "rates" or "octets".
\* Parsing ends at a value the gateway cannot serve; a length read before the
\* rate finds no preset to check.
PacParse(cap) ==
    LET parse[k \in 0..Len(cap)] ==
            IF k = 0 THEN [go |-> TRUE, preset |-> NoPreset]
            ELSE LET before == parse[k - 1]
                     v == cap[k]
                     rate == SampleRate(v.rates)
                 IN IF ~before.go THEN before
                    ELSE IF v.type = "rates"
                    THEN IF rate = 0 THEN [before EXCEPT !.go = FALSE]
                         ELSE [go |-> TRUE, preset |-> CHOOSE p \in Lc3Presets : p.rate = rate]
                    ELSE IF before.preset = NoPreset THEN [before EXCEPT !.go = FALSE]
                    ELSE IF before.preset.octets \in v.min .. v.max THEN before
                    ELSE [before EXCEPT !.preset.octets = v.max]
    IN parse[Len(cap)].preset

\* Whether a record's preset replaces the one an earlier record gave.
PresetValidated(new, old) ==
    \/ old = NoPreset
    \/ /\ \/ new.rate >= old.rate /\ old.rate # PreferredRate
          \/ new.rate = PreferredRate
       /\ \/ new.rate = PreferredRate /\ old.rate # PreferredRate
          \/ new.octets >= old.octets

\* The records that can be served, and the preset the best of them gives.
ValidCodecCaps(half) == {k \in DOMAIN half.caps : PacParse(half.caps[k]) # NoPreset}
BestPreset(half) ==
    LET best[k \in 0..Len(half.caps)] ==
            IF k = 0 THEN half.presets[1]
            ELSE LET new == PacParse(half.caps[k])
                 IN IF new # NoPreset /\ PresetValidated(new, best[k - 1]) THEN new ELSE best[k - 1]
    IN best[Len(half.caps)]

\* How many channels a direction plays: one for mono, too (POPCOUNT_ZERO).
Channels(half) == IF half.locations = {} THEN 1 ELSE Cardinality(half.locations)
Used(half) == 1 .. Least({half.eps, Channels(half)})

-----------------------------------------------------------------------------
(* The presentation delay of a group.  A preference is [min, prefMin,      *)
(* prefMax, max], zero where the headset has none.                         *)

\* pres_delay_compute over preferences that all have a least and a greatest delay.
CommonQos(prefs) == [min |-> Greatest({p.min : p \in prefs}),
                     prefMin |-> Greatest({p.prefMin : p \in prefs}),
                     max |-> Least({p.max : p \in prefs})]
Bounded(p) == p.min # 0 /\ p.max # 0

\* srv_store_pres_dly_find for a stream whose headset prefers "incoming".
\* others: the group's other streams with an endpoint, in order, each with its
\* delay and its headset's preference.  The first delay in range ends the
\* search; a stream without a delay or without bounds fails it.  That the
\* streams differ in their delays is never noticed: the check compares a
\* pointer's target with itself.
PresDlyFind(incoming, others) ==
    LET inRange == {k \in DOMAIN others : others[k].pd \in incoming.min .. incoming.max}
        failing == {k \in DOMAIN others \ inRange : others[k].pd = 0 \/ ~Bounded(others[k].pref)}
        common == CommonQos({incoming} \cup {others[k].pref : k \in DOMAIN others})
        reconfig == DOMAIN others # {} /\ (inRange = {} \/ Least(inRange) # 1)
        ok(pd) == [ret |-> "ok", pd |-> pd, reconfig |-> reconfig]
        error == [ret |-> "error", pd |-> 0, reconfig |-> reconfig]
    IN IF ~Bounded(incoming) THEN error
       ELSE IF failing # {} /\ (inRange = {} \/ Least(failing) < Least(inRange)) THEN error
       ELSE IF inRange # {} THEN ok(others[Least(inRange)].pd)
       ELSE IF others = <<>> THEN ok(IF incoming.prefMin = 0 THEN incoming.min ELSE incoming.prefMin)
       ELSE IF common.min > common.max THEN error
       ELSE IF common.prefMin > common.min /\ common.prefMin <= common.max THEN ok(common.prefMin)
       ELSE ok(common.min)
=============================================================================
