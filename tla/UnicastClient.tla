---------------------------- MODULE UnicastClient ----------------------------
(***************************************************************************)
(* The gateway's unicast client: discovery of a headset's endpoints, the   *)
(* unicast group its streams are in, and the start and stop procedures of  *)
(* the Common Audio Profile (CAP):                                         *)
(*   rf5340 src/bluetooth/bt_stream/unicast/unicast_client.c.              *)
(*                                                                         *)
(* Its functions call each other and each runs under the store's lock or   *)
(* in a cooperative thread, so they are operators from the client's state  *)
(* to its next one; Gateway holds that state in a variable and has the     *)
(* threads.  The waits for the lock of the start procedure and its worker  *)
(* may time out, the callbacks' are taken to succeed.  The iterators       *)
(* unicast_group_create leaves uninitialised are taken as zero.            *)
(* CAP and BAP are external: a start is refused if a stream of it is in no *)
(* group, and one group exists at a time (BT_ISO_MAX_CIG is 1).            *)
(***************************************************************************)
EXTENDS ServerStore

CONSTANTS Profile,       \* what each headset has: Profile[addr][dir], see Script
          Bidirectional, \* CONFIG_STREAM_BIDIRECTIONAL
          GroupMax,      \* CONFIG_BT_BAP_UNICAST_CLIENT_GROUP_STREAM_COUNT
          MaxWaiting,    \* CONFIG_BT_ISO_MAX_CHAN, the depth of cap_proc_q
          MaxConn        \* CONFIG_BT_MAX_CONN

ASSUME ClientAssumption ==
    /\ Bidirectional \in BOOLEAN
    /\ GroupMax \in Nat \ {0} /\ MaxWaiting \in Nat \ {0} /\ MaxConn \in Nat \ {0}

Conns == 1..MaxConn
NoStream == <<0, "none", 0>>
NoProc == [kind |-> "none", all |-> {}, todo |-> {}]
NotDiscovering == [dir |-> "none", next |-> 0]
EpStates == {"none", "codec", "streaming", "disabled"} \* "none": the stream has no endpoint
AudioEvents == {"STREAMING", "NOT_STREAMING", "NO_VALID_CFG", "CONFIG_RECEIVED", "COORD_SET_DISCOVERED"}

ClientInit(servers) ==
    [servers |-> servers,
     sem |-> 1,               \* sem_cap_procedure_proceed
     capQ |-> <<>>,           \* cap_proc_q
     created |-> FALSE,       \* unicast_group_created
     playing |-> TRUE,        \* playing_state
     startWork |-> FALSE,     \* cap_start_work is submitted
     audioQ |-> <<>>,         \* le_audio_chan
     kept |-> FALSE,          \* history: a start ended and kept the semaphore
     \* the stack's
     group |-> <<>>,          \* the unicast group, its pairs of streams, if there is one
     ep |-> [s \in Streams |-> "none"],
     proc |-> NoProc,         \* the CAP procedure under way, its streams and those it has not begun
     disc |-> [c \in Conns |-> NotDiscovering], \* BAP discovery of a connection
     cas |-> [c \in Conns |-> FALSE]]           \* CAP discovery of a connection

Publish(u, event, conn, dir) == [u EXCEPT !.audioQ = Append(@, [event |-> event, conn |-> conn, dir |-> dir])]

\* Streams in the order of the code's loops.
Rank(s) == s[1] * 100 + (IF s[2] = "sink" THEN 0 ELSE 50) + s[3]
Earliest(S) == CHOOSE s \in S : \A t \in S : Rank(s) <= Rank(t)
InOrder(S) == [k \in 1..Cardinality(S) |->
                   CHOOSE s \in S : Cardinality({t \in S : Rank(t) <= Rank(s)}) = k]

GroupStreams(u) == (UNION {{p.tx, p.rx} : p \in {u.group[k] : k \in DOMAIN u.group}}) \ {NoStream}
PresetOf(u, s) == u.servers[s[1]][s[2]].presets[s[3]]

-----------------------------------------------------------------------------
(* Starting and stopping streams.  One procedure runs at a time; one asked *)
(* for meanwhile waits in cap_proc_q.                                      *)

EnqueueProc(u, kind) == IF Len(u.capQ) < MaxWaiting THEN [u EXCEPT !.capQ = Append(@, kind)] ELSE u

Begun(u, kind, S) == [u EXCEPT !.sem = 0, !.proc = [kind |-> kind, all |-> S, todo |-> S]]

\* add_to_start_params: the streams of connected headsets that do not run.
StartParams(u) ==
    {s \in Streams : /\ s[1] \in Connected(u.servers)
                     /\ s[3] \in Used(u.servers[s[1]][s[2]])
                     /\ u.ep[s] # "streaming"}

\* Mutant: with nothing to start the semaphore is not given back.
StartTakenLeaks(u) ==
    IF StartParams(u) = {} THEN [u EXCEPT !.sem = 0]
    ELSE IF ~(StartParams(u) \subseteq GroupStreams(u)) THEN [u EXCEPT !.sem = 1]
    ELSE Begun(u, "start", StartParams(u))

\* unicast_client_start once it has the semaphore; nothing to start and a
\* refusal give it back.
StartTaken(u) ==
    IF StartParams(u) = {} \/ ~(StartParams(u) \subseteq GroupStreams(u)) THEN [u EXCEPT !.sem = 1]
    ELSE Begun(u, "start", StartParams(u))

\* unicast_client_start when its wait for the store's lock times out: it returns
\* with the semaphore taken.
StartTimesOut(u) == [u EXCEPT !.sem = 0, !.kept = TRUE]

\* unicast_client_stop: all streams of the group with an endpoint are released.
StopTaken(u) ==
    LET todo == {s \in GroupStreams(u) : u.ep[s] # "none"}
    IN IF todo = {} THEN [u EXCEPT !.sem = 1]
       ELSE Begun(u, "stop", todo)

Taken(u, kind) == IF kind = "start" THEN StartTaken(u) ELSE StopTaken(u)

\* Both, called where no other thread can step in between.
Request(u, kind) == IF u.sem = 0 THEN EnqueueProc(u, kind) ELSE Taken(u, kind)

\* cap_proc_waiting_check: one waiting procedure is run.
WaitingCheck(u) ==
    IF u.capQ = <<>> THEN u ELSE Request([u EXCEPT !.capQ = Tail(@)], Head(u.capQ))

\* unicast_start_complete_cb and unicast_stop_complete_cb, with or without an error.
ProcEnds(u) == [u EXCEPT !.sem = 1, !.proc = NoProc, !.playing = (u.proc.kind = "start")]
ProcComplete(u) == WaitingCheck(ProcEnds(u))

-----------------------------------------------------------------------------
(* The unicast group.                                                      *)

\* unicast_group_populate: a headset's streams up to the first without a valid
\* preset, the sinks first.
Populated(u, dir) ==
    LET valid(i, d, k) == PresetOf(u, <<i, d, k>>).pd # 0
        upTo(i, d, k) == \A j \in 1..k : valid(i, d, j)
    IN {s \in Streams : /\ s[1] \in Connected(u.servers) /\ s[2] = dir
                        /\ s[3] \in Used(u.servers[s[1]][dir])
                        /\ upTo(s[1], dir, s[3])
                        /\ dir = "source" => \A k \in Used(u.servers[s[1]].sink) : valid(s[1], "sink", k)}

\* The sources are searched from the number of the pair on.
Pairs(u) ==
    LET sinks == InOrder(Populated(u, "sink"))
        sources == InOrder(Populated(u, "source"))
        same(k) == {j \in DOMAIN sources : j >= k /\ sources[j][1] = sinks[k][1]}
        paired == [k \in DOMAIN sinks |->
                     [tx |-> sinks[k], rx |-> IF same(k) = {} THEN NoStream ELSE sources[Least(same(k))]]]
        alone == {sources[j] : j \in DOMAIN sources} \ {paired[k].rx : k \in DOMAIN paired}
    IN paired \o [k \in 1..Cardinality(alone) |-> [tx |-> NoStream, rx |-> InOrder(alone)[k]]]

\* unicast_group_create: the stack refuses a second group.
GroupCreate(u) ==
    IF Pairs(u) = <<>> \/ u.group # <<>> THEN u
    ELSE [u EXCEPT !.group = Pairs(u), !.created = TRUE]

\* server_stream_in_unicast_group_check: only the sinks are looked at.
MissingFromGroup(u, up) ==
    \E i \in Connected(u.servers) :
        /\ up[u.servers[i].conn]
        /\ u.servers[i].sink.presets[1].pd # 0 \/ u.servers[i].source.presets[1].pd # 0
        /\ \E k \in Used(u.servers[i].sink) : <<i, "sink", k>> \notin GroupStreams(u)

\* Whether the worker, had it the store's lock, would stop the streams for a new group.
GroupFull(u) == Cardinality(GroupStreams(u)) >= GroupMax
StopsForNew(u, up) == u.created /\ ~GroupFull(u) /\ MissingFromGroup(u, up)

\* cap_start_worker.  up: the connections in state CONNECTED.
StartWorker(u, up) ==
    LET v == [u EXCEPT !.startWork = FALSE]
    IN IF ~v.created THEN Request(GroupCreate(v), "start")
       ELSE IF StopsForNew(v, up)
       THEN [Request(v, "stop") EXCEPT !.created = FALSE]
       ELSE Request(v, "start")

\* cap_start_worker when it waits for the lock in vain: no group is made, the
\* headsets are not checked, the start keeps the semaphore.
StartWorkerTimeouts(u, up) ==
    LET v == [u EXCEPT !.startWork = FALSE]
    IN {w \in {v} : v.created /\ ~GroupFull(v)}
       \cup {w \in {Request(v, "start")} : ~v.created}
       \cup {w \in {StartTimesOut(v), StartTimesOut(GroupCreate(v))} :
                v.sem = 1 /\ ~StopsForNew(v, up) /\ (v.created => w = StartTimesOut(v))}

\* Mutant: the group is deleted as soon as one stream is released.
StreamReleasedEarly(u, s) ==
    LET v == [u EXCEPT !.ep[s] = "none"]
    IN IF v.created THEN v ELSE [v EXCEPT !.group = <<>>, !.startWork = TRUE]

\* A stream has its endpoint from when a start begins to configure it.
HasEp(u, s) == u.ep[s] # "none" \/ (u.proc.kind = "start" /\ u.proc.todo # {} /\ s = Earliest(u.proc.todo))

\* stream_released_cb: when a new group is wanted the last one deletes the old one.
StreamReleased(u, s) ==
    LET v == [u EXCEPT !.ep[s] = "none"]
    IN IF v.created \/ \E t \in GroupStreams(v) : HasEp(v, t) THEN v
       ELSE [v EXCEPT !.group = <<>>, !.startWork = TRUE]

-----------------------------------------------------------------------------
(* The other callbacks of a stream.                                        *)

\* srv_store_all_ep_state_count of the streaming ones: a direction's count ends
\* at its first stream without an endpoint.
StreamingCounted(u) ==
    {s \in Streams : /\ s[1] \in Connected(u.servers) /\ u.ep[s] = "streaming"
                     /\ \A k \in 1 .. s[3] - 1 : HasEp(u, <<s[1], s[2], k>>)}

\* new_pres_dly_us_set for the streams of the group.
NewPresDlySet(servers, streams, pd) ==
    [i \in Entries |->
        [d \in DOMAIN servers[i] |->
            IF d \notin Dirs THEN servers[i][d]
            ELSE [servers[i][d] EXCEPT !.presets =
                    [k \in 1..MaxEps |-> IF <<i, d, k>> \in streams
                                      THEN [rate |-> @[k].rate, octets |-> @[k].octets, pd |-> pd]
                                      ELSE @[k]]]]]

\* stream_configured_cb: the delay found is given to all streams of the group if
\* it is new or an older stream cannot keep its own.
StreamConfigured(u, s) ==
    LET v == [u EXCEPT !.ep[s] = "codec"]
        server == v.servers[s[1]]
        ranked == SelectSeq(InOrder(GroupStreams(v)), LAMBDA t : t # s /\ v.ep[t] # "none")
        others == [k \in DOMAIN ranked |-> [pd |-> PresetOf(v, ranked[k]).pd,
                                            pref |-> Profile[v.servers[ranked[k][1]].addr][ranked[k][2]].qos]]
        found == PresDlyFind(Profile[server.addr][s[2]].qos, others)
    IN IF server.addr = NoAddr \/ found.ret # "ok" \/ server.source.waiting THEN v
       ELSE Publish([v EXCEPT !.servers = IF found.pd # PresetOf(v, s).pd \/ found.reconfig
                                          THEN NewPresDlySet(@, GroupStreams(v), found.pd) ELSE @],
                    "CONFIG_RECEIVED", server.conn, s[2])

StreamStarted(u, s) ==
    Publish([u EXCEPT !.ep[s] = "streaming"], "STREAMING", u.servers[s[1]].conn, s[2])

\* Mutant: every stream that stops is told of.
StreamStoppedTold(u, s) ==
    LET v == [u EXCEPT !.ep[s] = "disabled"]
    IN Publish(v, "NOT_STREAMING", v.servers[s[1]].conn, s[2])

\* stream_stopped_cb: told only when no other stream is counted as running.
StreamStopped(u, s) ==
    LET v == [u EXCEPT !.ep[s] = "disabled"]
    IN IF StreamingCounted(v) # {} THEN v
       ELSE Publish(v, "NOT_STREAMING", v.servers[s[1]].conn, s[2])

-----------------------------------------------------------------------------
(* Discovery of a headset.                                                 *)

\* unicast_client_discover: sinks first if sources are wanted as well.
Discover(u, i) ==
    [u EXCEPT !.servers[i].sink.waiting = TRUE,
              !.servers[i].source.waiting = Bidirectional,
              !.cas[u.servers[i].conn] = TRUE,
              !.disc[u.servers[i].conn] = [dir |-> "sink", next |-> 1]]

\* The callbacks the stack makes for one direction of a headset.
Script(addr, dir) ==
    LET p == Profile[addr][dir]
    IN [k \in 1..Len(p.caps) |-> [cb |-> "pac_record", cap |-> p.caps[k]]]
       \o <<[cb |-> "location", loc |-> p.loc]>>
       \o [k \in 1 .. p.eps |-> [cb |-> "endpoint"]]
       \o <<[cb |-> "discover"]>>

\* unicast_client_location_cb.  loc: the sides a headset names; none is mono, which
\* plays the left channel, and a side that is neither is not supported.
Location(u, i, conn, dir, loc) ==
    LET set(l) == [u EXCEPT !.servers = LocationSet(@, i, dir, l)]
    IN IF {"left", "right"} \subseteq loc /\ dir = "sink" THEN set({"left", "right"})
       ELSE IF "left" \in loc \/ loc = {} THEN set({"left"})
       ELSE IF "right" \in loc THEN set({"right"})
       ELSE Publish(u, "NO_VALID_CFG", conn, dir)

\* Mutant: the store's room is not looked at.
EndpointUnchecked(u, i, dir) == [u EXCEPT !.servers[i][dir].eps = @ + 1]

\* endpoint_cb: those the store has no room for are left out.
Endpoint(u, i, dir) == [u EXCEPT !.servers[i][dir].eps = IF @ < MaxEps THEN @ + 1 ELSE @]

\* discover_cb_sink and discover_cb_source without an error.  A stereo sink gets
\* the same preset for both channels.
Discovered(u, i, conn, dir) ==
    LET half == u.servers[i][dir]
        preset == BestPreset(half)
        n == Channels(half)
        use(k) == [u EXCEPT !.servers[i][dir].presets =
                      [j \in 1..MaxEps |-> IF j <= k THEN preset ELSE @[j]]]
    IN IF ValidCodecCaps(half) = {} THEN u
       ELSE IF dir = "source" \/ (n = 1 /\ half.eps >= 1) THEN use(1)
       ELSE IF n = 2 /\ half.eps >= 2 THEN use(2)
       ELSE Publish(use(1), "NO_VALID_CFG", conn, dir)

\* discover_cb: the sources follow the sinks, and then the streams are started if
\* the gateway is playing.  up: the connection still is.
DiscoverEnds(u, i, conn, dir, err, up) ==
    LET told == [u EXCEPT !.servers[i][dir].waiting = FALSE, !.disc[conn] = NotDiscovering]
        v == IF err THEN told ELSE Discovered(told, i, conn, dir)
    IN IF v.servers[i].source.waiting
       THEN IF up THEN [v EXCEPT !.disc[conn] = [dir |-> "source", next |-> 1]] ELSE v
       ELSE [v EXCEPT !.startWork = @ \/ v.playing]

\* The next callback of a discovery; each looks the headset up again.
DiscoveryStep(u, conn, addr, up) ==
    LET at == u.disc[conn]
        i == FromConn(u.servers, conn, addr)
        s == Script(addr, at.dir)[at.next]
        v == [u EXCEPT !.disc[conn].next = @ + 1]
    IN IF s.cb = "discover" \/ ~up
       THEN IF i = 0 THEN [u EXCEPT !.disc[conn] = NotDiscovering]
            ELSE DiscoverEnds(u, i, conn, at.dir, ~up, up)
       ELSE IF i = 0 THEN v
       ELSE IF s.cb = "pac_record" THEN [v EXCEPT !.servers = CodecCapSet(@, i, at.dir, s.cap)]
       ELSE IF s.cb = "location" THEN Location(v, i, conn, at.dir, s.loc)
       ELSE Endpoint(v, i, at.dir)

\* unicast_discovery_complete_cb: the set the headset is a member of is published.
CasDiscovered(u, conn, addr, member) ==
    LET i == FromConn(u.servers, conn, addr)
        v == [u EXCEPT !.cas[conn] = FALSE]
    IN IF i = 0 THEN v
       ELSE Publish([v EXCEPT !.servers[i].member = @ \/ member], "COORD_SET_DISCOVERED", conn,
                    IF member THEN "set" ELSE "none")

\* unicast_client_conn_disconnected
ConnDisconnected(u, conn, addr) == [u EXCEPT !.servers = ClearByConn(@, conn, addr)]
=============================================================================
