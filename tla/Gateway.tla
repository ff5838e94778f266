------------------------------- MODULE Gateway -------------------------------
(***************************************************************************)
(* The gateway application: it scans for headsets, connects to them, pairs, *)
(* has them discovered and plays to them until the button pauses it.       *)
(*   rf5340 unicast_client/main.c, src/bluetooth/bt_management/bt_mgmt.c,  *)
(*   .../scanning/bt_mgmt_scan.c, bt_mgmt_scan_for_conn.c,                 *)
(*   src/bluetooth/bt_content_control.                                     *)
(*                                                                         *)
(* The threads: the Bluetooth callbacks, the work queue with the start     *)
(* worker, the two subscribers of le_audio_chan and cont_media_chan, and   *)
(* the button's.  A callback and the worker run to their end before        *)
(* another does; the subscribers can be interrupted between two calls.     *)
(* The stack is external: it reports what becomes of a link, a discovery   *)
(* and a procedure.  The media player's command of the boot has been       *)
(* handled and has found no headset.                                       *)
(***************************************************************************)
EXTENDS UnicastClient

CONSTANTS MaxPaired,       \* CONFIG_BT_MAX_PAIRED
          SetOf,           \* the coordinated set of each headset, or NoSet
          NoSet,
          SetSize,         \* how many members a set has
          MaxMessages,     \* the buffers of le_audio_chan: a callback waits for one
          MaxDisturbances, \* bound: a press and a button's start that does not get the lock count
                           \* two, a stream the peer ends three, all else that fails four
          MaxPresses       \* bound: presses of the play/pause button

ASSUME GatewayAssumption ==
    /\ SetSize \in Nat \ {0} /\ MaxPaired \in Nat \ {0} /\ MaxMessages \in Nat \ {0}
    /\ MaxDisturbances \in Nat /\ MaxPresses \in Nat
    /\ DOMAIN SetOf = Addrs /\ DOMAIN Profile = Addrs
    /\ \A a \in Addrs, d \in Dirs : Len(Profile[a][d].caps) \in Nat /\ Profile[a][d].eps \in Nat
    /\ MaxPaired <= MaxServers \* server_store.c: MAX_SERVERS is MaxConn + MaxPaired

VARIABLES client,      \* UnicastClient's state
          link,        \* the connections of the stack
          bonded,      \* the headsets whose keys are stored
          scan,        \* cb_registered, bonded_num and server_sirk of the scan
          strm,        \* strm_state
          media,       \* the media player's state
          content,     \* cont_media_chan: its last message, how often its subscriber is
                       \* notified of one, and the procedure it is about to queue
          coord,       \* the le_audio subscriber has stored a set's key and not yet counted
          disturbances, presses
vars == <<client, link, bonded, scan, strm, media, content, coord, disturbances, presses>>
appVars == <<strm, media, content, coord, presses>>

LinkStates == {"free", "connecting", "connected", "pairing", "secured", "closing", "gone"}
NoLink == [addr |-> NoAddr, st |-> "free"]
Up(c) == link[c].st \in {"connected", "pairing", "secured"} \* BT_CONN_STATE_CONNECTED
up == [c \in Conns |-> Up(c)]
Linked(a) == \E c \in Conns : link[c].addr = a
AddrUp(a) == \E c \in Conns : link[c].addr = a /\ Up(c)
EntryUp(i) == AddrUp(client.servers[i].addr)
Room == Len(client.audioQ) < MaxMessages
\* One of the things that disturb the gateway, each with what it counts.
Disturbed(n) == disturbances + 2 * presses + n <= MaxDisturbances /\ disturbances' = disturbances + n

\* fill_server_store_by_bonded and the start of the scan at the end of main.
Filled[S \in SUBSET Addrs] ==
    IF S = {} THEN NoServers
    ELSE LET a == CHOOSE x \in S : TRUE IN AddByAddr(Filled[S \ {a}], a).servers

Init ==
    /\ bonded \in {{}, Addrs} /\ Cardinality(bonded) <= MaxPaired
    /\ client = ClientInit(Filled[bonded])
    /\ link = [c \in Conns |-> NoLink]
    /\ scan = [on |-> TRUE, bonds |-> Cardinality(bonded), sirk |-> NoSet]
    /\ strm = "paused" /\ media = "playing"
    /\ content = [pending |-> 0, last |-> "start", busy |-> "idle"]
    /\ coord = FALSE
    /\ disturbances = 0 /\ presses = 0

-----------------------------------------------------------------------------
(* Scanning and connecting.                                                *)

\* bt_mgmt_scan_start of type CONN: the bonds are counted anew.
ScanStarted(s) == [s EXCEPT !.on = TRUE, !.bonds = Cardinality(bonded)]

\* Mutant: bt_conn_le_create's failure leaves the scan stopped.
ConnectOrStay(a, s) ==
    LET free == {c \in Conns : link[c].st = "free"}
    IN IF free = {} \/ Linked(a) \/ \E c \in Conns : link[c].st = "connecting"
       THEN scan' = [s EXCEPT !.on = FALSE] /\ UNCHANGED link
       ELSE /\ scan' = [s EXCEPT !.on = FALSE]
            /\ link' = [link EXCEPT ![Least(free)] = [addr |-> a, st |-> "connecting"]]

\* The scan is stopped and the connection created; if the stack refuses, the
\* scan is started again.
ConnectTo(a, s) ==
    LET free == {c \in Conns : link[c].st = "free"}
    IN IF free = {} \/ Linked(a) \/ \E c \in Conns : link[c].st = "connecting"
       THEN scan' = ScanStarted(s) /\ UNCHANGED link
       ELSE /\ scan' = [s EXCEPT !.on = FALSE]
            /\ link' = [link EXCEPT ![Least(free)] = [addr |-> a, st |-> "connecting"]]

\* scan_recv_cb.  A headset that is connected is left alone.
ScanRecv(a, by) ==
    /\ scan.on /\ ~AddrUp(a)
    /\ CASE by = "bond" -> a \in bonded /\ ConnectTo(a, scan)
         [] by = "name" -> scan.bonds < MaxPaired /\ scan.sirk = NoSet /\ ConnectTo(a, scan)
         [] by = "set" -> /\ scan.bonds < MaxPaired /\ scan.sirk # NoSet /\ scan.sirk = SetOf[a]
                          /\ ConnectTo(a, [scan EXCEPT !.sirk = NoSet])
    /\ UNCHANGED <<client, bonded, disturbances, appVars>>

\* connected_cb with an error.
ConnectFailed(c) ==
    /\ link[c].st = "connecting" /\ Disturbed(4)
    /\ link' = [link EXCEPT ![c] = NoLink]
    /\ scan' = ScanStarted(scan)
    /\ UNCHANGED <<client, bonded, appVars>>

\* connected_cb: security is asked for.
Connected_(c) ==
    /\ link[c].st = "connecting"
    /\ link' = [link EXCEPT ![c].st = "connected"]
    /\ UNCHANGED <<client, bonded, scan, disturbances, appVars>>

Discovering(u, c, a) == IF FromConn(u.servers, c, a) = 0 THEN u ELSE Discover(u, FromConn(u.servers, c, a))

\* security_changed_cb and the listener: a headset of the store has been paired
\* with before.  One that has not is paired with now.
SecurityChanged(c) ==
    LET a == link[c].addr
        updated == ConnUpdate(client.servers, c, a)
    IN /\ link[c].st = "connected" /\ Room
       /\ link' = [link EXCEPT ![c].st = IF a \in bonded THEN "secured" ELSE "pairing"]
       /\ client' = IF updated.ret # "ok" THEN client
                    ELSE Discovering([client EXCEPT !.servers = updated.servers], c, a)
       /\ UNCHANGED <<bonded, scan, disturbances, appVars>>

\* pairing_complete_cb and the listener.
PairingComplete(c) ==
    LET a == link[c].addr
        added == AddByConn(client.servers, c, a)
    IN /\ link[c].st = "pairing" /\ Cardinality(bonded) < MaxPaired /\ Room
       /\ link' = [link EXCEPT ![c].st = "secured"]
       /\ bonded' = bonded \cup {a}
       /\ client' = IF added.ret # "ok" THEN client
                    ELSE Discovering([client EXCEPT !.servers = added.servers], c, a)
       /\ UNCHANGED <<scan, disturbances, appVars>>

\* security_changed_cb with an error, pairing_failed_cb, or a link that is lost.
Closes(c) ==
    /\ Up(c) /\ Disturbed(4)
    /\ link' = [link EXCEPT ![c].st = "closing"]
    /\ UNCHANGED <<client, bonded, scan, appVars>>

\* disconnected_cb and the listener.
Disconnected(c) ==
    /\ link[c].st = "closing"
    /\ link' = [link EXCEPT ![c].st = "gone"]
    /\ client' = ConnDisconnected(client, c, link[c].addr)
    /\ scan' = ScanStarted(scan)
    /\ UNCHANGED <<bonded, disturbances, appVars>>

LinkStreams(c) ==
    {s \in Streams : client.servers[s[1]].addr = link[c].addr /\ client.ep[s] # "none"}

\* The connection is free when the stack has reported the end of all it carried.
Freed(c) ==
    /\ link[c].st = "gone"
    /\ client.disc[c] = NotDiscovering /\ ~client.cas[c] /\ LinkStreams(c) = {}
    /\ client.proc.kind = "start" =>
          \A s \in client.proc.all : client.servers[s[1]].addr # link[c].addr
    /\ link' = [link EXCEPT ![c] = NoLink]
    /\ UNCHANGED <<client, bonded, scan, disturbances, appVars>>

-----------------------------------------------------------------------------
(* What the stack reports of discoveries, streams and procedures.          *)

Reported(u) == Room /\ client' = u /\ UNCHANGED <<link, bonded, scan, appVars>>
StackStep(u) == Reported(u) /\ UNCHANGED disturbances

DiscoveryCallback(c) ==
    /\ client.disc[c] # NotDiscovering
    /\ StackStep(DiscoveryStep(client, c, link[c].addr, Up(c)))

CasCallback(c) ==
    /\ client.cas[c]
    /\ StackStep(CasDiscovered(client, c, link[c].addr, Up(c) /\ SetOf[link[c].addr] # NoSet))

\* The discovery of the set fails with the link up.
CasFails(c) ==
    /\ client.cas[c] /\ Up(c) /\ SetOf[link[c].addr] # NoSet /\ Disturbed(4)
    /\ Reported(CasDiscovered(client, c, link[c].addr, FALSE))

Proc == client.proc
UpStreams(S) == {s \in S : EntryUp(s[1])}

\* A start is aborted when it loses a link or the peer ends a stream it has begun.
Aborted == \/ Proc.all # UpStreams(Proc.all)
           \/ \E s \in Proc.all \ Proc.todo : client.ep[s] \notin {"codec", "streaming"}

\* A start configures its streams one after the other and then starts them so.
Configured ==
    /\ Proc.kind = "start" /\ Proc.todo # {} /\ ~Aborted
    /\ LET s == Earliest(Proc.todo)
       IN StackStep(StreamConfigured([client EXCEPT !.proc.todo = @ \ {s}], s))

Started ==
    LET left == {s \in Proc.all : client.ep[s] # "streaming"}
    IN /\ Proc.kind = "start" /\ Proc.todo = {} /\ left # {} /\ ~Aborted
       /\ StackStep(StreamStarted(client, Earliest(left)))

\* unicast_start_complete_cb
StartEnded == Proc.kind = "start" /\ (Aborted \/ \A s \in Proc.all : client.ep[s] = "streaming")
StartComplete == StartEnded /\ StackStep(ProcComplete(client))

\* A start fails: the headset refuses to configure a stream or to run it.
StartFails == Proc.kind = "start" /\ ~StartEnded /\ Disturbed(4) /\ Reported(ProcComplete(client))

\* A stream ends when a stop releases it or its link closes: the earliest one of
\* the stop or the link, a running one in two steps.
Ending(S) ==
    LET s == Earliest(S)
    IN IF client.ep[s] = "streaming" THEN StackStep(StreamStopped(client, s))
       ELSE StackStep(StreamReleased(client, s))

StopReleases ==
    LET left == {s \in Proc.all : client.ep[s] # "none"}
    IN Proc.kind = "stop" /\ left # {} /\ Ending(left)

LinkReleases(c) ==
    /\ link[c].st \in {"closing", "gone"} /\ LinkStreams(c) # {}
    /\ Ending(LinkStreams(c))

\* A headset ends a stream of its own accord, and releases one that does not run and
\* no stop is releasing, which also aborts a start of that stream.
PeerStops(s) ==
    /\ client.ep[s] = "streaming" /\ EntryUp(s[1]) /\ Disturbed(3)
    /\ Reported(StreamStopped(client, s))
PeerReleases(s) ==
    /\ EntryUp(s[1]) /\ ~(Proc.kind = "stop" /\ s \in Proc.all)
    /\ \/ client.ep[s] = "disabled" /\ UNCHANGED disturbances
       \/ client.ep[s] = "codec" /\ Disturbed(3)
    /\ Reported(StreamReleased([client EXCEPT !.proc.todo = @ \ {s}], s))

\* unicast_stop_complete_cb
StopEnded == Proc.kind = "stop" /\ \A s \in Proc.all : client.ep[s] = "none"
StopComplete == StopEnded /\ StackStep(ProcComplete(client))

\* Either, when the start that waited for it cannot have the store's lock.
CompleteTimesOut ==
    /\ StartEnded \/ StopEnded
    /\ client.capQ # <<>> /\ Head(client.capQ) = "start" /\ Disturbed(4)
    /\ Reported(StartTimesOut([ProcEnds(client) EXCEPT !.capQ = Tail(@)]))

\* The work queue runs cap_start_worker.
Worker == client.startWork /\ StackStep(StartWorker(client, up))
WorkerTimesOut == client.startWork /\ Disturbed(4) /\ \E u \in StartWorkerTimeouts(client, up) : Reported(u)

-----------------------------------------------------------------------------
(* The subscribers and the button.                                         *)

\* content_control_msg_sub_thread reads the channel's last message.  The
\* semaphore is not taken and the procedure not queued in one step.
ContentTake ==
    /\ content.pending > 0 /\ content.busy = "idle"
    /\ IF client.sem = 0
       THEN content' = [content EXCEPT !.pending = @ - 1, !.busy = content.last] /\ UNCHANGED client
       ELSE content' = [content EXCEPT !.pending = @ - 1] /\ client' = Taken(client, content.last)
    /\ UNCHANGED <<link, bonded, scan, disturbances, strm, media, coord, presses>>

ContentTakeTimesOut ==
    /\ content.pending > 0 /\ content.busy = "idle"
    /\ client.sem = 1 /\ content.last = "start" /\ Disturbed(2)
    /\ content' = [content EXCEPT !.pending = @ - 1] /\ client' = StartTimesOut(client)
    /\ UNCHANGED <<link, bonded, scan, strm, media, coord, presses>>

ContentPut ==
    /\ content.busy # "idle"
    /\ client' = EnqueueProc(client, content.busy)
    /\ content' = [content EXCEPT !.busy = "idle"]
    /\ UNCHANGED <<link, bonded, scan, disturbances, strm, media, coord, presses>>

\* le_audio_msg_sub_thread.  Of a set, it first stores the key, clears it if all
\* members are connected, and then may resume the scan.
AudioMessage ==
    LET msg == Head(client.audioQ)
        c == msg.conn
    IN /\ client.audioQ # <<>> /\ ~coord
       /\ client' = [client EXCEPT !.audioQ = Tail(@)]
       /\ strm' = CASE msg.event = "STREAMING" -> "streaming"
                    [] msg.event = "NOT_STREAMING" -> "paused"
                    [] OTHER -> strm
       /\ link' = IF msg.event = "NO_VALID_CFG" /\ c # NoConn /\ Up(c)
                  THEN [link EXCEPT ![c].st = "closing"] ELSE link
       /\ IF msg.event = "COORD_SET_DISCOVERED" /\ msg.dir # NoSet
          THEN scan' = [scan EXCEPT !.sirk = msg.dir] /\ coord' = TRUE
          ELSE UNCHANGED <<scan, coord>>
       /\ UNCHANGED <<bonded, disturbances, media, content, presses>>

\* bt_mgmt_set_size_filled_get: the connected headsets known to be of the set
\* whose key is stored now.
FilledCount == Cardinality({i \in Entries : /\ client.servers[i].member
                                            /\ EntryUp(i)
                                            /\ SetOf[client.servers[i].addr] = scan.sirk})
NumConn == Cardinality({c \in Conns : Up(c)})

CoordSet ==
    /\ coord /\ coord' = FALSE
    /\ LET s == [scan EXCEPT !.sirk = IF FilledCount = SetSize THEN NoSet ELSE @]
       IN scan' = IF NumConn < MaxConn /\ FilledCount < SetSize THEN ScanStarted(s) ELSE s
    /\ UNCHANGED <<client, link, bonded, disturbances, strm, media, content, presses>>

\* button_msg_sub_thread and the media player, which refuses the state it is in.
PlayPause ==
    LET wanted == IF strm = "streaming" THEN "paused" ELSE "playing"
    IN /\ presses < MaxPresses /\ disturbances + 2 * presses + 2 <= MaxDisturbances /\ presses' = presses + 1
       /\ media' = wanted
       /\ content' = IF media = wanted THEN content
                     ELSE [content EXCEPT !.pending = @ + 1,
                                          !.last = IF wanted = "playing" THEN "start" ELSE "stop"]
       /\ UNCHANGED <<client, link, bonded, scan, disturbances, strm, coord>>

-----------------------------------------------------------------------------
Stack(c) == SecurityChanged(c) \/ PairingComplete(c) \/ Disconnected(c) \/ Freed(c)
            \/ DiscoveryCallback(c) \/ CasCallback(c) \/ CasFails(c)
            \/ LinkReleases(c) \/ Connected_(c)

Next ==
    \/ \E a \in Addrs, by \in {"bond", "name", "set"} : ScanRecv(a, by)
    \/ \E c \in Conns : Stack(c) \/ ConnectFailed(c) \/ Closes(c)
    \/ Configured \/ Started \/ StartComplete \/ StartFails \/ StopReleases \/ StopComplete
    \/ \E s \in Streams : PeerStops(s) \/ PeerReleases(s)
    \/ CompleteTimesOut \/ WorkerTimesOut \/ ContentTakeTimesOut
    \/ Worker \/ ContentTake \/ ContentPut \/ AudioMessage \/ CoordSet \/ PlayPause

Spec == Init /\ [][Next]_vars

-----------------------------------------------------------------------------
\* The types; no direction of a headset has more endpoints than the store keeps, and
\* no more procedures wait than the queue holds.
TypeOK ==
    /\ link \in [Conns -> [addr : Addrs \cup {NoAddr}, st : LinkStates]]
    /\ bonded \subseteq Addrs /\ Cardinality(bonded) <= MaxPaired
    /\ scan.on \in BOOLEAN /\ scan.bonds \in 0..MaxPaired
    /\ strm \in {"paused", "streaming"} /\ media \in {"paused", "playing"}
    /\ content.pending \in 0..MaxPresses /\ content.busy \in {"idle", "start", "stop"}
    /\ client.sem \in 0..1 /\ Len(client.capQ) <= MaxWaiting
    /\ client.ep \in [Streams -> EpStates]
    /\ \A i \in Entries, d \in Dirs : client.servers[i][d].eps \in 0..MaxEps
    /\ client.group # <<>> => GroupStreams(client) \subseteq Streams

\* The store and the connections agree: a headset has one entry, an entry's
\* connection is one to its address that is still there, and a connection that is
\* secured is some entry's (server_store.c, bt_mgmt_evt_handler).
StoreMirrorsLinks ==
    /\ \A i, j \in Entries : client.servers[i].addr = client.servers[j].addr
                             /\ client.servers[i].addr # NoAddr => i = j
    /\ \A i \in Entries : client.servers[i].conn # NoConn =>
            /\ link[client.servers[i].conn].addr = client.servers[i].addr
            /\ link[client.servers[i].conn].st \in {"pairing", "secured", "closing"}
    /\ \A c \in Conns : link[c].st = "secured" => FromConn(client.servers, c, link[c].addr) # 0

\* The semaphore is taken exactly while the stack runs a procedure, so that none runs
\* beside another and none that ends leaves it taken; but a start that does not get
\* the store's lock keeps it, and no procedure runs after that
\* (unicast_client_start, unicast_client_stop).
ProceduresExclusive ==
    /\ client.sem = 0 <=> Proc.kind # "none" \/ client.kept
    /\ client.kept => Proc.kind = "none"

\* A stream with an endpoint is in the group that exists: a group is not deleted
\* under a stream that uses it (stream_released_cb, cap_start_worker).
GroupHoldsWhatRuns == \A s \in Streams : client.ep[s] # "none" => s \in GroupStreams(client)

\* Nothing is under way: no thread, procedure or discovery has a step left.
Idle == /\ client.audioQ = <<>> /\ Proc = NoProc /\ ~client.startWork
        /\ ~coord /\ content.busy = "idle" /\ content.pending = 0
        /\ \A c \in Conns : /\ link[c].st \in {"free", "secured"}
                            /\ client.disc[c] = NotDiscovering /\ ~client.cas[c]

\* With nothing under way the application is in the streaming state only if a stream
\* runs, and it is if one of a first channel does: the button does what its label
\* says (stream_stopped_cb, le_audio_msg_sub_thread).  A later channel that runs when
\* the peer has released the first is not counted.
AudioFollowsStreams ==
    LET running == {s \in Streams : client.ep[s] = "streaming"}
    IN Idle => /\ strm = "streaming" => running # {}
               /\ (\E s \in running : s[3] = 1) => strm = "streaming"

\* With nothing under way a headset that is missing is scanned for, by its bond, its
\* set or its name: the scan is never forgotten, whatever ends a connection
\* (connected_cb, disconnected_cb, scan_recv_cb, COORD_SET_DISCOVERED).  It is not
\* resumed after a headset whose set was not found out.
MissingIsSought ==
    Idle => \A a \in Addrs : \/ AddrUp(a)
                             \/ \E i \in Entries : EntryUp(i) /\ ~client.servers[i].member
                             \/ scan.on /\ a \in bonded
                             \/ scan.on /\ scan.bonds < MaxPaired /\ scan.sirk \in {SetOf[a], NoSet}

\* "A new group will be created after the released_cb has been called"
\* (unicast_client.c:460): the gateway never settles on a group it has given up.
NewGroupFollows == Idle /\ client.group # <<>> => client.created
=============================================================================
