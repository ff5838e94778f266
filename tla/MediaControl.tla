----------------------------- MODULE MediaControl -----------------------------
(***************************************************************************)
(* The headset's media control client: it discovers the media player of    *)
(* every gateway that connects, follows the players' state, and sends the  *)
(* button's play or pause to all of them.                                  *)
(*   rf5340 src/bluetooth/bt_content_control/media/                        *)
(*   bt_content_ctrl_media.c, bt_content_ctrl.c and unicast_server/main.c  *)
(*                                                                         *)
(* The stack's callbacks are cooperative; the button's thread is preempted *)
(* by them between two of its commands.  Zephyr's client, which takes one  *)
(* procedure at a time with each peer, and the players are external.       *)
(***************************************************************************)
EXTENDS Naturals, FiniteSets

CONSTANTS Players,    \* the gateways around, each with its media player
          MediaConns  \* CONFIG_BT_MAX_CONN: the slots of mcc_peer

NoConn == "none"
ASSUME MediaAssumption == MediaConns \in Nat \ {0} /\ NoConn \notin Players

VARIABLES media_links,         \* the connected gateways: never more than MediaConns
          mcc_peer,            \* slot -> its connection, and how far discovery has come
          mcc,                 \* gateway -> Zephyr's client: what it is busy with, has found
          player,              \* gateway -> what its player is doing
          media_player_state,  \* what the headset believes all players are doing
          media_button         \* the command being sent, and the slots left
mediaVars == <<media_links, mcc_peer, mcc, player, media_player_state, media_button>>

Slots == 1..MediaConns
FreeSlot == [conn |-> NoConn, status |-> "IDLE"]
Unknown == [busy |-> "no", found |-> FALSE]

MediaInit ==
    /\ media_links = {}
    /\ mcc_peer = [i \in Slots |-> FreeSlot]
    /\ mcc = [p \in Players |-> Unknown]
    /\ player = [p \in Players |-> "PAUSED"]
    /\ media_player_state = "PLAYING"   \* before any player was asked
    /\ media_button = [cmd |-> "none", left |-> {}]

IsLowest(i, S) == i \in S /\ \A j \in S : i <= j
SlotsOf(p) == {i \in Slots : mcc_peer[i].conn = p}   \* mcc_peer_index_get
PeerBusy(p, with) == mcc' = [mcc EXCEPT ![p].busy = with]

-----------------------------------------------------------------------------
(* The events of the connection: main.c bt_mgmt_evt_handler.               *)

MediaConnected(p) ==
    /\ p \notin media_links /\ Cardinality(media_links) < MediaConns
    /\ media_links' = media_links \cup {p}
    /\ mcc' = [mcc EXCEPT ![p] = Unknown]
    /\ UNCHANGED <<mcc_peer, player, media_player_state, media_button>>

\* Mutant: a slot that is freed keeps how far its discovery has come.
PeerGoneKeepsStatus(p) ==
    mcc_peer' = [i \in Slots |-> IF i \in SlotsOf(p) THEN [mcc_peer[i] EXCEPT !.conn = NoConn] ELSE mcc_peer[i]]
\* bt_content_ctrl_media_conn_disconnected
PeerGone(p) ==
    mcc_peer' = [i \in Slots |-> IF i \in SlotsOf(p) THEN FreeSlot ELSE mcc_peer[i]]

\* The procedures under way have failed before the disconnection is told.
MediaDisconnected(p) ==
    /\ p \in media_links
    /\ media_links' = media_links \ {p}
    /\ mcc' = [mcc EXCEPT ![p] = Unknown]
    /\ PeerGone(p)
    /\ UNCHANGED <<player, media_player_state, media_button>>

\* bt_content_ctrl_media_discover: the slot of the connection, or the first free one.  The
\* client refuses while it is busy with the peer; the slot is kept.
MediaSecurityChanged(p) ==
    /\ p \in media_links
    /\ LET free == {i \in Slots : mcc_peer[i].conn = NoConn}
       IN  \E idx \in Slots :
             /\ IsLowest(idx, IF SlotsOf(p) # {} THEN SlotsOf(p) ELSE free)
             /\ LET starts == mcc_peer[idx].status = "IDLE" /\ mcc[p].busy = "no"
                IN  /\ mcc_peer' = [mcc_peer EXCEPT ![idx] =
                            [conn |-> p, status |-> IF starts THEN "IN_PROGRESS" ELSE @.status]]
                    /\ IF starts THEN PeerBusy(p, "discovery") ELSE UNCHANGED mcc
    /\ UNCHANGED <<media_links, player, media_player_state, media_button>>

-----------------------------------------------------------------------------
(* The callbacks of Zephyr's client.                                       *)

\* mcc_discover_mcs_cb: an error gives the slot up for another try.
DiscoverFailed(p) ==
    /\ mcc[p].busy = "discovery"
    /\ PeerBusy(p, "no")
    /\ mcc_peer' = [i \in Slots |-> IF i \in SlotsOf(p) THEN [mcc_peer[i] EXCEPT !.status = "IDLE"] ELSE mcc_peer[i]]
    /\ UNCHANGED <<media_links, player, media_player_state, media_button>>

\* The first time, the state of the player is asked for (bt_content_ctrl_media_state_update).
DiscoverDone(p) ==
    /\ mcc[p].busy = "discovery"
    /\ LET awaited == {i \in SlotsOf(p) : mcc_peer[i].status = "IN_PROGRESS"}
       IN  /\ mcc_peer' = [i \in Slots |-> IF i \in awaited THEN [mcc_peer[i] EXCEPT !.status = "FINISHED"] ELSE mcc_peer[i]]
           /\ mcc' = [mcc EXCEPT ![p] = [busy |-> IF awaited # {} THEN "read" ELSE "no", found |-> TRUE]]
    /\ UNCHANGED <<media_links, player, media_player_state, media_button>>

\* mcc_read_media_state_cb, for an answer and, below, for a notification.
ReadDone(p, ok) ==
    /\ mcc[p].busy = "read"
    /\ PeerBusy(p, "no")
    /\ media_player_state' = IF ok THEN player[p] ELSE media_player_state
    /\ UNCHANGED <<media_links, mcc_peer, player, media_button>>

PlayerChanges(p) ==
    /\ player' = [player EXCEPT ![p] = IF @ = "PLAYING" THEN "PAUSED" ELSE "PLAYING"]
    /\ media_player_state' = IF p \in media_links /\ mcc[p].found THEN player'[p] ELSE media_player_state
    /\ UNCHANGED <<media_links, mcc_peer, mcc, media_button>>

\* The gateway has executed the command (mcs_command_recv_cb there), and notifies.
CommandDone(p) ==
    /\ mcc[p].busy \in {"PLAYING", "PAUSED"}
    /\ PeerBusy(p, "no")
    /\ player' = [player EXCEPT ![p] = mcc[p].busy]
    /\ media_player_state' = mcc[p].busy
    /\ UNCHANGED <<media_links, mcc_peer, media_button>>

-----------------------------------------------------------------------------
(* The button's thread: bt_content_ctrl_start and _stop, and mpl_cmd_send. *)

MediaButton ==
    /\ media_button.left = {}
    /\ media_button' = [cmd |-> IF media_player_state = "PLAYING" THEN "PAUSED" ELSE "PLAYING", left |-> Slots]
    /\ UNCHANGED <<media_links, mcc_peer, mcc, player, media_player_state>>

SendToSlot(i) ==
    /\ IsLowest(i, media_button.left)
    /\ media_button' = [media_button EXCEPT !.left = @ \ {i}]
    /\ LET p == mcc_peer[i].conn
       IN  IF p # NoConn /\ mcc_peer[i].status = "FINISHED" /\ mcc[p].busy = "no" /\ mcc[p].found
           THEN PeerBusy(p, media_button.cmd)
           ELSE UNCHANGED mcc
    /\ UNCHANGED <<media_links, mcc_peer, player, media_player_state>>

MediaNext == \/ \E p \in Players :
                    \/ MediaConnected(p)
                    \/ MediaDisconnected(p)
                    \/ MediaSecurityChanged(p)
                    \/ DiscoverFailed(p)
                    \/ DiscoverDone(p)
                    \/ \E ok \in BOOLEAN : ReadDone(p, ok)
                    \/ PlayerChanges(p)
                    \/ CommandDone(p)
             \/ MediaButton
             \/ \E i \in Slots : SendToSlot(i)

-----------------------------------------------------------------------------
MediaTypeOK ==
    /\ media_links \subseteq Players
    /\ mcc_peer \in [Slots -> [conn : Players \cup {NoConn}, status : {"IDLE", "IN_PROGRESS", "FINISHED"}]]
    /\ mcc \in [Players -> [busy : {"no", "discovery", "read", "PLAYING", "PAUSED"}, found : BOOLEAN]]
    /\ player \in [Players -> {"PLAYING", "PAUSED"}]
    /\ media_player_state \in {"PLAYING", "PAUSED"}
    /\ media_button \in [cmd : {"none", "PLAYING", "PAUSED"}, left : SUBSET Slots]

\* The table of peers is true, however discoveries fail and links end: a slot belongs to a
\* gateway that is connected, no gateway has two, and what the slot says of the discovery
\* is what the client is doing.  A slot that said FINISHED of a newcomer would refuse its
\* discovery (-EALREADY), and the button would never reach it.
SlotsMirrorPlayers ==
    \A i \in Slots :
        LET p == mcc_peer[i].conn
        IN  IF p = NoConn THEN mcc_peer[i].status = "IDLE"
            ELSE /\ p \in media_links /\ SlotsOf(p) = {i}
                 /\ (mcc_peer[i].status = "IN_PROGRESS") = (mcc[p].busy = "discovery")
                 /\ mcc_peer[i].status = "FINISHED" => mcc[p].found
=============================================================================
