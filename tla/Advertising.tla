----------------------------- MODULE Advertising -----------------------------
(***************************************************************************)
(* How the headset is found: directed advertising to a bonded peer, plain  *)
(* extended advertising when that times out, and advertising again after   *)
(* every connection.                                                       *)
(*   rf5340 src/bluetooth/bt_management/advertising/bt_mgmt_adv.c and      *)
(*   bt_mgmt.c                                                             *)
(*                                                                         *)
(* The callbacks of the stack queue the index of the advertising set, a    *)
(* work queue of priority 5 takes it.  Each of its HCI commands blocks:    *)
(* callbacks run between them.  The controller and the peers are external. *)
(***************************************************************************)
EXTENDS Naturals, Sequences, FiniteSets

CONSTANTS Peers,     \* the centrals around
          AdvSets    \* CONFIG_BT_EXT_ADV_MAX_ADV_SET: the depth of adv_q

ASSUME AdvertisingAssumption == AdvSets \in Nat \ {0}

VARIABLES adv_q,              \* how many indices are queued
          adv_work,           \* the work item: what it is at, and whether it is submitted
          dir_adv_timed_out,
          ext_adv,            \* the set: whom its parameters admit, and whether it is on
          bonds,              \* the bonded peers, in the order of the host's table
          links,              \* the connected peers
          adv_fault
advertisingVars == <<adv_q, adv_work, dir_adv_timed_out, ext_adv, bonds, links, adv_fault>>

NoPeer == "none"
Bonded == {bonds[i] : i \in DOMAIN bonds}
\* A directed set admits its peer, one that filters the accept list, any other everyone.
Admitted == CASE ext_adv.kind = "directed" -> {ext_adv.peer}
              [] ext_adv.kind = "filtered" -> Bonded
              [] OTHER -> Peers

\* main has called bt_mgmt_adv_start: the set is created, its index queued.
AdvertisingInit ==
    /\ adv_q = 1
    /\ adv_work = [at |-> "idle", submitted |-> TRUE, peer |-> NoPeer]
    /\ dir_adv_timed_out = FALSE
    /\ ext_adv = [kind |-> "open", peer |-> NoPeer, on |-> FALSE]
    /\ bonds = <<>>
    /\ links = {}
    /\ adv_fault = FALSE

-----------------------------------------------------------------------------
\* bt_mgmt_adv_start without data: advertise again.  disconnected_cb checks the result.
AdvStart(checked) ==
    IF adv_q < AdvSets
    THEN /\ adv_q' = adv_q + 1
         /\ adv_work' = [adv_work EXCEPT !.submitted = TRUE]
         /\ UNCHANGED adv_fault
    ELSE adv_fault' = checked /\ UNCHANGED <<adv_q, adv_work>>

\* connected_cb: an advertiser that is connected stops, whether the link comes up or not.
Connected(p) ==
    /\ ext_adv.on /\ p \in Admitted \ links
    /\ ext_adv' = [ext_adv EXCEPT !.on = FALSE]
    /\ links' = links \cup {p}
    /\ UNCHANGED <<adv_q, adv_work, dir_adv_timed_out, bonds, adv_fault>>

ConnectFailed ==
    /\ ext_adv.on
    /\ ext_adv' = [ext_adv EXCEPT !.on = FALSE]
    /\ AdvStart(FALSE)
    /\ UNCHANGED <<dir_adv_timed_out, bonds, links>>

\* pairing_complete_cb; a peer that cannot is disconnected.
Paired(p) ==
    /\ p \in links \ Bonded
    /\ bonds' = Append(bonds, p)
    /\ UNCHANGED <<adv_q, adv_work, dir_adv_timed_out, ext_adv, links, adv_fault>>

\* Mutant: advertising is not started again after a connection.
DisconnectedOnly(p) ==
    /\ p \in links
    /\ links' = links \ {p}
    /\ UNCHANGED <<adv_q, adv_work, dir_adv_timed_out, ext_adv, bonds, adv_fault>>
Disconnected(p) ==
    /\ p \in links
    /\ links' = links \ {p}
    /\ AdvStart(TRUE)
    /\ UNCHANGED <<dir_adv_timed_out, ext_adv, bonds>>

\* connected_cb's timeout and bt_mgmt_dir_adv_timed_out: the set is made anew.
DirAdvTimedOut ==
    /\ ext_adv.on /\ ext_adv.kind = "directed"
    /\ dir_adv_timed_out' = TRUE
    /\ ext_adv' = [kind |-> "filtered", peer |-> NoPeer, on |-> FALSE]
    /\ AdvStart(FALSE)
    /\ UNCHANGED <<bonds, links>>

-----------------------------------------------------------------------------
(* advertising_process: the work item, which is not queued twice.          *)

\* The bonds that are not connected are put into bonds_q: the first is the one to call.
Wanted ==
    LET away == {i \in DOMAIN bonds : bonds[i] \notin links}
    IN  IF away = {} THEN NoPeer ELSE bonds[CHOOSE i \in away : \A j \in away : i <= j]

TakeIndex ==
    /\ adv_work.at = "idle" /\ adv_work.submitted /\ ~adv_fault
    /\ IF adv_q = 0 THEN adv_work' = [adv_work EXCEPT !.submitted = FALSE] /\ UNCHANGED adv_q
       ELSE /\ adv_q' = adv_q - 1
            /\ adv_work' = [at |-> "create", submitted |-> FALSE,
                            peer |-> Wanted]
    /\ UNCHANGED <<dir_adv_timed_out, ext_adv, bonds, links, adv_fault>>

\* direct_adv_create or extended_adv_create; the parameters of a set that is on stay.
Create ==
    /\ adv_work.at = "create" /\ ~adv_fault
    /\ IF adv_work.peer = NoPeer \/ dir_adv_timed_out
       THEN /\ adv_work' = [adv_work EXCEPT !.at = "start"]
            /\ dir_adv_timed_out' = FALSE
            /\ UNCHANGED ext_adv
       ELSE /\ UNCHANGED dir_adv_timed_out
            /\ IF ext_adv.on THEN adv_work' = [adv_work EXCEPT !.at = "idle"] /\ UNCHANGED ext_adv
               ELSE /\ adv_work' = [adv_work EXCEPT !.at = "start"]
                    /\ ext_adv' = [ext_adv EXCEPT !.kind = "directed", !.peer = adv_work.peer]
    /\ UNCHANGED <<adv_q, bonds, links, adv_fault>>

\* bt_le_ext_adv_start: the controller refuses directed advertising to a connected peer.
StartSet ==
    /\ adv_work.at = "start" /\ ~adv_fault
    /\ adv_work' = [adv_work EXCEPT !.at = "idle"]
    /\ ext_adv' = [ext_adv EXCEPT !.on = (ext_adv.on \/ ext_adv.kind # "directed" \/ ext_adv.peer \notin links)]
    /\ UNCHANGED <<adv_q, dir_adv_timed_out, bonds, links, adv_fault>>

AdvertisingNext == \/ \E p \in Peers :
                          \/ Connected(p)
                          \/ Paired(p)
                          \/ Disconnected(p)
                   \/ ConnectFailed
                   \/ DirAdvTimedOut
                   \/ TakeIndex
                   \/ Create
                   \/ StartSet

-----------------------------------------------------------------------------
AdvertisingTypeOK ==
    /\ adv_q \in 0..AdvSets
    /\ adv_work \in [at : {"idle", "create", "start"}, submitted : BOOLEAN, peer : Peers \cup {NoPeer}]
    /\ dir_adv_timed_out \in BOOLEAN /\ adv_fault \in BOOLEAN
    /\ ext_adv \in [kind : {"open", "directed", "filtered"}, peer : Peers \cup {NoPeer}, on : BOOLEAN]
    /\ bonds \in Seq(Peers) /\ links \subseteq Peers

\* A headset that nobody is connected to, and whose work queue has nothing to do, is
\* advertising: whatever came between the commands of advertising_process, and no link
\* that ends finds the queue full (bt_mgmt.c:150 ends the program then).
FoundWhenAlone ==
    /\ ~adv_fault
    /\ links = {} /\ adv_work.at = "idle" /\ ~adv_work.submitted => ext_adv.on
=============================================================================
