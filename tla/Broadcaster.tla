----------------------------- MODULE Broadcaster -----------------------------
(***************************************************************************)
(* The broadcast source: it advertises, starts its group of streams when   *)
(* the periodic advertising runs or the button is pressed, and sends what  *)
(* the encoder makes while it streams.                                     *)
(*   rf5340 broadcast_source/main.c, src/bluetooth/bt_stream/broadcast/    *)
(*   broadcast_source.c and bt_stream/bt_le_audio_tx/bt_le_audio_tx.c.     *)
(*                                                                         *)
(* The callbacks of the stack are cooperative; the encoder's thread has    *)
(* priority 3, the button's and the subscriber's 5.  A send waits in an    *)
(* HCI command after each stream, where all others may run.  The stack's   *)
(* group and the controller's queues are external.                         *)
(***************************************************************************)
EXTENDS Naturals, Sequences, FiniteSets, FiniteSetsExt

CONSTANTS Bises,          \* the streams of the group
          IsoBufPerChan   \* HCI_ISO_BUF_PER_CHAN

ASSUME BroadcasterAssumption ==
    Bises \in SUBSET Nat /\ IsFiniteSet(Bises) /\ Bises # {} /\ IsoBufPerChan \in Nat \ {0}

VARIABLES ext_adv_ready,    \* main.c ext_adv: the set whose periodic advertising runs
          big,              \* the group: what it is doing, and the streams told of it so far
          bis_evt_q,        \* le_audio_chan
          src_state,        \* main.c strm_state
          src_audio,        \* audio_system_start has been called
          src_encoder,      \* encoder_sig
          sending,          \* the streams that a frame has yet to go to
          iso_tx_pool_alloc, iso_tx_pool,  \* a stream's count, and the buffers it really holds
          tx_fault
broadcasterVars == <<ext_adv_ready, big, bis_evt_q, src_state, src_audio, src_encoder, sending,
                     iso_tx_pool_alloc, iso_tx_pool, tx_fault>>
groupVars == <<ext_adv_ready, big>>
appVars == <<bis_evt_q, src_state, src_audio, src_encoder>>
txVars == <<sending, iso_tx_pool_alloc, iso_tx_pool, tx_fault>>

PoolMax == Cardinality(Bises) * IsoBufPerChan   \* NET_BUF_POOL_MAX, of one group
PoolUsed == MapThenSumSet(LAMBDA b : iso_tx_pool[b], Bises)
\* The endpoint's state is set before the callback of its stream.
EpStreaming(b) == b \in big.up

BroadcasterInit ==
    /\ ext_adv_ready = FALSE
    /\ big = [doing |-> "none", up |-> {}]
    /\ bis_evt_q = <<>>
    /\ src_state = "paused" /\ src_audio = FALSE /\ src_encoder = FALSE
    /\ sending = {}
    /\ iso_tx_pool_alloc = [b \in Bises |-> 0]
    /\ iso_tx_pool = [b \in Bises |-> 0]
    /\ tx_fault = FALSE

-----------------------------------------------------------------------------
(* broadcast_source.c and the stack.                                       *)

\* "All streams in a broadcast source is in the same state": the first is asked.
First == CHOOSE b \in Bises : \A c \in Bises : b <= c
BroadcastStart ==
    IF ~EpStreaming(First) /\ big.doing = "none" THEN big' = [big EXCEPT !.doing = "starting"]
    ELSE UNCHANGED big
BroadcastStop ==
    IF EpStreaming(First) /\ big.doing = "none" THEN big' = [big EXCEPT !.doing = "stopping"]
    ELSE UNCHANGED big

\* advertising_process has started periodic advertising; main.c bt_mgmt_evt_handler.
ExtAdvWithPaReady ==
    /\ ~ext_adv_ready
    /\ ext_adv_ready' = TRUE
    /\ BroadcastStart
    /\ UNCHANGED <<appVars, txVars>>

Publish(event) == bis_evt_q' = Append(bis_evt_q, event)

\* Mutant: the count of an earlier run is kept.
StreamStartedCountKept(b) == UNCHANGED iso_tx_pool_alloc
TxStreamStarted(b) == iso_tx_pool_alloc' = [iso_tx_pool_alloc EXCEPT ![b] = 0]

StreamStartedCb(b) ==
    /\ big.doing = "starting" /\ b \notin big.up
    /\ big' = [up |-> big.up \cup {b},
               doing |-> IF big.up \cup {b} = Bises THEN "none" ELSE "starting"]
    /\ TxStreamStarted(b)
    /\ Publish("STREAMING")
    /\ UNCHANGED <<ext_adv_ready, src_state, src_audio, src_encoder, sending, iso_tx_pool, tx_fault>>

\* The buffers of a stream that ends come back without their sent callbacks.
StreamStoppedCb(b) ==
    /\ big.doing = "stopping" /\ b \in big.up
    /\ big' = [up |-> big.up \ {b},
               doing |-> IF big.up = {b} THEN "none" ELSE "stopping"]
    /\ iso_tx_pool' = [iso_tx_pool EXCEPT ![b] = 0]
    /\ Publish("NOT_STREAMING")
    /\ UNCHANGED <<ext_adv_ready, src_state, src_audio, src_encoder, sending, iso_tx_pool_alloc, tx_fault>>

\* stream_sent_cb and bt_le_audio_tx_stream_sent
StreamSentCb(b) ==
    /\ iso_tx_pool[b] > 0 /\ EpStreaming(b)
    /\ iso_tx_pool' = [iso_tx_pool EXCEPT ![b] = @ - 1]
    /\ IF iso_tx_pool_alloc[b] = 0 THEN tx_fault' = TRUE /\ UNCHANGED iso_tx_pool_alloc
       ELSE iso_tx_pool_alloc' = [iso_tx_pool_alloc EXCEPT ![b] = @ - 1] /\ UNCHANGED tx_fault
    /\ UNCHANGED <<groupVars, appVars, sending>>

-----------------------------------------------------------------------------
(* The encoder's thread: streamctrl_send, and bt_le_audio_tx_send.         *)

FrameEncoded ==
    /\ sending = {} /\ src_encoder /\ src_audio
    /\ src_state = "streaming" /\ big.up # {}
    /\ sending' = big.up
    /\ UNCHANGED <<groupVars, appVars, iso_tx_pool_alloc, iso_tx_pool, tx_fault>>

\* Mutant: a stream may have one buffer more.
OverrunLate(b) == iso_tx_pool_alloc[b] > IsoBufPerChan
Overrun(b) == iso_tx_pool_alloc[b] >= IsoBufPerChan

\* iso_stream_send to the next stream: it is skipped when it has stopped meanwhile, and its
\* frame is thrown away when it has its share of buffers.
IsoStreamSend(b) ==
    /\ b \in sending /\ \A c \in sending : b <= c
    /\ sending' = sending \ {b}
    /\ IF ~EpStreaming(b) \/ Overrun(b) THEN UNCHANGED <<iso_tx_pool_alloc, iso_tx_pool, tx_fault>>
       ELSE IF PoolUsed = PoolMax
       THEN tx_fault' = TRUE /\ UNCHANGED <<iso_tx_pool_alloc, iso_tx_pool>>
       ELSE /\ iso_tx_pool_alloc' = [iso_tx_pool_alloc EXCEPT ![b] = @ + 1]
            /\ iso_tx_pool' = [iso_tx_pool EXCEPT ![b] = @ + 1]
            /\ UNCHANGED tx_fault
    /\ UNCHANGED <<groupVars, appVars>>

-----------------------------------------------------------------------------
(* main.c: the button and the subscriber of le_audio_chan.                 *)

PlayPause ==
    /\ IF src_state = "streaming" THEN BroadcastStop
       ELSE IF ext_adv_ready THEN BroadcastStart ELSE UNCHANGED big
    /\ UNCHANGED <<ext_adv_ready, appVars, txVars>>

SrcEvtStreaming ==
    /\ bis_evt_q # <<>> /\ Head(bis_evt_q) = "STREAMING"
    /\ bis_evt_q' = Tail(bis_evt_q)
    /\ src_encoder' = TRUE
    /\ src_state' = "streaming"
    /\ src_audio' = (src_audio \/ src_state = "paused")
    /\ UNCHANGED <<groupVars, txVars>>

\* Mutant: the encoder is not paused, so that frames of the next run may be old ones.
SrcEvtEncoderLeftOn ==
    /\ bis_evt_q # <<>> /\ Head(bis_evt_q) = "NOT_STREAMING"
    /\ bis_evt_q' = Tail(bis_evt_q)
    /\ src_state' = "paused"
    /\ src_audio' = (src_audio /\ src_state = "paused")
    /\ UNCHANGED <<groupVars, txVars, src_encoder>>
SrcEvtNotStreaming ==
    /\ bis_evt_q # <<>> /\ Head(bis_evt_q) = "NOT_STREAMING"
    /\ bis_evt_q' = Tail(bis_evt_q)
    /\ src_encoder' = FALSE
    /\ src_state' = "paused"
    /\ src_audio' = (src_audio /\ src_state = "paused")
    /\ UNCHANGED <<groupVars, txVars>>

BroadcasterNext == \/ ExtAdvWithPaReady
                   \/ \E b \in Bises :
                          \/ StreamStartedCb(b)
                          \/ StreamStoppedCb(b)
                          \/ StreamSentCb(b)
                          \/ IsoStreamSend(b)
                   \/ FrameEncoded
                   \/ PlayPause
                   \/ SrcEvtStreaming
                   \/ SrcEvtNotStreaming

-----------------------------------------------------------------------------
BroadcasterTypeOK ==
    /\ ext_adv_ready \in BOOLEAN
    /\ big \in [doing : {"none", "starting", "stopping"}, up : SUBSET Bises]
    /\ bis_evt_q \in Seq({"STREAMING", "NOT_STREAMING"})
    /\ src_state \in {"paused", "streaming"}
    /\ src_audio \in BOOLEAN /\ src_encoder \in BOOLEAN /\ tx_fault \in BOOLEAN
    /\ sending \subseteq Bises
    /\ iso_tx_pool_alloc \in [Bises -> 0..IsoBufPerChan]
    /\ iso_tx_pool \in [Bises -> 0..IsoBufPerChan]

\* A stream's count is the number of buffers it holds, over every stop and start, so that
\* "this should never occur" (bt_le_audio_tx.c:118) of an empty pool is true and a stream
\* that has sent what it had may send again.
CountsTheBuffers ==
    /\ ~tx_fault
    /\ \A b \in big.up : iso_tx_pool_alloc[b] = iso_tx_pool[b]

\* When the events are handled, the application streams, with audio and encoder on,
\* exactly if the group does, however fast it was stopped and started.
SourceStateFollows ==
    (bis_evt_q = <<>> /\ big.doing = "none")
        => /\ (src_state = "streaming") = (big.up # {})
           /\ src_audio = (big.up # {}) /\ src_encoder = (big.up # {})
=============================================================================
