------------------------------- MODULE AudioRx -------------------------------
(***************************************************************************)
(* The receive path of a headset: the frames of its sink streams are put   *)
(* together by their timestamps, wait in ble_q_rx and are decoded.         *)
(*   rf5340 src/audio/le_audio_rx.c, src/audio/sw_codec_select.c,          *)
(*   src/bluetooth/bt_stream/le_audio.c and unicast_server.c.              *)
(*                                                                         *)
(* The handler runs in the stack's cooperative thread, the datapath's      *)
(* thread (priority 4) whenever that waits.  Locations 1 and 2 are left    *)
(* and right, one stream each.  Time is the SDU interval: a frame whose    *)
(* timestamp is of an earlier one is old.                                  *)
(***************************************************************************)
EXTENDS Naturals, Sequences, FiniteSets

CONSTANT RxPackets   \* CONFIG_BUF_BLE_RX_PACKET_NUM: depth of the queue, size of the pool

ASSUME AudioRxAssumption == RxPackets \in Nat \ {0}

VARIABLES rx_configured, rx_started,  \* the locations of the streams of either kind
          rx_streaming,               \* stream_state_get() = STATE_STREAMING
          rx_arrived,                 \* the locations whose SDU of this interval has come
          audio_frame,                \* the frame that is put together
          ble_q_rx,
          rx_decoding,                \* the frame in the datapath thread's hands
          rx_fault
audioRxVars == <<rx_configured, rx_started, rx_streaming, rx_arrived, audio_frame, ble_q_rx,
                 rx_decoding, rx_fault>>
rxStreamVars == <<rx_configured, rx_started, rx_streaming>>

Locations == {1, 2}
\* data is what lies in each slot of the frame: a location's, or what was left there.
NoFrame == [locations |-> {}, bad |-> {}, data |-> <<0, 0>>, len |-> 0, old |-> FALSE]

AudioRxInit ==
    /\ rx_configured = {} /\ rx_started = {}
    /\ rx_streaming = FALSE
    /\ rx_arrived = {}
    /\ audio_frame = NoFrame
    /\ ble_q_rx = <<>>
    /\ rx_decoding = NoFrame
    /\ rx_fault = FALSE

-----------------------------------------------------------------------------
(* The streams and the application, as Headset has them.                   *)

\* A configuration or a release takes exchanges longer than an SDU interval: it is placed
\* where an interval begins.
RxConfigure(l) ==
    /\ l \notin rx_started /\ rx_arrived = {}
    /\ rx_configured' = IF l \in rx_configured THEN rx_configured \ {l} ELSE rx_configured \cup {l}
    /\ UNCHANGED <<rx_started, rx_streaming, rx_arrived, audio_frame, ble_q_rx, rx_decoding, rx_fault>>

\* stream_started_cb and stream_stopped_cb count the sink streams that run.
RxStartOrStop(l) ==
    /\ l \in rx_configured
    /\ rx_started' = IF l \in rx_started THEN rx_started \ {l} ELSE rx_started \cup {l}
    /\ UNCHANGED <<rx_configured, rx_streaming, rx_arrived, audio_frame, ble_q_rx, rx_decoding, rx_fault>>

RxStreamState ==
    /\ rx_streaming' = ~rx_streaming
    /\ UNCHANGED <<rx_configured, rx_started, rx_arrived, audio_frame, ble_q_rx, rx_decoding, rx_fault>>

NextInterval ==
    /\ rx_arrived # {}
    /\ rx_arrived' = {}
    /\ audio_frame' = IF audio_frame = NoFrame THEN NoFrame ELSE [audio_frame EXCEPT !.old = TRUE]
    /\ UNCHANGED <<rxStreamVars, ble_q_rx, rx_decoding, rx_fault>>

-----------------------------------------------------------------------------
(* le_audio_rx.c: le_audio_rx_data_handler.                                *)

\* location_to_net_buf_index: how many of the locations come before l.
NetBufIndex(all, l) == 1 + Cardinality({k \in all : k < l})
\* Mutant: an SDU is written where the frame begins.
AudioFrameAddInFront(frame, l, valid) == [frame EXCEPT !.data[1] = IF valid THEN l ELSE @]
\* audio_frame_add: an SDU that is bad is not copied.
AudioFrameAdd(frame, l, valid) ==
    LET slot == IF rx_configured = {l} THEN 1 ELSE NetBufIndex(rx_configured, l)
    IN [frame EXCEPT !.data[slot] = IF valid THEN l ELSE @]

Held(f) == IF f = NoFrame THEN 0 ELSE 1
\* Mutant: the pool has a buffer for the frame being put together on top of the queue's.
RxBuffersOneMore(queue) == (RxPackets + 1) - (Len(queue) + Held(rx_decoding))
RxBuffers(queue) == RxPackets - (Len(queue) + Held(rx_decoding))

\* The frame goes on when it has as many locations as streams run.
CheckSend(frame, queue) ==
    IF Cardinality(frame.locations) # Cardinality(rx_started)
    THEN audio_frame' = frame /\ ble_q_rx' = queue /\ UNCHANGED rx_fault
    ELSE IF Len(queue) < RxPackets
    THEN audio_frame' = NoFrame /\ ble_q_rx' = Append(queue, frame) /\ UNCHANGED rx_fault
    ELSE rx_fault' = TRUE /\ UNCHANGED <<audio_frame, ble_q_rx>>

NewFrame(l, valid, queue) ==
    IF RxBuffers(queue) = 0
    THEN audio_frame' = NoFrame /\ ble_q_rx' = queue /\ UNCHANGED rx_fault
    ELSE CheckSend(AudioFrameAdd([NoFrame EXCEPT !.locations = {l},
                                                 !.bad = IF valid THEN {} ELSE {l},
                                                 !.len = Cardinality(rx_started)], l, valid),
                   queue)

Accepted(l, valid, queue) ==
    IF audio_frame = NoFrame THEN NewFrame(l, valid, queue)
    ELSE IF audio_frame.old
    THEN IF Len(queue) < RxPackets THEN NewFrame(l, valid, Append(queue, audio_frame))
         ELSE rx_fault' = TRUE /\ UNCHANGED <<audio_frame, ble_q_rx>>
    ELSE IF audio_frame.locations = {l}
    THEN ble_q_rx' = queue /\ UNCHANGED <<audio_frame, rx_fault>>
    ELSE CheckSend(AudioFrameAdd([audio_frame EXCEPT !.locations = @ \cup {l},
                                                     !.bad = @ \cup IF valid THEN {} ELSE {l}],
                                 l, valid),
                   queue)

\* Without room in the queue the oldest frame makes way.
RxData(l, valid) ==
    /\ ~rx_fault
    /\ l \in rx_started \ rx_arrived
    /\ rx_arrived' = rx_arrived \cup {l}
    /\ IF ~rx_streaming THEN UNCHANGED <<audio_frame, ble_q_rx, rx_fault>>
       ELSE Accepted(l, valid, IF Len(ble_q_rx) = RxPackets THEN Tail(ble_q_rx) ELSE ble_q_rx)
    /\ UNCHANGED <<rxStreamVars, rx_decoding>>

-----------------------------------------------------------------------------
(* audio_datapath_thread: a frame is taken, decoded and given back.        *)

TakeFrame ==
    /\ rx_decoding = NoFrame /\ ble_q_rx # <<>>
    /\ rx_decoding' = [Head(ble_q_rx) EXCEPT !.old = FALSE]
    /\ ble_q_rx' = Tail(ble_q_rx)
    /\ UNCHANGED <<rxStreamVars, rx_arrived, audio_frame, rx_fault>>

UnrefFrame ==
    /\ rx_decoding # NoFrame
    /\ rx_decoding' = NoFrame
    /\ UNCHANGED <<rxStreamVars, rx_arrived, audio_frame, ble_q_rx, rx_fault>>

\* sw_codec_decode refuses a short frame, conceals what is bad, and reads a location's
\* data where the frame's own locations put it.
DecoderAccepts(f) == f.len >= Cardinality(f.locations)
Decoded(f) == [l \in f.locations \ f.bad |-> f.data[NetBufIndex(f.locations, l)]]

-----------------------------------------------------------------------------
AudioRxNext == \/ \E l \in Locations :
                      \/ RxConfigure(l)
                      \/ RxStartOrStop(l)
                      \/ \E valid \in BOOLEAN : RxData(l, valid)
               \/ RxStreamState
               \/ NextInterval
               \/ TakeFrame
               \/ UnrefFrame

Frames == [locations : SUBSET Locations, bad : SUBSET Locations, data : [1..2 -> 0..2],
           len : 0..2, old : BOOLEAN]
AudioRxTypeOK ==
    /\ rx_started \subseteq rx_configured /\ rx_configured \subseteq Locations
    /\ rx_streaming \in BOOLEAN /\ rx_fault \in BOOLEAN
    /\ rx_arrived \subseteq Locations
    /\ {audio_frame, rx_decoding} \subseteq Frames
    /\ ble_q_rx \in Seq(Frames)

\* The handler drops the oldest frame once, and may put two (le_audio_rx.c:141, :207 and
\* :242): the queue never refuses one, which would end the program, since the pool has
\* no more buffers than the queue has places.
RxQueueNeverRefuses == ~rx_fault

\* Streams come and go between the SDUs that are merged, and the handler lays a frame out
\* by the locations that are configured, the decoder by those that are in it: a frame of
\* all the locations is as long as the decoder wants it, and each location is played from
\* its own data.
MergedFramesPlayRight ==
    \A f \in {audio_frame, rx_decoding} \cup {ble_q_rx[i] : i \in DOMAIN ble_q_rx} :
        f.locations = Locations
            => /\ DecoderAccepts(f)
               /\ \A l \in DOMAIN Decoded(f) : Decoded(f)[l] = l
=============================================================================
