------------------------------- MODULE Headset -------------------------------
(***************************************************************************)
(* The unicast headset: it serves the streams that a client configures,    *)
(* plays while one runs and encodes its microphone for a source stream.    *)
(*   rf5340 unicast_server/main.c, src/bluetooth/bt_stream/unicast/        *)
(*   unicast_server.c, src/audio/audio_system.c, sw_codec_select.c.        *)
(*                                                                         *)
(* The threads: the callbacks of the stack, cooperative; the encoder's, of *)
(* priority 3; the subscriber of le_audio_chan, of priority 5, which runs  *)
(* only when the encoder waits.  The interrupt of I2S comes at any time.   *)
(* The client and the stack's endpoints are external: a stream is stopped  *)
(* once for every start.  An ERR_CHK that fails ends the program.          *)
(***************************************************************************)
EXTENDS Naturals, Sequences, FiniteSets

CONSTANTS Sinks, Sources,  \* how many endpoints of each direction are registered
          FrameBlocks,     \* the I2S blocks of a frame, and the depth of audio_q_rx
          HsMessages       \* the buffers of le_audio_chan: a callback waits for one

ASSUME HeadsetAssumption ==
    Sinks \in Nat \ {0} /\ Sources \in {0, 1} /\ FrameBlocks \in Nat \ {0} /\ HsMessages \in Nat \ {0}

VARIABLES cap_audio_streams,  \* direction and endpoint state of each stream
          cap_tx_stream,      \* cap_tx_streams[0]: the stream the microphone goes to
          le_audio_q,         \* the messages of le_audio_chan
          handling,           \* what the subscriber has left to do of a message
          strm_state,
          sw_codec_cfg,       \* audio_system: what is enabled, and initialized
          m_config,           \* sw_codec_select: what is initialized
          path_started,       \* the audio datapath runs, and I2S with it
          encoder,            \* the encoder thread and the blocks it has collected
          encoder_sig, audio_q_rx,
          hs_fault            \* the ERR_CHK that ended the program
headsetVars == <<cap_audio_streams, cap_tx_stream, le_audio_q, handling, strm_state, sw_codec_cfg,
                 m_config, path_started, encoder, encoder_sig, audio_q_rx, hs_fault>>
serverVars == <<cap_audio_streams, cap_tx_stream, le_audio_q>>
audioVars == <<sw_codec_cfg, m_config, path_started>>
encoderVars == <<encoder, encoder_sig, audio_q_rx>>

Streams == 1..(Sinks + Sources)
Dirs == {"sink", "source"}
EpStates == {"free", "codec", "qos", "enabling", "streaming", "disabling", "stopping", "releasing"}
NoStream == [dir |-> "sink", st |-> "free"]
\* A started stream whose stopped_cb is still to come.
Runs(s) == cap_audio_streams[s].st \in {"streaming", "disabling", "stopping", "releasing"}
CodecCfg(s) == cap_audio_streams[s].st # "free"   \* bap_stream.codec_cfg is not NULL

\* unicast_server_enable, audio_system_init and main: nothing is configured.
HeadsetInit ==
    /\ cap_audio_streams = [s \in Streams |-> NoStream]
    /\ cap_tx_stream = 0
    /\ le_audio_q = <<>>
    /\ handling = [do |-> "none", dir |-> "sink"]
    /\ strm_state = "paused"
    /\ sw_codec_cfg = [enc |-> FALSE, dec |-> FALSE, initialized |-> FALSE]
    /\ m_config = [enc |-> FALSE, dec |-> FALSE]
    /\ path_started = FALSE
    /\ encoder = [at |-> "none", got |-> 0]
    /\ encoder_sig = FALSE /\ audio_q_rx = 0
    /\ hs_fault = "none"

-----------------------------------------------------------------------------
(* unicast_server.c: the callbacks of the stack.                           *)

Published(event, d) ==
    /\ Len(le_audio_q) < HsMessages
    /\ le_audio_q' = Append(le_audio_q, [event |-> event, dir |-> d])
To(s, st) == cap_audio_streams' = [cap_audio_streams EXCEPT ![s].st = st]
Dir(s) == cap_audio_streams[s].dir
Callback == hs_fault = "none" /\ UNCHANGED <<handling, strm_state, audioVars, encoderVars, hs_fault>>
Served == UNCHANGED cap_tx_stream /\ Callback

FreeStreams == {s \in Streams : ~CodecCfg(s)}
HasEndpoint(d) == Cardinality({s \in Streams : CodecCfg(s) /\ Dir(s) = d})
                      < (IF d = "sink" THEN Sinks ELSE Sources)

\* A configuration that le_audio_bitrate_check and le_audio_freq_check accept.
Lc3Config(d) ==
    LET s == CHOOSE x \in FreeStreams : \A y \in FreeStreams : x <= y
    IN /\ HasEndpoint(d) /\ FreeStreams # {}
       /\ cap_audio_streams' = [cap_audio_streams EXCEPT ![s] = [dir |-> d, st |-> "codec"]]
       /\ Published("CONFIG_RECEIVED", d)
       /\ cap_tx_stream' = IF d = "source" THEN s ELSE cap_tx_stream
       /\ Callback

\* The application is not told that the codec is another.
Lc3Reconfig(s) ==
    /\ cap_audio_streams[s].st = "qos"
    /\ To(s, "codec") /\ UNCHANGED le_audio_q /\ Served

Lc3Qos(s) ==
    /\ cap_audio_streams[s].st \in {"codec", "qos"}
    /\ To(s, "qos") /\ Published("PRES_DELAY_SET", Dir(s)) /\ Served

\* lc3_enable_cb, and stream_enabled_cb, which starts a sink.
Lc3Enable(s) ==
    /\ cap_audio_streams[s].st = "qos"
    /\ To(s, "enabling") /\ UNCHANGED le_audio_q /\ Served

StreamStarted(s) ==
    /\ cap_audio_streams[s].st = "enabling"
    /\ To(s, "streaming") /\ Published("STREAMING", Dir(s)) /\ Served

\* lc3_disable_cb: a sink's stream is then stopped, a source's waits for the client.
Lc3Disable(s) ==
    /\ cap_audio_streams[s].st \in {"enabling", "streaming"}
    /\ To(s, IF ~Runs(s) THEN "qos" ELSE IF Dir(s) = "sink" THEN "stopping" ELSE "disabling")
    /\ Published("NOT_STREAMING", Dir(s)) /\ Served

Lc3Stop(s) ==
    /\ cap_audio_streams[s].st = "disabling"
    /\ To(s, "stopping") /\ Published("NOT_STREAMING", Dir(s)) /\ Served

\* stream_stopped_cb: after one of the above, or because the link is lost.
StreamStopped(s) ==
    /\ Runs(s)
    /\ IF cap_audio_streams[s].st = "releasing"
       THEN cap_audio_streams' = [cap_audio_streams EXCEPT ![s] = NoStream]
       ELSE To(s, "qos")
    /\ Published("NOT_STREAMING", Dir(s)) /\ Served

\* lc3_release_cb; the stack detaches a stream that does not run.
Lc3Release(s) ==
    /\ CodecCfg(s) /\ cap_audio_streams[s].st # "releasing"
    /\ IF Runs(s) THEN To(s, "releasing")
       ELSE cap_audio_streams' = [cap_audio_streams EXCEPT ![s] = NoStream]
    /\ Published("NOT_STREAMING", Dir(s)) /\ Served

-----------------------------------------------------------------------------
(* sw_codec_select.c and audio_system.c.                                   *)

Enabled(cfg) == {x \in {"enc", "dec"} : cfg[x]}
Fault(f) == hs_fault' = f /\ UNCHANGED <<audioVars, handling, strm_state>>

\* sw_codec_init refuses what is initialized, sw_codec_uninit what is not.
CodecInitFails == \E x \in Enabled(sw_codec_cfg) : m_config[x]
CodecUninitFails == \E x \in Enabled(sw_codec_cfg) : ~m_config[x]
\* Mutant: the decoder stays initialized.
DecoderKept == [m_config EXCEPT !.enc = m_config.enc /\ ~sw_codec_cfg.enc]
CodecUninitialized == [x \in {"enc", "dec"} |-> m_config[x] /\ ~sw_codec_cfg[x]]

\* audio_system_start, with audio_datapath_start.
AudioSystemStart ==
    IF CodecInitFails \/ path_started THEN Fault("start") /\ UNCHANGED encoder
    ELSE /\ sw_codec_cfg' = [sw_codec_cfg EXCEPT !.initialized = TRUE]
         /\ m_config' = [enc |-> sw_codec_cfg.enc, dec |-> sw_codec_cfg.dec]
         /\ encoder' = IF sw_codec_cfg.enc /\ encoder.at = "none"
                       THEN [encoder EXCEPT !.at = "poll"] ELSE encoder
         /\ path_started' = TRUE
         /\ handling' = [handling EXCEPT !.do = "streaming"]
         /\ UNCHANGED <<strm_state, hs_fault>>

AudioSystemStop ==
    IF ~sw_codec_cfg.initialized
    THEN UNCHANGED <<audioVars, strm_state, hs_fault>> /\ handling' = [handling EXCEPT !.do = "none"]
    ELSE IF ~path_started \/ CodecUninitFails THEN Fault("stop")
    ELSE /\ path_started' = FALSE
         /\ m_config' = CodecUninitialized
         /\ sw_codec_cfg' = [sw_codec_cfg EXCEPT !.initialized = FALSE]
         /\ handling' = [handling EXCEPT !.do = "none"]
         /\ UNCHANGED <<strm_state, hs_fault>>

\* audio_datapath_i2s_blk_complete puts a block, and drops the oldest if there is no room.
I2sBlock ==
    /\ hs_fault = "none" /\ path_started
    /\ audio_q_rx < FrameBlocks
    /\ audio_q_rx' = audio_q_rx + 1
    /\ UNCHANGED <<serverVars, handling, strm_state, audioVars, encoder, encoder_sig, hs_fault>>

EncoderRunnable == \/ encoder.at = "poll" /\ encoder_sig
                   \/ encoder.at = "collect" /\ audio_q_rx > 0

\* encoder_thread: it collects a frame's blocks, encodes them, and streamctrl_send sends.
EncoderStep ==
    /\ hs_fault = "none" /\ EncoderRunnable
    /\ IF encoder.got + audio_q_rx < FrameBlocks
       THEN /\ encoder' = [at |-> "collect", got |-> encoder.got + audio_q_rx]
            /\ audio_q_rx' = 0 /\ UNCHANGED hs_fault
       ELSE /\ audio_q_rx' = (encoder.got + audio_q_rx) - FrameBlocks
            /\ encoder' = [at |-> "poll", got |-> 0]
            /\ hs_fault' = IF m_config.enc THEN "none" ELSE "encode"
    /\ UNCHANGED <<serverVars, handling, strm_state, audioVars, encoder_sig>>

-----------------------------------------------------------------------------
(* main.c: le_audio_msg_sub_thread.                                        *)

Subscriber == hs_fault = "none" /\ ~EncoderRunnable /\ UNCHANGED <<cap_audio_streams, cap_tx_stream>>
Got(event) ==
    /\ Subscriber
    /\ handling.do = "none" /\ le_audio_q # <<>> /\ Head(le_audio_q).event = event
    /\ le_audio_q' = Tail(le_audio_q)
Doing(what) == Subscriber /\ handling.do = what /\ UNCHANGED le_audio_q
Left(what) == handling' = [do |-> what, dir |-> Head(le_audio_q).dir]

EvtStreaming ==
    /\ Got("STREAMING")
    /\ encoder_sig' = (encoder_sig \/ Head(le_audio_q).dir = "source")
    /\ Left(IF strm_state = "streaming" THEN "none" ELSE "start")
    /\ UNCHANGED <<strm_state, audioVars, encoder, audio_q_rx, hs_fault>>
Start == Doing("start") /\ AudioSystemStart /\ UNCHANGED <<encoder_sig, audio_q_rx>>
Streaming ==
    /\ Doing("streaming")
    /\ strm_state' = "streaming" /\ handling' = [handling EXCEPT !.do = "none"]
    /\ UNCHANGED <<audioVars, encoderVars, hs_fault>>

EvtNotStreaming ==
    /\ Got("NOT_STREAMING")
    /\ IF strm_state = "paused" THEN Left("none") /\ UNCHANGED <<strm_state, encoder_sig>>
       ELSE /\ encoder_sig' = (encoder_sig /\ Head(le_audio_q).dir = "sink")
            /\ strm_state' = "paused"
            /\ Left("stop")
    /\ UNCHANGED <<audioVars, encoder, audio_q_rx, hs_fault>>
Stop == Doing("stop") /\ AudioSystemStop /\ UNCHANGED encoderVars

\* unicast_server_config_get reads the first stream for a sink, whatever its direction.
ConfigStream(d) == IF d = "sink" THEN 1 ELSE cap_tx_stream
\* With audio_system_config_set: the codec in use is not touched.
EvtConfigReceived ==
    /\ Got("CONFIG_RECEIVED")
    /\ LET d == Head(le_audio_q).dir
       IN sw_codec_cfg' = IF ~CodecCfg(ConfigStream(d)) THEN sw_codec_cfg
                          ELSE IF d = "sink" THEN [sw_codec_cfg EXCEPT !.dec = TRUE]
                          ELSE [sw_codec_cfg EXCEPT !.enc = TRUE]
    /\ UNCHANGED <<handling, strm_state, m_config, path_started, encoderVars, hs_fault>>

\* The delay goes to the datapath, whose state is AudioDatapath's.
EvtPresDelaySet ==
    /\ Got("PRES_DELAY_SET")
    /\ UNCHANGED <<handling, strm_state, audioVars, encoderVars, hs_fault>>

-----------------------------------------------------------------------------
Client == \/ \E d \in Dirs : Lc3Config(d)
          \/ \E s \in Streams :
                 \/ Lc3Reconfig(s)
                 \/ Lc3Qos(s)
                 \/ Lc3Enable(s)
                 \/ StreamStarted(s)
                 \/ Lc3Disable(s)
                 \/ Lc3Stop(s)
                 \/ StreamStopped(s)
                 \/ Lc3Release(s)

HeadsetNext == \/ Client
               \/ I2sBlock
               \/ EncoderStep
               \/ EvtStreaming
               \/ Start
               \/ Streaming
               \/ EvtNotStreaming
               \/ Stop
               \/ EvtConfigReceived
               \/ EvtPresDelaySet

HeadsetSpec == HeadsetInit /\ [][HeadsetNext]_headsetVars

-----------------------------------------------------------------------------
HeadsetTypeOK ==
    /\ cap_audio_streams \in [Streams -> [dir : Dirs, st : EpStates]]
    /\ cap_tx_stream \in 0..(Sinks + Sources)
    /\ Len(le_audio_q) <= HsMessages
    /\ handling \in [do : {"none", "start", "streaming", "stop"}, dir : Dirs]
    /\ strm_state \in {"paused", "streaming"}
    /\ sw_codec_cfg \in [enc : BOOLEAN, dec : BOOLEAN, initialized : BOOLEAN]
    /\ m_config \in [enc : BOOLEAN, dec : BOOLEAN]
    /\ path_started \in BOOLEAN /\ encoder_sig \in BOOLEAN
    /\ encoder \in [at : {"none", "poll", "collect"}, got : 0..(FrameBlocks - 1)]
    /\ audio_q_rx \in 0..FrameBlocks
    /\ hs_fault \in {"none", "start", "stop", "encode"}

\* When no stream runs and the messages are handled, the application is paused, the
\* datapath is stopped and no codec is initialized: whatever message came last, and
\* although the state was changed by messages of both streams (main.c:196-228).
QuietWithoutStreams ==
    (/\ hs_fault = "none" /\ handling.do = "none" /\ le_audio_q = <<>>
     /\ \A s \in Streams : ~Runs(s))
        => /\ strm_state = "paused" /\ ~path_started
           /\ ~m_config.enc /\ ~m_config.dec

\* What the program asserts of itself: no ERR_CHK of audio_system_start, of
\* audio_system_stop and of the encoder fails (audio_system.c:266, :500, :551).
HeadsetRunsOn == hs_fault = "none"
=============================================================================
