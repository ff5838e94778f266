------------------------------ MODULE SdPlayback ------------------------------
(***************************************************************************)
(* Playback of a file of the SD card, mixed into the stream: a thread of   *)
(* priority 7 reads frames from the card into a ring buffer, the audio     *)
(* datapath's thread of priority 4 takes one per frame it plays.           *)
(*   rf5340 src/modules/sd_card_playback.c and sd_card.c                   *)
(*                                                                         *)
(* WAV and LC3 files are played alike, only their headers and the decoding *)
(* differ.  The datapath preempts the playback thread anywhere.  The shell *)
(* that commands it and the card are external.                             *)
(***************************************************************************)
EXTENDS Naturals, Sequences

CONSTANTS Plays,       \* bound: how many times a file is asked for
          FileFrames,  \* the frames of a file
          RingFrames   \* CONFIG_SD_CARD_PLAYBACK_RING_BUF_SIZE in frames: 960 bytes are one

ASSUME SdPlaybackAssumption ==
    Plays \in Nat /\ FileFrames \in Nat \ {0} /\ RingFrames \in Nat \ {0}

VARIABLES play_request,   \* playback_file_name: the latest file asked for; m_sem_playback
          playback,       \* the thread: what it is at, of which file, at which frame
          playback_active,
          ring,           \* the frames in m_ringbuf_audio_data_lc3
          space_available,  \* m_sem_ringbuf_space_available
          mixed,          \* the frame that was mixed last
          mix_fault       \* a frame was mixed again, or after a later one, or of another file
sdPlaybackVars == <<play_request, playback, playback_active, ring, space_available, mixed, mix_fault>>

NothingMixed == [of |-> 0, frame |-> 0]

SdPlaybackInit ==
    /\ play_request = [name |-> 0, given |-> FALSE]
    /\ playback = [at |-> "wait", of |-> 0, frame |-> 0]
    /\ playback_active = FALSE
    /\ ring = <<>>
    /\ space_available = FALSE
    /\ mixed = NothingMixed
    /\ mix_fault = FALSE

-----------------------------------------------------------------------------
\* sd_card_playback_wav and _lc3: a command given while a file plays waits for its end, and
\* is forgotten when another follows.
PlayCommand ==
    /\ play_request.name < Plays
    /\ play_request' = [name |-> play_request.name + 1, given |-> TRUE]
    /\ UNCHANGED <<playback, playback_active, ring, space_available, mixed, mix_fault>>

\* Mutant: the ring is not emptied before a file.
RingKept == UNCHANGED ring
RingReset == ring' = <<>>

\* sd_card_playback_thread, up to the opening of the file.
PlaybackBegins ==
    /\ playback.at = "wait" /\ play_request.given
    /\ play_request' = [play_request EXCEPT !.given = FALSE]
    /\ RingReset
    /\ space_available' = TRUE
    /\ playback' = [at |-> "header", of |-> play_request.name, frame |-> 0]
    /\ UNCHANGED <<playback_active, mixed, mix_fault>>

At(step) == playback' = [playback EXCEPT !.at = step]
\* The loop is left: the file is closed.
PlaybackEnds == At("wait") /\ playback_active' = FALSE

\* sd_card_open, sd_card_read and the check of the header.
HeaderRead(ok) ==
    /\ playback.at = "header"
    /\ IF ok THEN At("frame") /\ UNCHANGED playback_active ELSE PlaybackEnds
    /\ UNCHANGED <<play_request, ring, space_available, mixed, mix_fault>>

\* The next frame is read, an LC3 frame decoded too; or the file is at its end.
FrameRead(ok) ==
    /\ playback.at = "frame"
    /\ IF ok /\ playback.frame < FileFrames
       THEN playback' = [playback EXCEPT !.at = "space", !.frame = @ + 1] /\ UNCHANGED playback_active
       ELSE PlaybackEnds
    /\ UNCHANGED <<play_request, ring, space_available, mixed, mix_fault>>

\* sd_card_playback_ringbuf_write: the semaphore ...
SpaceTaken ==
    /\ playback.at = "space" /\ space_available
    /\ space_available' = FALSE
    /\ At("lock")
    /\ UNCHANGED <<play_request, playback_active, ring, mixed, mix_fault>>

\* ... is waited for no longer than 20 ms: "Skipping frame", but the loop ends.
SpaceTimeout ==
    /\ playback.at = "space" /\ ~space_available
    /\ PlaybackEnds
    /\ UNCHANGED <<play_request, ring, space_available, mixed, mix_fault>>

RingLocked ==
    /\ playback.at = "lock"
    /\ At("put")
    /\ UNCHANGED <<play_request, playback_active, ring, space_available, mixed, mix_fault>>

\* A full ring takes nothing, and nobody is told.
FramePut ==
    /\ playback.at = "put"
    /\ ring' = IF Len(ring) < RingFrames
               THEN Append(ring, [of |-> playback.of, frame |-> playback.frame]) ELSE ring
    /\ At("written")
    /\ UNCHANGED <<play_request, playback_active, space_available, mixed, mix_fault>>

\* The first frame makes the ring readable.
FrameWritten ==
    /\ playback.at = "written"
    /\ playback_active' = (playback_active \/ playback.frame = 1)
    /\ At("frame")
    /\ UNCHANGED <<play_request, ring, space_available, mixed, mix_fault>>

\* sd_card_playback_ringbuf_read: the semaphore is given whenever there is space for a
\* frame, a frame read or not.
RingRead ==
    /\ ring' = IF ring = <<>> THEN ring ELSE Tail(ring)
    /\ space_available' = TRUE

\* sd_card_playback_mix_with_stream: no frame when the ring is locked or empty.
MixWithStream ==
    /\ playback_active /\ playback.at # "put"
    /\ RingRead
    /\ IF ring = <<>> THEN UNCHANGED <<mixed, mix_fault>>
       ELSE /\ mixed' = Head(ring)
            /\ mix_fault' = (mix_fault \/ Head(ring).of # playback.of
                               \/ (mixed.of = Head(ring).of /\ mixed.frame >= Head(ring).frame))
    /\ UNCHANGED <<play_request, playback, playback_active>>

SdPlaybackNext == \/ PlayCommand
                  \/ PlaybackBegins
                  \/ \E ok \in BOOLEAN : HeaderRead(ok)
                  \/ \E ok \in BOOLEAN : FrameRead(ok)
                  \/ SpaceTaken
                  \/ SpaceTimeout
                  \/ RingLocked
                  \/ FramePut
                  \/ FrameWritten
                  \/ MixWithStream

-----------------------------------------------------------------------------
SdPlaybackTypeOK ==
    /\ play_request \in [name : 0..Plays, given : BOOLEAN]
    /\ playback \in [at : {"wait", "header", "frame", "space", "lock", "put", "written"},
                     of : 0..Plays, frame : 0..FileFrames]
    /\ playback_active \in BOOLEAN /\ space_available \in BOOLEAN /\ mix_fault \in BOOLEAN
    /\ ring \in Seq([of : 1..Plays, frame : 1..FileFrames])
    /\ mixed \in [of : 0..Plays, frame : 0..FileFrames]

\* What is mixed is of the file that plays, in its order and no frame twice, whatever was
\* left in the ring by a file that ended early and however the two threads interleave.
\* (A frame may be lost: a semaphore given for an empty ring lets the writer put into a
\* full one.)
PlaysTheFileInOrder == ~mix_fault
=============================================================================
