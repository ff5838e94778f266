------------------------------ MODULE Lc3Streamer ------------------------------
(***************************************************************************)
(* The LC3 streamer: files of the SD card that are read frame by frame,    *)
(* one frame ahead of the application, by a work queue.                    *)
(*   rf5340 src/modules/lc3_streamer.c, lc3_file.c and sd_card.c           *)
(*                                                                         *)
(* The application calls from one thread.  The work queue has one thread   *)
(* too; it waits for the card while it loads, and the application may run  *)
(* then.  The application, the card and nRF's data_fifo are external.      *)
(***************************************************************************)
EXTENDS Naturals, Sequences, FiniteSets

CONSTANTS Lc3Streams,   \* CONFIG_SD_CARD_LC3_STREAMER_MAX_NUM_STREAMS: the slots 1..n
          Lc3Frames     \* the frames of a file

ASSUME Lc3Assumption == Lc3Streams \in Nat \ {0} /\ Lc3Frames \in Nat \ {0}

VARIABLES lc3,         \* slot -> the stream: state, loop, the file's next frame, the fifo, active_buffer
          lc3_work,    \* slot -> its work item: queued, and being executed
          lc3_given,   \* slot -> the last frame the application got
          lc3_raced,   \* the slots that were closed while their work was under way
          lc3_fault    \* a frame was given out of order, lost, or had no room
lc3Vars == <<lc3, lc3_work, lc3_given, lc3_raced, lc3_fault>>

Streams3 == 1..Lc3Streams
BufferNumFrames == 2   \* LC3_STREAMER_BUFFER_NUM_FRAMES
Closed == 0            \* of a file: its next frame when it is not open
IdleStream == [state |-> "IDLE", loop |-> FALSE, next |-> Closed, filled |-> <<>>, active |-> 0]
NoWork == [queued |-> FALSE, loading |-> FALSE]
Pending(s) == lc3_work[s].queued \/ lc3_work[s].loading
Blocks(s) == Len(lc3[s].filled) + (IF lc3[s].active = 0 THEN 0 ELSE 1)

Lc3Init ==
    /\ lc3 = [s \in Streams3 |-> IdleStream]
    /\ lc3_work = [s \in Streams3 |-> NoWork]
    /\ lc3_given = [s \in Streams3 |-> 0]
    /\ lc3_raced = {}
    /\ lc3_fault = FALSE

-----------------------------------------------------------------------------
(* What the application calls.                                             *)

\* Mutant: both buffers are filled before the first frame is asked for.
FirstFramesBoth == <<1, 2>>
FirstFrames == <<1>>

\* lc3_streamer_stream_register; without a free slot or its file it changes nothing.  When
\* the first frame cannot be read, the slot is the application's to close.
Register(loop, ok) ==
    LET idle == {s \in Streams3 : lc3[s].state = "IDLE"}
        s == CHOOSE i \in idle : \A j \in idle : i <= j
    IN  /\ idle # {}
        /\ lc3' = [lc3 EXCEPT ![s] = [state |-> IF ok THEN "PLAYING" ELSE "ENDED", loop |-> loop,
                                      next |-> Len(FirstFrames) + 1,
                                      filled |-> IF ok THEN FirstFrames ELSE <<>>, active |-> 0]]
        /\ lc3_work' = [lc3_work EXCEPT ![s].queued = FALSE]
        /\ lc3_given' = [lc3_given EXCEPT ![s] = 0]
        /\ UNCHANGED <<lc3_raced, lc3_fault>>

\* What follows the frame that was given last.
Following(s) == IF lc3[s].loop /\ lc3_given[s] = Lc3Frames THEN 1 ELSE lc3_given[s] + 1
Misgiven(s, wrong) == lc3_fault' = (lc3_fault \/ (wrong /\ s \notin lc3_raced))

\* lc3_streamer_next_frame_get: the buffer given before becomes free in any case.
NextFrameGet(s) ==
    /\ lc3[s].state = "PLAYING" /\ lc3[s].filled # <<>>
    /\ lc3' = [lc3 EXCEPT ![s].active = Head(lc3[s].filled), ![s].filled = Tail(@)]
    /\ lc3_work' = [lc3_work EXCEPT ![s].queued = TRUE]
    /\ lc3_given' = [lc3_given EXCEPT ![s] = Head(lc3[s].filled)]
    /\ Misgiven(s, Head(lc3[s].filled) # Following(s))
    /\ UNCHANGED lc3_raced

NextFrameNotReady(s) ==
    /\ lc3[s].state = "PLAYING" /\ lc3[s].filled = <<>>
    /\ lc3' = [lc3 EXCEPT ![s].active = 0]
    /\ UNCHANGED <<lc3_work, lc3_given, lc3_raced, lc3_fault>>

NextFrameNoData(s) ==
    /\ lc3[s].state = "LAST_FRAME"
    /\ lc3' = [lc3 EXCEPT ![s].active = 0, ![s].state = "ENDED"]
    /\ Misgiven(s, lc3_given[s] # Lc3Frames)
    /\ UNCHANGED <<lc3_work, lc3_given, lc3_raced>>

\* lc3_streamer_stream_close: what the work queue is doing is not asked.
StreamClose(s) ==
    /\ lc3[s].state # "IDLE"
    /\ lc3' = [lc3 EXCEPT ![s] = [IdleStream EXCEPT !.loop = lc3[s].loop]]
    /\ lc3_raced' = IF Pending(s) THEN lc3_raced \cup {s} ELSE lc3_raced
    /\ UNCHANGED <<lc3_work, lc3_given, lc3_fault>>

\* lc3_streamer_close_all_streams drains the queue first.
CloseAllStreams ==
    /\ \A s \in Streams3 : ~Pending(s)
    /\ lc3' = [s \in Streams3 |-> [IdleStream EXCEPT !.loop = lc3[s].loop]]
    /\ UNCHANGED <<lc3_work, lc3_given, lc3_raced, lc3_fault>>

-----------------------------------------------------------------------------
(* The work queue: next_frame_load.                                        *)

\* put_next_frame_to_fifo takes a block first.
LoadBegins(s) ==
    /\ lc3_work[s].queued /\ \A t \in Streams3 : ~lc3_work[t].loading
    /\ LET vacant == Blocks(s) < BufferNumFrames
       IN  /\ lc3_work' = [lc3_work EXCEPT ![s] = [queued |-> FALSE, loading |-> vacant]]
           /\ lc3' = IF vacant THEN lc3 ELSE [lc3 EXCEPT ![s].state = "ENDED"]
           /\ Misgiven(s, ~vacant)
    /\ UNCHANGED <<lc3_given, lc3_raced>>

Loaded(s, stream) ==
    /\ lc3' = [lc3 EXCEPT ![s] = stream]
    /\ lc3_work' = [lc3_work EXCEPT ![s].loading = FALSE]
    /\ UNCHANGED <<lc3_given, lc3_raced, lc3_fault>>
With(s, frame) == [lc3[s] EXCEPT !.filled = Append(@, frame), !.next = frame + 1]

\* The next frame of the file, or after its last one the first: stream_loop.
LoadFrame(s) ==
    /\ lc3_work[s].loading /\ lc3[s].next # Closed
    /\ \/ lc3[s].next <= Lc3Frames /\ Loaded(s, With(s, lc3[s].next))
       \/ lc3[s].next > Lc3Frames /\ lc3[s].loop /\ Loaded(s, With(s, 1))

LoadNoData(s) ==
    /\ lc3_work[s].loading /\ lc3[s].next > Lc3Frames /\ ~lc3[s].loop
    /\ Loaded(s, [lc3[s] EXCEPT !.state = "LAST_FRAME"])

\* The card fails, or the file has been closed.
LoadFails(s) ==
    /\ lc3_work[s].loading
    /\ Loaded(s, [lc3[s] EXCEPT !.state = "ENDED"])

Lc3Next == \/ \E loop, ok \in BOOLEAN : Register(loop, ok)
           \/ \E s \in Streams3 :
                  \/ NextFrameGet(s)
                  \/ NextFrameNotReady(s)
                  \/ NextFrameNoData(s)
                  \/ StreamClose(s)
                  \/ LoadBegins(s)
                  \/ LoadFrame(s)
                  \/ LoadNoData(s)
                  \/ LoadFails(s)
           \/ CloseAllStreams

-----------------------------------------------------------------------------
Lc3TypeOK ==
    /\ lc3 \in [Streams3 -> [state : {"IDLE", "PLAYING", "LAST_FRAME", "ENDED"}, loop : BOOLEAN,
                             next : 0..(Lc3Frames + 1), filled : Seq(1..Lc3Frames), active : 0..Lc3Frames]]
    /\ lc3_work \in [Streams3 -> [queued : BOOLEAN, loading : BOOLEAN]]
    /\ lc3_given \in [Streams3 -> 0..Lc3Frames]
    /\ lc3_raced \subseteq Streams3
    /\ lc3_fault \in BOOLEAN

\* An application gets the frames of a file one by one, in order, round and round or up to
\* the last before it is told that there are no more, however the work queue lags behind;
\* and each frame that is loaded has a buffer.  Excepted is a slot that was closed while its
\* work was under way: the work then ends, or reads ahead of, the stream that comes next.
FramesAreGivenInOrder ==
    /\ ~lc3_fault
    /\ \A s \in Streams3 \ lc3_raced : Blocks(s) + (IF lc3_work[s].loading THEN 1 ELSE 0) <= BufferNumFrames
=============================================================================
