---------------------------- MODULE AudioDatapath ----------------------------
(***************************************************************************)
(* The headset's way from the decoder to I2S: the decoded frames lie in a  *)
(* FIFO of blocks, and blocks are inserted or removed until a frame plays  *)
(* the presentation delay after its SDU reference.                         *)
(*   rf5340 src/audio/audio_datapath.c                                     *)
(*                                                                         *)
(* The interrupt of I2S (BlkComplete) may come between any two steps of    *)
(* the datapath thread.  Time is counted in blocks, a delay from when its   *)
(* frame was received, which is at a fixed time after the reference; it is *)
(* handled within a block, and its reference is taken as exact (a wrong    *)
(* one is estimated).  How far the clocks drift is external.               *)
(***************************************************************************)
EXTENDS Integers, Sequences, SequencesExt

CONSTANTS FifoBlks,      \* FIFO_NUM_BLKS
          BlksInFrame,   \* NUM_BLKS_IN_FRAME
          PresDelays,    \* the presentation delays that may be set, less the reception's
          DataPts        \* PRES_COMP_NUM_DATA_PTS

ASSUME AudioDatapathAssumption ==
    /\ FifoBlks \in Nat /\ BlksInFrame \in Nat \ {0, 1} /\ DataPts \in Nat \ {0}
    /\ PresDelays \subseteq Nat /\ PresDelays # {}
    /\ \A p \in PresDelays : 2 <= p /\ 2 * p <= FifoBlks

VARIABLES dp_started,
          out,         \* the FIFO from the consumer's block on: ages of the blocks, and prod
          tx,          \* the buffers I2S plays now and next
          sdu,         \* blocks since a frame was due; the frame to handle, if any
          prev_ref,    \* 1 + the frames due since prev_pres_sdu_ref_us; 0: it is not set
          drift_state,
          pres,        \* pres_comp; its counter and sum are 0 while no state reads them
          current_pres_dly,
          dp_off,      \* the FIFO was uneven as the last measurement began, or was disturbed since
          dp_fault
datapathVars == <<dp_started, out, tx, sdu, prev_ref, drift_state, pres, current_pres_dly, dp_off, dp_fault>>

AgeCap == FifoBlks + 2            \* a block as old as this only counts as old
Capped(a) == IF a > AgeCap THEN AgeCap ELSE a
Silence == [age |-> [j \in 1..FifoBlks |-> AgeCap], prod |-> 2]

\* audio_datapath_init
DatapathInit ==
    /\ dp_started = FALSE
    /\ out = Silence
    /\ tx = <<"fifo", "fifo">>
    /\ sdu = [phase |-> 0, frame |-> "none", late |-> 0]
    /\ prev_ref = 0
    /\ drift_state = "INIT"
    /\ \E d \in PresDelays : pres = [state |-> "INIT", ctr |-> 0, sum |-> 0, delay |-> d]
    /\ current_pres_dly = 0
    /\ dp_off = FALSE /\ dp_fault = FALSE

-----------------------------------------------------------------------------
(* audio_datapath_i2s_blk_complete: the interrupt.                         *)

\* A block older: the ages, seen from the consumer's block, which moves on by n.
Older(n) == [j \in 1..FifoBlks |-> Capped(out.age[1 + ((j - 1 + n) % FifoBlks)] + 1)]
Underrun == out.prod = 1
AltBuffers == {"alt_0", "alt_1"}
\* Mutant: the released buffer is freed after the next is taken.
AltBufferFreeLate == AltBuffers \ {tx[1], tx[2]}
AltBufferFree == AltBuffers \ {tx[2]}

\* audio_datapath_drift_compensation: the clock's error decides.
DriftCompensation(state) ==
    \/ state = drift_state
    \/ drift_state = "INIT" /\ prev_ref # 0 /\ state = "CALIB"
    \/ drift_state = "CALIB" /\ state \in {"INIT", "OFFSET"}
    \/ drift_state = "OFFSET" /\ state = "LOCKED"
    \/ drift_state = "LOCKED" /\ state = "INIT"

\* A frame is due every BlksInFrame blocks; it may be missing, or be dropped as a duplicate.
NextBlock ==
    IF sdu.phase + 1 < BlksInFrame
    THEN sdu' = [sdu EXCEPT !.phase = @ + 1, !.late = 1] /\ UNCHANGED prev_ref
    ELSE /\ \E f \in {"none", "received"} : sdu' = [phase |-> 0, frame |-> f, late |-> 0]
         /\ prev_ref' = IF prev_ref \in {1, 2} THEN prev_ref + 1 ELSE prev_ref

\* A measurement is made or has been made.
Measured == pres.state \in {"MEAS", "LOCKED"}

BlkComplete ==
    /\ dp_started /\ ~dp_fault
    /\ sdu.frame # "none" => sdu.late = 0
    /\ current_pres_dly' = Capped(out.age[1] + 1)
    /\ IF Underrun
       THEN /\ out' = [out EXCEPT !.age = Older(0)]
            /\ dp_fault' = (AltBufferFree = {})
            /\ tx' = IF AltBufferFree = {} THEN tx
                     ELSE <<tx[2], IF "alt_0" \in AltBufferFree THEN "alt_0" ELSE "alt_1">>
            /\ dp_off' = Measured
       ELSE /\ out' = [age |-> Older(1), prod |-> (out.prod - 1 + FifoBlks) % FifoBlks]
            /\ tx' = <<tx[2], "fifo">>
            /\ UNCHANGED <<dp_fault, dp_off>>
    /\ NextBlock
    /\ \E s \in {"INIT", "CALIB", "OFFSET", "LOCKED"} : DriftCompensation(s) /\ drift_state' = s
    /\ UNCHANGED <<dp_started, pres>>

-----------------------------------------------------------------------------
(* audio_datapath_stream_out: the thread.                                  *)

NotConsecutive == prev_ref # 2
Sign(n) == IF n < 0 THEN -1 ELSE 1
\* The mean error, rounded to blocks, and limited to half of the FIFO.
PresAdjBlks(sum) ==
    LET blks == ((2 * Sign(sum) * sum) + DataPts) \div (2 * DataPts)
    IN Sign(sum) * (IF blks > FifoBlks \div 2 THEN FifoBlks \div 2 ELSE blks)

\* Blocks inserted at the producer's index are muted; removed ones are overwritten.
Adjusted(blks) ==
    [age |-> [j \in 1..FifoBlks |->
                  IF blks > 0 /\ (j - 1 - out.prod + FifoBlks) % FifoBlks < blks
                  THEN sdu.late + blks - ((j - 1 - out.prod + FifoBlks) % FifoBlks)
                  ELSE out.age[j]],
     prod |-> (out.prod + blks + FifoBlks) % FifoBlks]

Waits == FifoBlks \div BlksInFrame

\* Mutant: a frame that is missing does not start the measurement again.
PresCompStaysLocked ==
    IF NotConsecutive /\ pres.state # "LOCKED" THEN [pres EXCEPT !.state = "WAIT", !.ctr = 0, !.sum = 0] ELSE pres
PresCompRestarted ==
    IF NotConsecutive THEN [pres EXCEPT !.state = "WAIT", !.ctr = 0, !.sum = 0] ELSE pres

\* The blocks of the FIFO follow each other, and the frame follows the last of them.
InStep ==
    /\ out.prod # 0 /\ out.prod + 1 + sdu.late = current_pres_dly
    /\ \A j \in 1..out.prod : out.age[j] = current_pres_dly - j

\* audio_datapath_presentation_compensation
PresCompensation ==
    IF drift_state # "LOCKED" THEN pres' = [pres EXCEPT !.state = "INIT", !.ctr = 0, !.sum = 0] /\ UNCHANGED <<out, dp_off>>
    ELSE LET p == PresCompRestarted
         IN CASE p.state = "INIT" ->
                   /\ pres' = [p EXCEPT !.state = "MEAS", !.ctr = 0, !.sum = 0]
                   /\ dp_off' = ~InStep /\ UNCHANGED out
              [] p.state = "MEAS" /\ p.ctr < DataPts ->
                   /\ pres' = [p EXCEPT !.ctr = @ + 1, !.sum = @ + (pres.delay - current_pres_dly)]
                   /\ UNCHANGED <<out, dp_off>>
              [] p.state = "MEAS" /\ p.ctr = DataPts ->
                   LET blks == PresAdjBlks(p.sum)
                   IN /\ pres' = [p EXCEPT !.state = IF blks = 0 THEN "LOCKED" ELSE "WAIT", !.ctr = 0, !.sum = 0]
                      /\ out' = Adjusted(blks)
                      /\ UNCHANGED dp_off
              [] p.state = "WAIT" ->
                   /\ pres' = [p EXCEPT !.ctr = @ + 1, !.state = IF p.ctr > Waits THEN "INIT" ELSE "WAIT"]
                   /\ UNCHANGED <<out, dp_off>>
              [] OTHER -> pres' = p /\ UNCHANGED <<out, dp_off>>

StreamOut ==
    /\ sdu.frame = "received" /\ ~dp_fault
    /\ IF dp_started THEN /\ sdu' = [sdu EXCEPT !.frame = "decode"]
                          /\ prev_ref' = 1
                          /\ PresCompensation
       ELSE sdu' = [sdu EXCEPT !.frame = "none"] /\ UNCHANGED <<prev_ref, pres, out, dp_off>>
    /\ UNCHANGED <<dp_started, tx, drift_state, current_pres_dly, dp_fault>>

\* From the decoder on: the frame is added, or it is discarded, as there is no buffer for it,
\* it cannot be decoded, has a wrong size, or the FIFO has no room.
AddFrame ==
    /\ sdu.frame = "decode"
    /\ sdu' = [sdu EXCEPT !.frame = "none"]
    /\ \/ dp_off' = Measured /\ UNCHANGED out
       \/ /\ out.prod + BlksInFrame <= FifoBlks
          /\ out' = [age |-> [j \in 1..FifoBlks |->
                                   IF j - 1 \in out.prod..(out.prod + BlksInFrame - 1)
                                   THEN sdu.late - (j - 1 - out.prod) ELSE out.age[j]],
                       prod |-> (out.prod + BlksInFrame) % FifoBlks]
          /\ UNCHANGED dp_off
    /\ UNCHANGED <<dp_started, tx, prev_ref, drift_state, pres, current_pres_dly, dp_fault>>

-----------------------------------------------------------------------------
\* audio_datapath_start and audio_datapath_i2s_start, which takes the consumer back by two.
DatapathStart ==
    /\ ~dp_started /\ ~dp_fault
    /\ dp_started' = TRUE
    /\ out' = Silence
    /\ tx' = <<"fifo", "fifo">>
    /\ UNCHANGED <<sdu, prev_ref, drift_state, pres, current_pres_dly, dp_off, dp_fault>>

\* The thread is not in stream_out: it has the higher priority.
DatapathStop ==
    /\ dp_started /\ ~dp_fault /\ sdu.frame # "decode"
    /\ dp_started' = FALSE
    /\ prev_ref' = 0
    /\ pres' = [pres EXCEPT !.state = "INIT", !.ctr = 0, !.sum = 0]
    /\ tx' = <<"fifo", "fifo">>
    /\ UNCHANGED <<out, sdu, drift_state, current_pres_dly, dp_off, dp_fault>>

PresDelaySet(d) ==
    /\ pres.delay # d
    /\ pres' = [pres EXCEPT !.delay = d]
    /\ dp_off' = Measured
    /\ UNCHANGED <<dp_started, out, tx, sdu, prev_ref, drift_state, current_pres_dly, dp_fault>>

DatapathNext == \/ BlkComplete
                \/ StreamOut
                \/ AddFrame
                \/ DatapathStart
                \/ DatapathStop
                \/ \E d \in PresDelays : PresDelaySet(d)

-----------------------------------------------------------------------------
DatapathTypeOK ==
    /\ dp_started \in BOOLEAN /\ dp_off \in BOOLEAN /\ dp_fault \in BOOLEAN
    /\ out \in [age : [1..FifoBlks -> (-BlksInFrame)..AgeCap], prod : 0..(FifoBlks - 1)]
    /\ tx \in Seq(AltBuffers \cup {"fifo"}) /\ Len(tx) = 2
    /\ sdu \in [phase : 0..(BlksInFrame - 1), frame : {"none", "received", "decode"}, late : 0..1]
    /\ prev_ref \in 0..3
    /\ drift_state \in {"INIT", "CALIB", "OFFSET", "LOCKED"}
    /\ pres \in [state : {"INIT", "MEAS", "WAIT", "LOCKED"}, ctr : 0..(Waits + 2) \cup 0..DataPts,
                 sum : Int, delay : PresDelays]
    /\ current_pres_dly \in (-BlksInFrame)..AgeCap

\* I2S always has a buffer to play: the two alternative ones are enough (:714).
AltBuffersSuffice == ~dp_fault

\* While the presentation delay is said to be right, a block plays the delay that was set
\* after its reference, unless blocks from before a missing frame were in the FIFO as the
\* measurement began, or since then it ran empty, a frame was discarded or another delay
\* was set: what the compensation does not notice.
InTimeWhenLocked ==
    (dp_started /\ pres.state = "LOCKED" /\ ~dp_off) => current_pres_dly = pres.delay
=============================================================================
