------------------------------ MODULE AudioProofs ------------------------------
(***************************************************************************)
(* Proofs about the parts of Firmware that play and send audio, for every  *)
(* value of its constants: the frames of a file are given in their order,  *)
(* a headset without streams is quiet, merged frames play right and in     *)
(* time, the broadcast source follows its group and counts its buffers,    *)
(* and the state of all parts keeps its types.                             *)
(***************************************************************************)
EXTENDS FirmwareProofs, FiniteSetTheorems, WellFoundedInduction

-----------------------------------------------------------------------------
(* What the CHOOSE of a lowest slot, stream or endpoint finds.             *)

LEMMA LessIsWellFounded == \E R : IsWellFoundedOn(R, Nat) /\ \A x, y \in Nat : y < x => <<y, x>> \in R
<1> DEFINE R == OpToRel(<, Nat)
<1>1. IsWellFoundedOn(R, Nat)
  BY NatLessThanWellFounded, Zenon
<1>2. \A x, y \in Nat : y < x => <<y, x>> \in R
  BY DEF OpToRel
<1> HIDE DEF R
<1>3. QED
  BY <1>1, <1>2, Zenon

LEMMA LeastExists == ASSUME NEW T \in SUBSET Nat, T # {} PROVE \E x \in T : \A y \in T : x <= y
<1>1. PICK R : IsWellFoundedOn(R, Nat) /\ \A x, y \in Nat : y < x => <<y, x>> \in R
  BY LessIsWellFounded
<1>2. PICK x \in T : \A y \in T : ~ (<<y, x>> \in R)
  BY <1>1, WFMin
<1>3. \A y \in T : ~ (y < x)
  BY <1>1, <1>2
<1>4. QED
  BY <1>2, <1>3

-----------------------------------------------------------------------------
(* lc3_streamer.c                                                          *)

Lc3Slot == [state : {"IDLE", "PLAYING", "LAST_FRAME", "ENDED"}, loop : BOOLEAN,
            next : 0..(Lc3Frames + 1), filled : Seq(1..Lc3Frames), active : 0..Lc3Frames]
Lc3Work == [queued : BOOLEAN, loading : BOOLEAN]

\* The frame that comes after the n-th of a file.
After(loop, n) == IF loop /\ n = Lc3Frames THEN 1 ELSE n + 1

\* A slot r with the work item w and the last frame given n: at most one frame lies ready, only
\* without one is the next one loaded, and what is ready, or else to be read, follows n.
SlotInv(r, w, n) ==
    /\ Len(r.filled) <= 1
    /\ w.queued \/ w.loading => r.state = "PLAYING" /\ r.filled = <<>>
    /\ ~(w.queued /\ w.loading)
    /\ r.state = "IDLE" => r.filled = <<>> /\ r.active = 0
    /\ r.state = "LAST_FRAME" => r.filled = <<>> /\ n = Lc3Frames
    /\ r.state = "PLAYING" /\ r.filled = <<>> => r.next = n + 1
    /\ r.state = "PLAYING" /\ r.filled # <<>> => r.filled[1] = After(r.loop, n) /\ r.next = r.filled[1] + 1

\* The inductive invariant of the streamer.
Lc3Inv ==
    /\ lc3 \in [Streams3 -> Lc3Slot] /\ lc3_work \in [Streams3 -> Lc3Work]
    /\ lc3_given \in [Streams3 -> 0..Lc3Frames] /\ lc3_raced \subseteq Streams3
    /\ \A s \in Streams3 \ lc3_raced : SlotInv(lc3[s], lc3_work[s], lc3_given[s])
    /\ ~lc3_fault

LEMMA OneFrame == ASSUME NEW n \in 1..Lc3Frames
                  PROVE <<n>> \in Seq(1..Lc3Frames) /\ Len(<<n>>) = 1 /\ <<n>>[1] = n /\ <<n>> # <<>>
  OBVIOUS

LEMMA NoFrames == <<>> \in Seq(1..Lc3Frames) /\ Len(<<>>) = 0
  BY EmptySeq

\* The frames that lie ready in a slot that was not raced.
LEMMA ReadyFrames ==
  ASSUME NEW S, NEW q \in Seq(S), Len(q) <= 1
  PROVE  /\ q = <<>> <=> Len(q) = 0
         /\ q # <<>> => Len(q) = 1 /\ Head(q) = q[1] /\ q[1] \in S /\ Tail(q) = <<>>
<1>1. CASE q = <<>>
  BY <1>1, EmptySeq
<1>2. CASE q # <<>>
  <2>1. Len(q) \in Nat \ {0}
    BY <1>2, EmptySeq
  <2>2. Len(q) = 1
    BY <1>2, <2>1
  <2>3. q[1] \in S
    BY <2>2, ElementOfSeq
  <2>4. PICK t : t = Tail(q)
    OBVIOUS
  <2>5. t \in Seq(S) /\ Len(t) = 0
    BY <1>2, <2>2, <2>4, HeadTailProperties
  <2>6. t = <<>>
    BY <2>5, EmptySeq
  <2>7. Head(q) = q[1]
    OBVIOUS
  <2>8. QED
    BY <1>2, <2>2, <2>3, <2>4, <2>6, <2>7
<1>3. QED
  BY <1>1, <1>2

\* A step of slot s only: what is to be shown is about s.
LEMMA OneSlot ==
  ASSUME Lc3Inv, NEW s \in Streams3, NEW r \in Lc3Slot, NEW w \in Lc3Work, NEW n \in 0..Lc3Frames,
         lc3' = [lc3 EXCEPT ![s] = r], lc3_work' = [lc3_work EXCEPT ![s] = w],
         lc3_given' = [lc3_given EXCEPT ![s] = n], lc3_raced \subseteq lc3_raced', lc3_raced' \subseteq Streams3,
         s \notin lc3_raced' => SlotInv(r, w, n), ~lc3_fault'
  PROVE  Lc3Inv'
<1>1. lc3' \in [Streams3 -> Lc3Slot] /\ lc3_work' \in [Streams3 -> Lc3Work] /\ lc3_given' \in [Streams3 -> 0..Lc3Frames]
  <2>1. /\ lc3 \in [Streams3 -> Lc3Slot] /\ lc3_work \in [Streams3 -> Lc3Work]
        /\ lc3_given \in [Streams3 -> 0..Lc3Frames]
    BY DEF Lc3Inv
  <2>2. QED
    BY <2>1
<1>2. \A t \in Streams3 : /\ lc3'[t] = (IF t = s THEN r ELSE lc3[t])
                          /\ lc3_work'[t] = (IF t = s THEN w ELSE lc3_work[t])
                          /\ lc3_given'[t] = (IF t = s THEN n ELSE lc3_given[t])
  BY DEF Lc3Inv
<1>3. \A t \in Streams3 \ lc3_raced' : SlotInv(lc3'[t], lc3_work'[t], lc3_given'[t])
  BY <1>2 DEF Lc3Inv
<1>4. QED
  BY <1>1, <1>3 DEF Lc3Inv, SlotInv, After

LEMMA RegisterInv == ASSUME Lc3Inv, NEW loop \in BOOLEAN, NEW ok \in BOOLEAN, Register(loop, ok) PROVE Lc3Inv'
<1> DEFINE idle == {s \in Streams3 : lc3[s].state = "IDLE"}
           Lowest(i) == i \in idle /\ \A j \in idle : i <= j
           s == CHOOSE i \in idle : \A j \in idle : i <= j
           r == [state |-> IF ok THEN "PLAYING" ELSE "ENDED", loop |-> loop, next |-> Len(FirstFrames) + 1,
                 filled |-> IF ok THEN FirstFrames ELSE <<>>, active |-> 0]
<1>1. s \in idle
  <2>1. idle # {} /\ idle \in SUBSET Nat
    BY Lc3Assumption DEF Register, Streams3, Lc3Assumption
  <2>2. \E i \in idle : \A j \in idle : i <= j
    BY <2>1, LeastExists
  <2>3. QED
    BY <2>2
<1>2. Len(FirstFrames) = 1 /\ FirstFrames[1] = 1 /\ FirstFrames # <<>> /\ FirstFrames \in Seq(1..Lc3Frames)
  BY Lc3Assumption DEF FirstFrames, Lc3Assumption
<1>3. s \in Streams3 /\ lc3[s].state = "IDLE"
  BY <1>1
<1>4. /\ lc3' = [lc3 EXCEPT ![s] = r] /\ lc3_work' = [lc3_work EXCEPT ![s].queued = FALSE]
      /\ lc3_given' = [lc3_given EXCEPT ![s] = 0] /\ UNCHANGED <<lc3_raced, lc3_fault>>
  BY DEF Register
<1> HIDE DEF s
<1>5. r \in Lc3Slot
  <2>1. Len(FirstFrames) + 1 \in 0..(Lc3Frames + 1) /\ 0 \in 0..Lc3Frames
    BY <1>2, Lc3Assumption DEF Lc3Assumption
  <2>2. r.filled \in Seq(1..Lc3Frames)
    BY <1>2, NoFrames
  <2>3. QED
    BY <2>1, <2>2 DEF Lc3Slot
<1>6. r.filled = (IF ok THEN FirstFrames ELSE <<>>) /\ r.next = 2 /\ r.active = 0 /\ r.loop = loop
      /\ r.state = (IF ok THEN "PLAYING" ELSE "ENDED")
  BY <1>2
<1> HIDE DEF r
<1> DEFINE w == [lc3_work[s] EXCEPT !.queued = FALSE]
<1>7. w \in Lc3Work /\ ~w.queued /\ w.loading = lc3_work[s].loading /\ lc3_work' = [lc3_work EXCEPT ![s] = w]
  BY <1>3, <1>4 DEF Lc3Inv, Lc3Work
<1> HIDE DEF w
<1>8. s \notin lc3_raced => SlotInv(r, w, 0)
  <2> SUFFICES ASSUME s \notin lc3_raced PROVE SlotInv(r, w, 0)
    OBVIOUS
  <2>1. SlotInv(lc3[s], lc3_work[s], lc3_given[s])
    BY <1>3 DEF Lc3Inv
  <2>2. ~w.loading
    BY <1>3, <1>7, <2>1 DEF SlotInv
  <2>3. Len(r.filled) <= 1 /\ (ok => r.filled[1] = 1 /\ r.filled # <<>>) /\ (~ok => r.filled = <<>>)
    <3>1. CASE ok
      <4>1. r.filled = FirstFrames
        BY <1>6, <3>1
      <4>2. FirstFrames[1] = 1 /\ FirstFrames # <<>> /\ Len(FirstFrames) <= 1
        BY <1>2
      <4>3. QED
        BY <3>1, <4>1, <4>2, Zenon
    <3>2. CASE ~ok
      BY <1>6, <3>2, NoFrames
    <3>3. QED
      BY <3>1, <3>2
  <2>4. After(loop, 0) = 1
    BY Lc3Assumption DEF After, Lc3Assumption
  <2>5. QED
    BY <1>6, <1>7, <2>2, <2>3, <2>4 DEF SlotInv
<1>9. 0 \in 0..Lc3Frames /\ UNCHANGED lc3_raced /\ ~lc3_fault'
  BY <1>4, Lc3Assumption DEF Lc3Inv, Lc3Assumption
<1>10. lc3_raced' \subseteq Streams3
  BY <1>9 DEF Lc3Inv
<1>11. QED
  BY <1>3, <1>4, <1>5, <1>7, <1>8, <1>9, <1>10, OneSlot

\* What the invariant says of a slot before a step.
LEMMA SlotFacts ==
  ASSUME Lc3Inv, NEW s \in Streams3
  PROVE  /\ lc3[s] \in Lc3Slot /\ lc3_work[s] \in Lc3Work /\ lc3_given[s] \in 0..Lc3Frames
         /\ lc3[s].filled \in Seq(1..Lc3Frames) /\ lc3[s].next \in 0..(Lc3Frames + 1) /\ lc3[s].loop \in BOOLEAN
         /\ Len(lc3[s].filled) \in Nat
         /\ s \notin lc3_raced => SlotInv(lc3[s], lc3_work[s], lc3_given[s])
<1>1. lc3[s] \in Lc3Slot
  BY DEF Lc3Inv
<1>2. lc3[s].filled \in Seq(1..Lc3Frames) /\ lc3[s].next \in 0..(Lc3Frames + 1) /\ lc3[s].loop \in BOOLEAN
  BY <1>1 DEF Lc3Slot
<1>3. Len(lc3[s].filled) \in Nat
  BY <1>2, LenProperties
<1>4. lc3_work[s] \in Lc3Work /\ lc3_given[s] \in 0..Lc3Frames
  BY DEF Lc3Inv
<1>5. QED
  BY <1>1, <1>2, <1>3, <1>4 DEF Lc3Inv

\* The application takes the frame that lies ready, which is the one that follows.
LEMMA NextFrameGetInv == ASSUME Lc3Inv, NEW s \in Streams3, NextFrameGet(s) PROVE Lc3Inv'
<1> DEFINE q == lc3[s].filled
<1>1. /\ lc3[s].state = "PLAYING" /\ q # <<>>
      /\ lc3' = [lc3 EXCEPT ![s].active = Head(q), ![s].filled = Tail(@)]
      /\ lc3_work' = [lc3_work EXCEPT ![s].queued = TRUE]
      /\ lc3_given' = [lc3_given EXCEPT ![s] = Head(q)]
      /\ Misgiven(s, Head(q) # Following(s)) /\ UNCHANGED lc3_raced
  BY DEF NextFrameGet
<1>2. q \in Seq(1..Lc3Frames) /\ lc3[s] \in Lc3Slot /\ lc3_work[s] \in Lc3Work
  BY SlotFacts
<1>3. PICK h, t : h = Head(q) /\ t = Tail(q)
  OBVIOUS
<1>4. h \in 1..Lc3Frames /\ h \in 0..Lc3Frames /\ t \in Seq(1..Lc3Frames)
  <2>1. h \in 1..Lc3Frames /\ t \in Seq(1..Lc3Frames)
    BY <1>1, <1>2, <1>3, HeadTailProperties
  <2>2. QED
    BY <2>1, Lc3Assumption DEF Lc3Assumption
<1> DEFINE r == [lc3[s] EXCEPT !.active = h, !.filled = t]
           w == [lc3_work[s] EXCEPT !.queued = TRUE]
<1>5. lc3' = [lc3 EXCEPT ![s] = r] /\ lc3_work' = [lc3_work EXCEPT ![s] = w]
  BY <1>1, <1>3 DEF Lc3Inv
<1>6. /\ r \in Lc3Slot /\ r.state = "PLAYING" /\ r.filled = t
      /\ r.loop = lc3[s].loop /\ r.next = lc3[s].next
  BY <1>1, <1>2, <1>4 DEF Lc3Slot
<1>7. w \in Lc3Work /\ w.queued /\ w.loading = lc3_work[s].loading
  BY <1>2 DEF Lc3Work
<1> HIDE DEF r, w
<1>8. ASSUME s \notin lc3_raced
      PROVE  SlotInv(r, w, h) /\ h = Following(s)
  <2>1. SlotInv(lc3[s], lc3_work[s], lc3_given[s])
    BY <1>8, SlotFacts
  <2>2. Len(q) <= 1
    BY <2>1 DEF SlotInv
  <2>3. h = q[1] /\ t = <<>>
    BY <1>1, <1>2, <1>3, <2>2, ReadyFrames
  <2>4. q[1] = After(lc3[s].loop, lc3_given[s]) /\ lc3[s].next = q[1] + 1 /\ ~lc3_work[s].loading
    BY <1>1, <2>1 DEF SlotInv
  <2>5. h = Following(s)
    BY <2>3, <2>4 DEF After, Following
  <2>6. Len(r.filled) <= 1 /\ r.filled = <<>>
    BY <1>6, <2>3, NoFrames
  <2>7. SlotInv(r, w, h)
    BY <1>6, <1>7, <2>3, <2>4, <2>6 DEF SlotInv
  <2>8. QED
    BY <2>5, <2>7
<1>9. ~lc3_fault' /\ lc3_raced' \subseteq Streams3 /\ UNCHANGED lc3_raced
  BY <1>1, <1>3, <1>8 DEF Misgiven, Lc3Inv
<1>10. lc3_given' = [lc3_given EXCEPT ![s] = h]
  BY <1>1, <1>3
<1>11. QED
  BY <1>4, <1>5, <1>6, <1>7, <1>8, <1>9, <1>10, OneSlot

LEMMA ClosedSlot ==
  ASSUME NEW loop \in BOOLEAN
  PROVE  LET r == [IdleStream EXCEPT !.loop = loop]
         IN  r \in Lc3Slot /\ r.state = "IDLE" /\ r.filled = <<>> /\ r.active = 0
<1>1. [IdleStream EXCEPT !.loop = loop] = [state |-> "IDLE", loop |-> loop, next |-> 0, filled |-> <<>>, active |-> 0]
  BY DEF IdleStream, Closed
<1>2. 0 \in 0..Lc3Frames /\ 0 \in 0..(Lc3Frames + 1) /\ <<>> \in Seq(1..Lc3Frames)
  BY NoFrames, Lc3Assumption DEF Lc3Assumption
<1>3. QED
  BY <1>1, <1>2 DEF Lc3Slot

\* A step that only marks a slot, with no frame to be moved.
LEMMA NextFrameNoneInv ==
  ASSUME Lc3Inv, NEW s \in Streams3, NextFrameNotReady(s) \/ NextFrameNoData(s) PROVE Lc3Inv'
<1> DEFINE r1 == [lc3[s] EXCEPT !.active = 0]
           r2 == [lc3[s] EXCEPT !.active = 0, !.state = "ENDED"]
<1>0. lc3[s] \in Lc3Slot /\ lc3_work[s] \in Lc3Work /\ lc3_given[s] \in 0..Lc3Frames /\ 0 \in 0..Lc3Frames
  BY SlotFacts, Lc3Assumption DEF Lc3Assumption
<1>1. lc3_work' = [lc3_work EXCEPT ![s] = lc3_work[s]] /\ lc3_given' = [lc3_given EXCEPT ![s] = lc3_given[s]]
  BY DEF NextFrameNotReady, NextFrameNoData, Lc3Inv
<1>2. UNCHANGED lc3_raced /\ lc3_raced' \subseteq Streams3
  BY DEF NextFrameNotReady, NextFrameNoData, Lc3Inv
<1>3. CASE NextFrameNotReady(s)
  <2>1. lc3' = [lc3 EXCEPT ![s] = r1] /\ ~lc3_fault'
    BY <1>3 DEF NextFrameNotReady, Lc3Inv
  <2>2. r1 \in Lc3Slot
    BY <1>0 DEF Lc3Slot
  <2>3. /\ r1.state = lc3[s].state /\ r1.loop = lc3[s].loop /\ r1.next = lc3[s].next
        /\ r1.filled = lc3[s].filled /\ r1.active = 0
    BY <1>0 DEF Lc3Slot
  <2>4. s \notin lc3_raced => SlotInv(r1, lc3_work[s], lc3_given[s])
    BY <2>3, SlotFacts DEF SlotInv
  <2> HIDE DEF r1
  <2>5. QED
    BY <1>0, <1>1, <1>2, <2>1, <2>2, <2>4, OneSlot
<1>4. CASE NextFrameNoData(s)
  <2>1. lc3' = [lc3 EXCEPT ![s] = r2] /\ lc3[s].state = "LAST_FRAME"
    BY <1>4 DEF NextFrameNoData, Lc3Inv
  <2>2. r2 \in Lc3Slot
    BY <1>0 DEF Lc3Slot
  <2>3. r2.state = "ENDED" /\ r2.filled = lc3[s].filled
    BY <1>0 DEF Lc3Slot
  <2>4. s \notin lc3_raced => SlotInv(r2, lc3_work[s], lc3_given[s]) /\ lc3_given[s] = Lc3Frames
    BY <2>1, <2>3, SlotFacts DEF SlotInv
  <2>5. ~lc3_fault'
    BY <1>4, <2>4 DEF NextFrameNoData, Misgiven, Lc3Inv
  <2> HIDE DEF r2
  <2>6. QED
    BY <1>0, <1>1, <1>2, <2>1, <2>2, <2>4, <2>5, OneSlot
<1>5. QED
  BY <1>3, <1>4

\* A slot that is closed while its work is under way counts as raced from then on.
LEMMA StreamCloseInv == ASSUME Lc3Inv, NEW s \in Streams3, StreamClose(s) PROVE Lc3Inv'
<1> DEFINE r == [IdleStream EXCEPT !.loop = lc3[s].loop]
<1>0. lc3[s] \in Lc3Slot /\ lc3_work[s] \in Lc3Work /\ lc3_given[s] \in 0..Lc3Frames /\ lc3[s].loop \in BOOLEAN
  BY SlotFacts
<1>1. r \in Lc3Slot /\ r.state = "IDLE" /\ r.filled = <<>> /\ r.active = 0
  BY <1>0, ClosedSlot
<1>2. /\ lc3' = [lc3 EXCEPT ![s] = r] /\ lc3_work' = [lc3_work EXCEPT ![s] = lc3_work[s]]
      /\ lc3_given' = [lc3_given EXCEPT ![s] = lc3_given[s]]
      /\ lc3_raced \subseteq lc3_raced' /\ lc3_raced' \subseteq Streams3 /\ ~lc3_fault'
  BY DEF StreamClose, Lc3Inv
<1> HIDE DEF r
<1>3. s \notin lc3_raced' => SlotInv(r, lc3_work[s], lc3_given[s])
  <2> SUFFICES ASSUME s \notin lc3_raced' PROVE SlotInv(r, lc3_work[s], lc3_given[s])
    OBVIOUS
  <2>1. ~Pending(s)
    BY DEF StreamClose
  <2>2. QED
    BY <1>1, <2>1, NoFrames DEF SlotInv, Pending
<1>4. QED
  BY <1>0, <1>1, <1>2, <1>3, OneSlot

LEMMA CloseAllInv == ASSUME Lc3Inv, CloseAllStreams PROVE Lc3Inv'
<1>1. lc3' = [s \in Streams3 |-> [IdleStream EXCEPT !.loop = lc3[s].loop]]
      /\ UNCHANGED <<lc3_work, lc3_given, lc3_raced, lc3_fault>>
  BY DEF CloseAllStreams
<1>2. ASSUME NEW s \in Streams3
      PROVE  lc3'[s] \in Lc3Slot /\ SlotInv(lc3'[s], lc3_work[s], lc3_given[s])
  <2> DEFINE r == [IdleStream EXCEPT !.loop = lc3[s].loop]
  <2>1. lc3[s].loop \in BOOLEAN
    BY SlotFacts
  <2>2. r \in Lc3Slot /\ r.state = "IDLE" /\ r.filled = <<>> /\ r.active = 0
    BY <2>1, ClosedSlot
  <2>3. lc3'[s] = r /\ ~Pending(s)
    BY <1>1 DEF CloseAllStreams
  <2> HIDE DEF r
  <2>4. QED
    BY <2>2, <2>3, NoFrames DEF SlotInv, Pending
<1>3. lc3' \in [Streams3 -> Lc3Slot]
  BY <1>1, <1>2
<1>4. QED
  BY <1>1, <1>2, <1>3 DEF Lc3Inv

\* The work queue takes a block: there is one, for at most the frame in use has the other.
LEMMA LoadBeginsInv == ASSUME Lc3Inv, NEW s \in Streams3, LoadBegins(s) PROVE Lc3Inv'
<1> DEFINE vacant == Blocks(s) < BufferNumFrames
           w == [queued |-> FALSE, loading |-> vacant]
           r == IF vacant THEN lc3[s] ELSE [lc3[s] EXCEPT !.state = "ENDED"]
<1>0. /\ lc3[s] \in Lc3Slot /\ lc3_given[s] \in 0..Lc3Frames
      /\ s \notin lc3_raced => SlotInv(lc3[s], lc3_work[s], lc3_given[s])
  BY SlotFacts
<1>1. /\ lc3' = [lc3 EXCEPT ![s] = r] /\ lc3_work' = [lc3_work EXCEPT ![s] = w]
      /\ lc3_given' = [lc3_given EXCEPT ![s] = lc3_given[s]]
      /\ UNCHANGED lc3_raced /\ lc3_raced' \subseteq Streams3
  BY DEF LoadBegins, Lc3Inv
<1>2. r \in Lc3Slot /\ w \in Lc3Work
  BY <1>0 DEF Lc3Slot, Lc3Work
<1>3. ASSUME s \notin lc3_raced PROVE vacant /\ SlotInv(r, w, lc3_given[s])
  <2>1. lc3_work[s].queued /\ lc3[s].state = "PLAYING" /\ lc3[s].filled = <<>>
    BY <1>0, <1>3 DEF LoadBegins, SlotInv
  <2>2. vacant
    BY <2>1, NoFrames DEF Blocks, BufferNumFrames
  <2>3. QED
    BY <1>0, <1>3, <2>1, <2>2 DEF SlotInv
<1>4. ~lc3_fault'
  BY <1>3 DEF LoadBegins, Misgiven, Lc3Inv
<1> HIDE DEF r, w
<1>5. QED
  BY <1>0, <1>1, <1>2, <1>3, <1>4, OneSlot

\* A load ends: with the frame that follows, the end of the file, or an error.
LEMMA LoadEndsInv ==
  ASSUME Lc3Inv, NEW s \in Streams3, lc3_work[s].loading, NEW r \in Lc3Slot, Loaded(s, r),
         s \notin lc3_raced => SlotInv(r, [queued |-> FALSE, loading |-> FALSE], lc3_given[s])
  PROVE  Lc3Inv'
<1> DEFINE w == [lc3_work[s] EXCEPT !.loading = FALSE]
<1>0. /\ lc3_work[s] \in Lc3Work /\ lc3_given[s] \in 0..Lc3Frames
      /\ s \notin lc3_raced => SlotInv(lc3[s], lc3_work[s], lc3_given[s])
  BY SlotFacts
<1>1. /\ lc3' = [lc3 EXCEPT ![s] = r] /\ lc3_work' = [lc3_work EXCEPT ![s] = w]
      /\ lc3_given' = [lc3_given EXCEPT ![s] = lc3_given[s]]
      /\ UNCHANGED lc3_raced /\ lc3_raced' \subseteq Streams3 /\ ~lc3_fault'
  BY DEF Loaded, Lc3Inv
<1>2. w \in Lc3Work /\ w.queued = lc3_work[s].queued /\ ~w.loading
  BY <1>0 DEF Lc3Work
<1>3. s \notin lc3_raced => SlotInv(r, w, lc3_given[s])
  BY <1>0, <1>2 DEF SlotInv
<1> HIDE DEF w
<1>4. QED
  BY <1>0, <1>1, <1>2, <1>3, OneSlot

\* What a slot becomes with one frame more.
LEMMA WithFrame ==
  ASSUME Lc3Inv, NEW s \in Streams3, NEW f \in 1..Lc3Frames
  PROVE  /\ With(s, f) \in Lc3Slot /\ With(s, f).state = lc3[s].state /\ With(s, f).loop = lc3[s].loop
         /\ With(s, f).next = f + 1 /\ With(s, f).filled = Append(lc3[s].filled, f)
<1>1. lc3[s] \in Lc3Slot /\ lc3[s].filled \in Seq(1..Lc3Frames)
  BY SlotFacts
<1>2. PICK a : a = Append(lc3[s].filled, f)
  OBVIOUS
<1>3. a \in Seq(1..Lc3Frames) /\ f + 1 \in 0..(Lc3Frames + 1)
  BY <1>1, <1>2, AppendProperties, Lc3Assumption DEF Lc3Assumption
<1>4. With(s, f) = [lc3[s] EXCEPT !.filled = a, !.next = f + 1]
  BY <1>2 DEF With
<1>5. QED
  BY <1>1, <1>2, <1>3, <1>4 DEF Lc3Slot

LEMMA LoadFrameInv == ASSUME Lc3Inv, NEW s \in Streams3, LoadFrame(s) PROVE Lc3Inv'
<1>1. lc3[s].next \in 0..(Lc3Frames + 1) /\ lc3_given[s] \in 0..Lc3Frames
  BY SlotFacts
<1>2. ASSUME NEW f \in 1..Lc3Frames, s \notin lc3_raced => f = After(lc3[s].loop, lc3_given[s]),
             Loaded(s, With(s, f))
      PROVE  Lc3Inv'
  <2>1. s \notin lc3_raced => SlotInv(With(s, f), [queued |-> FALSE, loading |-> FALSE], lc3_given[s])
    <3> SUFFICES ASSUME s \notin lc3_raced
                 PROVE  SlotInv(With(s, f), [queued |-> FALSE, loading |-> FALSE], lc3_given[s])
      OBVIOUS
    <3>1. lc3[s].filled = <<>> /\ lc3[s].state = "PLAYING"
      BY SlotFacts DEF LoadFrame, SlotInv
    <3>2. PICK r : r = With(s, f)
      OBVIOUS
    <3>3. r.filled = <<f>> /\ r.state = "PLAYING" /\ r.loop = lc3[s].loop /\ r.next = f + 1
      BY <3>1, <3>2, WithFrame
    <3>4. r.filled # <<>> /\ Len(r.filled) = 1 /\ r.filled[1] = f
      BY <3>3, OneFrame
    <3>5. QED
      BY <1>2, <3>2, <3>3, <3>4 DEF SlotInv
  <2>2. lc3_work[s].loading
    BY DEF LoadFrame
  <2>3. QED
    BY <1>2, <2>1, <2>2, WithFrame, LoadEndsInv
<1>3. s \notin lc3_raced => lc3[s].next = lc3_given[s] + 1
  BY SlotFacts DEF LoadFrame, SlotInv
<1>4. CASE lc3[s].next <= Lc3Frames /\ Loaded(s, With(s, lc3[s].next))
  <2>1. lc3[s].next \in 1..Lc3Frames
    BY <1>1, <1>4 DEF LoadFrame, Closed
  <2>2. s \notin lc3_raced => lc3[s].next = After(lc3[s].loop, lc3_given[s])
    BY <1>1, <1>3, <1>4, Lc3Assumption DEF After, Lc3Assumption
  <2>3. QED
    BY <1>2, <1>4, <2>1, <2>2
<1>5. CASE lc3[s].next > Lc3Frames /\ lc3[s].loop /\ Loaded(s, With(s, 1))
  <2>1. 1 \in 1..Lc3Frames
    BY Lc3Assumption DEF Lc3Assumption
  <2>2. s \notin lc3_raced => 1 = After(lc3[s].loop, lc3_given[s])
    BY <1>1, <1>3, <1>5, Lc3Assumption DEF After, Lc3Assumption
  <2>3. QED
    BY <1>2, <1>5, <2>1, <2>2
<1>6. QED
  BY <1>4, <1>5 DEF LoadFrame

LEMMA LoadNoneInv == ASSUME Lc3Inv, NEW s \in Streams3, LoadNoData(s) \/ LoadFails(s) PROVE Lc3Inv'
<1>1. /\ lc3[s] \in Lc3Slot /\ lc3[s].next \in 0..(Lc3Frames + 1) /\ lc3_given[s] \in 0..Lc3Frames
      /\ s \notin lc3_raced => SlotInv(lc3[s], lc3_work[s], lc3_given[s])
  BY SlotFacts
<1>2. lc3_work[s].loading
  BY DEF LoadNoData, LoadFails
<1>3. CASE LoadNoData(s)
  <2> DEFINE r == [lc3[s] EXCEPT !.state = "LAST_FRAME"]
  <2>1. r \in Lc3Slot /\ r.state = "LAST_FRAME" /\ r.filled = lc3[s].filled
    BY <1>1 DEF Lc3Slot
  <2>2. Loaded(s, r)
    BY <1>3 DEF LoadNoData
  <2> HIDE DEF r
  <2>3. s \notin lc3_raced => SlotInv(r, [queued |-> FALSE, loading |-> FALSE], lc3_given[s])
    <3> SUFFICES ASSUME s \notin lc3_raced PROVE SlotInv(r, [queued |-> FALSE, loading |-> FALSE], lc3_given[s])
      OBVIOUS
    <3>1. lc3[s].filled = <<>> /\ lc3[s].next = lc3_given[s] + 1
      BY <1>1, <1>2 DEF SlotInv
    <3>2. lc3_given[s] = Lc3Frames
      BY <1>1, <1>3, <3>1, Lc3Assumption DEF LoadNoData, Lc3Assumption
    <3>3. QED
      BY <2>1, <3>1, <3>2, NoFrames DEF SlotInv
  <2>4. QED
    BY <1>2, <2>1, <2>2, <2>3, LoadEndsInv
<1>4. CASE LoadFails(s)
  <2> DEFINE r == [lc3[s] EXCEPT !.state = "ENDED"]
  <2>1. r \in Lc3Slot /\ r.state = "ENDED" /\ r.filled = lc3[s].filled
    BY <1>1 DEF Lc3Slot
  <2>2. Loaded(s, r)
    BY <1>4 DEF LoadFails
  <2> HIDE DEF r
  <2>3. s \notin lc3_raced => SlotInv(r, [queued |-> FALSE, loading |-> FALSE], lc3_given[s])
    BY <1>1, <2>1 DEF SlotInv
  <2>4. QED
    BY <1>2, <2>1, <2>2, <2>3, LoadEndsInv
<1>5. QED
  BY <1>3, <1>4

LEMMA Lc3Step == ASSUME Lc3Inv, Lc3Next PROVE Lc3Inv'
  BY RegisterInv, NextFrameGetInv, NextFrameNoneInv, StreamCloseInv, CloseAllInv, LoadBeginsInv, LoadFrameInv,
     LoadNoneInv DEF Lc3Next

LEMMA Lc3InvHolds == Spec => []Lc3Inv
<1>1. Init => Lc3Inv
  <2> SUFFICES ASSUME Lc3Init PROVE Lc3Inv
    BY DEF Init
  <2>1. 0 \in 0..Lc3Frames /\ 0 \in 0..(Lc3Frames + 1) /\ <<>> \in Seq(1..Lc3Frames)
    BY NoFrames, Lc3Assumption DEF Lc3Assumption
  <2>2. IdleStream \in Lc3Slot /\ IdleStream.state = "IDLE" /\ IdleStream.filled = <<>> /\ IdleStream.active = 0
    BY <2>1 DEF IdleStream, Closed, Lc3Slot
  <2>3. NoWork \in Lc3Work /\ ~NoWork.queued /\ ~NoWork.loading /\ 0 \in 0..Lc3Frames
    BY Lc3Assumption DEF NoWork, Lc3Work, Lc3Assumption
  <2>4. SlotInv(IdleStream, NoWork, 0)
    BY <2>2, <2>3, NoFrames DEF SlotInv
  <2>5. QED
    BY <2>2, <2>3, <2>4 DEF Lc3Init, Lc3Inv
<1>2. Lc3Inv /\ [Next]_firmwareVars => Lc3Inv'
  <2> SUFFICES ASSUME Lc3Inv, [Next]_firmwareVars PROVE Lc3Inv'
    OBVIOUS
  <2>1. Lc3Next \/ UNCHANGED lc3Vars
    BY DEF Next, firmwareVars, cardVars
  <2>2. CASE UNCHANGED lc3Vars
    BY <2>2 DEF lc3Vars, Lc3Inv, SlotInv, After
  <2>3. QED
    BY <2>1, <2>2, Lc3Step
<1>3. QED
  BY <1>1, <1>2, PTL DEF Spec

\* An application gets the frames of a file in their order, with a buffer for each, however the
\* work queue lags behind, for any number of streams and frames (FramesAreGivenInOrder); only a
\* slot that was closed while its work was under way is excepted.
THEOREM FilesPlayInOrder == Spec => []FramesAreGivenInOrder
<1>1. Lc3Inv => FramesAreGivenInOrder
  <2> SUFFICES ASSUME Lc3Inv, NEW s \in Streams3 \ lc3_raced
               PROVE  Blocks(s) + (IF lc3_work[s].loading THEN 1 ELSE 0) <= BufferNumFrames
    BY DEF FramesAreGivenInOrder, Lc3Inv
  <2>1. SlotInv(lc3[s], lc3_work[s], lc3_given[s]) /\ Len(lc3[s].filled) \in Nat
    BY SlotFacts
  <2>2. Len(lc3[s].filled) <= 1 /\ (lc3_work[s].loading => Len(lc3[s].filled) = 0)
    BY <2>1, NoFrames DEF SlotInv
  <2>3. PICK n \in Nat : n = Len(lc3[s].filled)
    BY <2>1
  <2>4. n <= 1 /\ (lc3_work[s].loading => n = 0)
    BY <2>2, <2>3
  <2>5. Blocks(s) = n + (IF lc3[s].active = 0 THEN 0 ELSE 1)
    BY <2>3 DEF Blocks
  <2>6. QED
    BY <2>4, <2>5 DEF BufferNumFrames
<1>2. QED
  BY <1>1, Lc3InvHolds, PTL

-----------------------------------------------------------------------------
(* unicast_server/main.c                                                   *)

HsMsg == [event : {"CONFIG_RECEIVED", "PRES_DELAY_SET", "STREAMING", "NOT_STREAMING"}, dir : Dirs]

HsTypes ==
    /\ cap_audio_streams \in [Streams -> [dir : Dirs, st : EpStates]]
    /\ le_audio_q \in Seq(HsMsg)
    /\ handling \in [do : {"none", "start", "streaming", "stop"}, dir : Dirs]
    /\ strm_state \in {"paused", "streaming"}
    /\ sw_codec_cfg \in [enc : BOOLEAN, dec : BOOLEAN, initialized : BOOLEAN]
    /\ m_config \in [enc : BOOLEAN, dec : BOOLEAN]
    /\ path_started \in BOOLEAN

\* The datapath runs, and the audio system is initialized, from the start of a message's
\* handling that makes the application stream to the end of the one that pauses it; the codecs
\* that are initialized are of those that are enabled, and none is when the datapath stands.
PathFollows ==
    hs_fault = "none" =>
        /\ handling.do # "none" => strm_state = "paused"
        /\ path_started <=> strm_state = "streaming" \/ handling.do \in {"streaming", "stop"}
        /\ sw_codec_cfg.initialized <=> path_started
        /\ m_config.enc => sw_codec_cfg.enc /\ path_started
        /\ m_config.dec => sw_codec_cfg.dec /\ path_started

NoneRuns == \A s \in Streams : ~Runs(s)

\* No message after the n-th says that a stream was started.
NoneStartedAfter(q, n) == \A i \in 1..Len(q) : i > n => q[i].event # "STREAMING"

\* When no stream runs, the application is paused or being paused, or a message that pauses it
\* is still to be handled, after which none makes it stream.
QuietComes ==
    NoneRuns =>
        \/ NoneStartedAfter(le_audio_q, 0) /\ strm_state = "paused" /\ handling.do \in {"none", "stop"}
        \/ \E n \in 1..Len(le_audio_q) :
               le_audio_q[n].event = "NOT_STREAMING" /\ NoneStartedAfter(le_audio_q, n)

\* The inductive invariant of the headset.
HeadsetInv == HsTypes /\ PathFollows /\ QuietComes

LEMMA QueueFacts ==
  ASSUME NEW S, NEW q \in Seq(S)
  PROVE  Len(q) \in Nat /\ \A i \in 1..Len(q) : q[i] \in S
  BY LenProperties, ElementOfSeq

LEMMA LongerQueue ==
  ASSUME NEW S, NEW q \in Seq(S), NEW m \in S
  PROVE  /\ Append(q, m) \in Seq(S) /\ Len(Append(q, m)) = Len(q) + 1
         /\ \A i \in 1..Len(q) : Append(q, m)[i] = q[i]
         /\ Append(q, m)[Len(q) + 1] = m
  BY AppendProperties

LEMMA ShorterQueue ==
  ASSUME NEW S, NEW q \in Seq(S), q # <<>>
  PROVE  /\ Len(q) \in Nat \ {0} /\ Tail(q) \in Seq(S) /\ Len(Tail(q)) = Len(q) - 1
         /\ Head(q) = q[1] /\ Head(q) \in S
         /\ \A i \in 1..Len(q) - 1 : Tail(q)[i] = q[i + 1]
<1>1. Len(q) \in Nat \ {0}
  BY EmptySeq
<1>2. Head(q) = q[1] /\ Head(q) \in S
  BY HeadTailProperties
<1>3. Tail(q) \in Seq(S) /\ Len(Tail(q)) = Len(q) - 1 /\ \A i \in 1..Len(Tail(q)) : Tail(q)[i] = q[i + 1]
  BY HeadTailProperties
<1>4. QED
  BY <1>1, <1>2, <1>3

\* A callback that publishes something other than a start does not break the quiet.
LEMMA PublishedKeeps ==
  ASSUME HeadsetInv, NEW event \in {"CONFIG_RECEIVED", "PRES_DELAY_SET", "STREAMING", "NOT_STREAMING"},
         NEW d \in Dirs, Published(event, d), UNCHANGED <<handling, strm_state>>,
         \/ event # "STREAMING" /\ (NoneRuns' => NoneRuns)
         \/ event = "NOT_STREAMING"
         \/ ~NoneRuns'
  PROVE  le_audio_q' \in Seq(HsMsg) /\ QuietComes'
<1> DEFINE m == [event |-> event, dir |-> d]
<1>1. m \in HsMsg /\ m.event = event
  BY DEF HsMsg
<1>2. le_audio_q' = Append(le_audio_q, m)
  BY DEF Published
<1> HIDE DEF m
<1>3. PICK q : q = le_audio_q'
  OBVIOUS
<1>4. le_audio_q \in Seq(HsMsg) /\ Len(le_audio_q) \in Nat
  BY QueueFacts DEF HeadsetInv, HsTypes
<1>5. /\ q \in Seq(HsMsg) /\ Len(q) = Len(le_audio_q) + 1
      /\ \A i \in 1..Len(le_audio_q) : q[i] = le_audio_q[i]
      /\ q[Len(le_audio_q) + 1] = m
  BY <1>1, <1>2, <1>3, <1>4, LongerQueue
<1>6. CASE event = "NOT_STREAMING"
  <2>1. Len(q) \in 1..Len(q) /\ q[Len(q)].event = "NOT_STREAMING" /\ NoneStartedAfter(q, Len(q))
    BY <1>1, <1>4, <1>5, <1>6 DEF NoneStartedAfter
  <2>2. QED
    BY <1>3, <1>5, <2>1 DEF QuietComes, NoneStartedAfter
<1>7. CASE event # "STREAMING" /\ (NoneRuns' => NoneRuns)
  <2>1. ASSUME NEW n \in 0..Len(le_audio_q), NoneStartedAfter(le_audio_q, n) PROVE NoneStartedAfter(q, n)
    BY <1>1, <1>4, <1>5, <1>7, <2>1 DEF NoneStartedAfter
  <2>2. NoneStartedAfter(le_audio_q, 0) => NoneStartedAfter(q, 0)
    BY <1>4, <2>1
  <2>3. ASSUME NEW n \in 1..Len(le_audio_q), le_audio_q[n].event = "NOT_STREAMING", NoneStartedAfter(le_audio_q, n)
        PROVE  n \in 1..Len(q) /\ q[n].event = "NOT_STREAMING" /\ NoneStartedAfter(q, n)
    BY <1>4, <1>5, <2>1, <2>3
  <2>4. NoneRuns' => \/ NoneStartedAfter(q, 0) /\ strm_state' = "paused" /\ handling'.do \in {"none", "stop"}
                     \/ \E n \in 1..Len(q) : q[n].event = "NOT_STREAMING" /\ NoneStartedAfter(q, n)
    BY <1>7, <2>2, <2>3 DEF HeadsetInv, QuietComes
  <2>5. QED
    BY <1>3, <1>5, <2>4 DEF QuietComes, NoneStartedAfter
<1>8. QED
  BY <1>3, <1>5, <1>6, <1>7 DEF QuietComes

\* A callback's part of the invariant: what is left to be shown of it is about its stream.
LEMMA CallbackKeeps ==
  ASSUME HeadsetInv, UNCHANGED <<handling, strm_state, sw_codec_cfg, m_config, path_started, hs_fault>>,
         cap_audio_streams' \in [Streams -> [dir : Dirs, st : EpStates]],
         le_audio_q' \in Seq(HsMsg), QuietComes'
  PROVE  HeadsetInv'
<1>1. HsTypes'
  BY DEF HeadsetInv, HsTypes
<1>2. PathFollows'
  BY DEF HeadsetInv, PathFollows
<1>3. QED
  BY <1>1, <1>2 DEF HeadsetInv

\* The stream's new state, and whether one runs then.
LEMMA StreamGoesTo ==
  ASSUME HsTypes, NEW s \in Streams, NEW r \in [dir : Dirs, st : EpStates],
         cap_audio_streams' = [cap_audio_streams EXCEPT ![s] = r]
  PROVE  /\ cap_audio_streams' \in [Streams -> [dir : Dirs, st : EpStates]]
         /\ r.st \in {"streaming", "disabling", "stopping", "releasing"} => ~NoneRuns'
         /\ r.st \notin {"streaming", "disabling", "stopping", "releasing"} /\ ~Runs(s) => (NoneRuns' => NoneRuns)
<1>1. /\ cap_audio_streams' \in [Streams -> [dir : Dirs, st : EpStates]]
      /\ \A t \in Streams : cap_audio_streams'[t] = IF t = s THEN r ELSE cap_audio_streams[t]
  BY DEF HsTypes
<1>2. \A t \in Streams : Runs(t)' <=> cap_audio_streams'[t].st \in {"streaming", "disabling", "stopping", "releasing"}
  BY DEF Runs
<1>3. NoneRuns' <=> \A t \in Streams : ~Runs(t)'
  BY DEF NoneRuns
<1>4. \A t \in Streams : t # s => (Runs(t)' <=> Runs(t))
  BY <1>1, <1>2 DEF Runs
<1>5. Runs(s)' <=> r.st \in {"streaming", "disabling", "stopping", "releasing"}
  BY <1>1, <1>2
<1>6. NoneRuns <=> \A t \in Streams : ~Runs(t)
  BY DEF NoneRuns
<1>7. QED
  BY <1>1, <1>3, <1>4, <1>5, <1>6

\* The state of a stream as a record.
LEMMA ToState ==
  ASSUME HsTypes, NEW s \in Streams, NEW st \in EpStates, To(s, st)
  PROVE  \E r \in [dir : Dirs, st : EpStates] :
             r.st = st /\ cap_audio_streams' = [cap_audio_streams EXCEPT ![s] = r]
<1> DEFINE r == [cap_audio_streams[s] EXCEPT !.st = st]
<1>1. r \in [dir : Dirs, st : EpStates] /\ r.st = st
  BY DEF HsTypes
<1>2. cap_audio_streams' = [cap_audio_streams EXCEPT ![s] = r]
  BY DEF To, HsTypes
<1>3. QED
  BY <1>1, <1>2

LEMMA StreamDir == ASSUME HsTypes, NEW s \in Streams PROVE Dir(s) \in Dirs
  BY DEF HsTypes, Dir

LEMMA NoStreamIsFree == NoStream \in [dir : Dirs, st : EpStates] /\ NoStream.st = "free"
  BY DEF NoStream, Dirs, EpStates

\* A stream that does not run starts to be configured or enabled, and nothing else changes.
LEMMA SilentInv == ASSUME HeadsetInv, NEW s \in Streams, Lc3Reconfig(s) \/ Lc3Enable(s) PROVE HeadsetInv'
<1>1. HsTypes
  BY DEF HeadsetInv
<1>2. PICK st \in {"codec", "enabling"} : To(s, st)
  BY DEF Lc3Reconfig, Lc3Enable
<1>3. st \in EpStates
  BY DEF EpStates
<1>4. PICK r \in [dir : Dirs, st : EpStates] :
          r.st = st /\ cap_audio_streams' = [cap_audio_streams EXCEPT ![s] = r]
  BY <1>1, <1>2, <1>3, ToState
<1>5. ~Runs(s) /\ UNCHANGED <<le_audio_q, handling, strm_state, sw_codec_cfg, m_config, path_started, hs_fault>>
  BY DEF Lc3Reconfig, Lc3Enable, Runs, Served, Callback, audioVars
<1>6. cap_audio_streams' \in [Streams -> [dir : Dirs, st : EpStates]] /\ (NoneRuns' => NoneRuns)
  BY <1>1, <1>2, <1>4, <1>5, StreamGoesTo
<1>7. QuietComes'
  BY <1>5, <1>6 DEF HeadsetInv, QuietComes, NoneStartedAfter
<1>8. le_audio_q' \in Seq(HsMsg)
  BY <1>1, <1>5 DEF HsTypes
<1>9. QED
  BY <1>5, <1>6, <1>7, <1>8, CallbackKeeps

\* The free stream that a configuration takes is one.
LEMMA FreeStreamIsOne ==
  ASSUME FreeStreams # {}
  PROVE  (CHOOSE x \in FreeStreams : \A y \in FreeStreams : x <= y) \in FreeStreams
<1>1. FreeStreams \in SUBSET Nat
  BY HeadsetAssumption DEF FreeStreams, Streams, HeadsetAssumption
<1>2. \E x \in FreeStreams : \A y \in FreeStreams : x <= y
  BY <1>1, LeastExists
<1>3. QED
  BY <1>2

LEMMA ConfigInv == ASSUME HeadsetInv, NEW d \in Dirs, Lc3Config(d) PROVE HeadsetInv'
<1> DEFINE s == CHOOSE x \in FreeStreams : \A y \in FreeStreams : x <= y
           r == [dir |-> d, st |-> "codec"]
<1>1. s \in FreeStreams
  BY FreeStreamIsOne DEF Lc3Config
<1>2. /\ cap_audio_streams' = [cap_audio_streams EXCEPT ![s] = r] /\ Published("CONFIG_RECEIVED", d)
      /\ UNCHANGED <<handling, strm_state, sw_codec_cfg, m_config, path_started, hs_fault>>
  BY DEF Lc3Config, Callback, audioVars
<1> HIDE DEF s
<1>3. s \in Streams /\ ~Runs(s)
  BY <1>1 DEF FreeStreams, CodecCfg, Runs
<1>4. r \in [dir : Dirs, st : EpStates] /\ r.st = "codec"
  BY DEF EpStates
<1>5. cap_audio_streams' \in [Streams -> [dir : Dirs, st : EpStates]] /\ (NoneRuns' => NoneRuns)
  BY <1>2, <1>3, <1>4, StreamGoesTo DEF HeadsetInv
<1>6. le_audio_q' \in Seq(HsMsg) /\ QuietComes'
  BY <1>2, <1>5, PublishedKeeps
<1>7. QED
  BY <1>2, <1>5, <1>6, CallbackKeeps

LEMMA QosInv == ASSUME HeadsetInv, NEW s \in Streams, Lc3Qos(s) PROVE HeadsetInv'
<1>1. HsTypes /\ To(s, "qos") /\ "qos" \in EpStates /\ Dir(s) \in Dirs
  BY StreamDir DEF HeadsetInv, Lc3Qos, EpStates
<1>2. PICK r \in [dir : Dirs, st : EpStates] :
          r.st = "qos" /\ cap_audio_streams' = [cap_audio_streams EXCEPT ![s] = r]
  BY <1>1, ToState
<1>3. /\ ~Runs(s) /\ Published("PRES_DELAY_SET", Dir(s))
      /\ UNCHANGED <<handling, strm_state, sw_codec_cfg, m_config, path_started, hs_fault>>
  BY DEF Lc3Qos, Runs, Served, Callback, audioVars
<1>4. cap_audio_streams' \in [Streams -> [dir : Dirs, st : EpStates]] /\ (NoneRuns' => NoneRuns)
  BY <1>1, <1>2, <1>3, StreamGoesTo
<1>5. le_audio_q' \in Seq(HsMsg) /\ QuietComes'
  BY <1>1, <1>3, <1>4, PublishedKeeps
<1>6. QED
  BY <1>3, <1>4, <1>5, CallbackKeeps

LEMMA StreamStartedInv == ASSUME HeadsetInv, NEW s \in Streams, StreamStarted(s) PROVE HeadsetInv'
<1>1. HsTypes /\ To(s, "streaming") /\ "streaming" \in EpStates /\ Dir(s) \in Dirs
  BY StreamDir DEF HeadsetInv, StreamStarted, EpStates
<1>2. PICK r \in [dir : Dirs, st : EpStates] :
          r.st = "streaming" /\ cap_audio_streams' = [cap_audio_streams EXCEPT ![s] = r]
  BY <1>1, ToState
<1>3. /\ Published("STREAMING", Dir(s))
      /\ UNCHANGED <<handling, strm_state, sw_codec_cfg, m_config, path_started, hs_fault>>
  BY DEF StreamStarted, Served, Callback, audioVars
<1>4. cap_audio_streams' \in [Streams -> [dir : Dirs, st : EpStates]] /\ ~NoneRuns'
  BY <1>1, <1>2, StreamGoesTo
<1>5. le_audio_q' \in Seq(HsMsg) /\ QuietComes'
  BY <1>1, <1>3, <1>4, PublishedKeeps
<1>6. QED
  BY <1>3, <1>4, <1>5, CallbackKeeps

\* However a stream ends, the application is told.
LEMMA StreamEndsInv ==
  ASSUME HeadsetInv, NEW s \in Streams, Lc3Disable(s) \/ Lc3Stop(s) \/ StreamStopped(s) \/ Lc3Release(s)
  PROVE  HeadsetInv'
<1>1. HsTypes /\ Dir(s) \in Dirs
  BY StreamDir DEF HeadsetInv
<1>2. /\ Published("NOT_STREAMING", Dir(s))
      /\ UNCHANGED <<handling, strm_state, sw_codec_cfg, m_config, path_started, hs_fault>>
  BY DEF Lc3Disable, Lc3Stop, StreamStopped, Lc3Release, Served, Callback, audioVars
<1>3. \/ cap_audio_streams' = [cap_audio_streams EXCEPT ![s] = NoStream]
      \/ \E st \in EpStates : To(s, st)
  BY DEF Lc3Disable, Lc3Stop, StreamStopped, Lc3Release, EpStates
<1>4. cap_audio_streams' \in [Streams -> [dir : Dirs, st : EpStates]]
  <2>1. PICK r \in [dir : Dirs, st : EpStates] : cap_audio_streams' = [cap_audio_streams EXCEPT ![s] = r]
    BY <1>1, <1>3, NoStreamIsFree, ToState
  <2>2. QED
    BY <1>1, <2>1, StreamGoesTo
<1>5. le_audio_q' \in Seq(HsMsg) /\ QuietComes'
  BY <1>1, <1>2, PublishedKeeps
<1>6. QED
  BY <1>2, <1>4, <1>5, CallbackKeeps

\* The interrupt and the encoder's thread touch none of it, but may end the program.
LEMMA EncoderInv == ASSUME HeadsetInv, I2sBlock \/ EncoderStep PROVE HeadsetInv'
<1>1. /\ UNCHANGED <<cap_audio_streams, le_audio_q, handling, strm_state, sw_codec_cfg, m_config, path_started>>
      /\ hs_fault = "none"
  BY DEF I2sBlock, EncoderStep, serverVars, audioVars
<1>2. HsTypes'
  BY <1>1 DEF HeadsetInv, HsTypes
<1>3. PathFollows'
  BY <1>1 DEF HeadsetInv, PathFollows
<1>4. QuietComes'
  BY <1>1 DEF HeadsetInv, QuietComes, NoneRuns, Runs, NoneStartedAfter
<1>5. QED
  BY <1>2, <1>3, <1>4 DEF HeadsetInv

\* The subscriber takes a message: the queue as it was, and what is left of it.
LEMMA GotMessage ==
  ASSUME HsTypes, NEW event, Got(event)
  PROVE  /\ hs_fault = "none" /\ handling.do = "none" /\ UNCHANGED cap_audio_streams
         /\ le_audio_q' \in Seq(HsMsg) /\ Len(le_audio_q) \in Nat \ {0} /\ Len(le_audio_q') = Len(le_audio_q) - 1
         /\ le_audio_q[1] = Head(le_audio_q) /\ Head(le_audio_q).event = event /\ Head(le_audio_q).dir \in Dirs
         /\ \A i \in 1..Len(le_audio_q) - 1 : le_audio_q'[i] = le_audio_q[i + 1]
<1>1. le_audio_q \in Seq(HsMsg) /\ le_audio_q # <<>> /\ le_audio_q' = Tail(le_audio_q)
  BY DEF HsTypes, Got
<1>2. PICK h, t : h = Head(le_audio_q) /\ t = Tail(le_audio_q)
  OBVIOUS
<1>3. /\ Len(le_audio_q) \in Nat \ {0} /\ t \in Seq(HsMsg) /\ Len(t) = Len(le_audio_q) - 1
      /\ h = le_audio_q[1] /\ h \in HsMsg
      /\ \A i \in 1..Len(le_audio_q) - 1 : t[i] = le_audio_q[i + 1]
  BY <1>1, <1>2, ShorterQueue
<1>4. h.dir \in Dirs /\ h.event = event
  BY <1>2, <1>3 DEF HsMsg, Got
<1>5. hs_fault = "none" /\ handling.do = "none" /\ UNCHANGED cap_audio_streams
  BY DEF Got, Subscriber
<1>6. QED
  BY <1>1, <1>2, <1>3, <1>4, <1>5

\* What is known of the queue moves forward with it.
LEMMA QueueMoves ==
  ASSUME HsTypes, NEW event, Got(event)
  PROVE  /\ NoneStartedAfter(le_audio_q, 0) => NoneStartedAfter(le_audio_q', 0) /\ event # "STREAMING"
         /\ \A n \in 1..Len(le_audio_q) :
                le_audio_q[n].event = "NOT_STREAMING" /\ NoneStartedAfter(le_audio_q, n) =>
                    \/ event = "NOT_STREAMING" /\ NoneStartedAfter(le_audio_q', 0)
                    \/ \E k \in 1..Len(le_audio_q') :
                           le_audio_q'[k].event = "NOT_STREAMING" /\ NoneStartedAfter(le_audio_q', k)
<1>1. PICK q, t, n0 : q = le_audio_q /\ t = le_audio_q' /\ n0 = Len(q)
  OBVIOUS
<1>2. /\ n0 \in Nat \ {0} /\ Len(t) = n0 - 1 /\ q[1].event = event
      /\ \A i \in 1..n0 - 1 : t[i] = q[i + 1]
  BY <1>1, GotMessage
<1>3. ASSUME NEW n \in 1..n0, NoneStartedAfter(q, n) PROVE NoneStartedAfter(t, n - 1)
  <2> SUFFICES ASSUME NEW i \in 1..Len(t), i > n - 1 PROVE t[i].event # "STREAMING"
    BY DEF NoneStartedAfter
  <2>1. i \in 1..n0 - 1 /\ i + 1 \in 1..n0 /\ i + 1 > n
    BY <1>2
  <2>2. q[i + 1].event # "STREAMING"
    BY <1>1, <1>3, <2>1 DEF NoneStartedAfter
  <2>3. QED
    BY <1>2, <2>1, <2>2
<1>4. NoneStartedAfter(q, 0) => NoneStartedAfter(t, 0) /\ event # "STREAMING"
  <2> SUFFICES ASSUME NoneStartedAfter(q, 0) PROVE NoneStartedAfter(t, 0) /\ event # "STREAMING"
    OBVIOUS
  <2>1. 1 \in 1..n0 /\ NoneStartedAfter(q, 1)
    BY <1>1, <1>2 DEF NoneStartedAfter
  <2>2. event # "STREAMING"
    BY <1>1, <1>2, <2>1 DEF NoneStartedAfter
  <2>3. NoneStartedAfter(t, 1 - 1)
    BY <1>3, <2>1
  <2>4. QED
    BY <2>2, <2>3
<1>5. ASSUME NEW n \in 1..n0, q[n].event = "NOT_STREAMING", NoneStartedAfter(q, n)
      PROVE  \/ event = "NOT_STREAMING" /\ NoneStartedAfter(t, 0)
             \/ \E k \in 1..Len(t) : t[k].event = "NOT_STREAMING" /\ NoneStartedAfter(t, k)
  <2>1. NoneStartedAfter(t, n - 1)
    BY <1>3, <1>5
  <2>2. CASE n = 1
    BY <1>2, <1>5, <2>1, <2>2
  <2>3. CASE n > 1
    <3>1. n - 1 \in 1..n0 - 1 /\ (n - 1) + 1 = n
      BY <1>2, <2>3
    <3>2. t[n - 1] = q[n] /\ n - 1 \in 1..Len(t)
      BY <1>2, <3>1
    <3>3. QED
      BY <1>5, <2>1, <3>2
  <2>4. QED
    BY <1>2, <2>2, <2>3
<1>6. QED
  BY <1>1, <1>4, <1>5

\* A message that starts nothing and changes neither state nor handling.
LEMMA SettingInv == ASSUME HeadsetInv, EvtConfigReceived \/ EvtPresDelaySet PROVE HeadsetInv'
<1>1. PICK event \in {"CONFIG_RECEIVED", "PRES_DELAY_SET"} : Got(event)
  BY DEF EvtConfigReceived, EvtPresDelaySet
<1>2. HsTypes
  BY DEF HeadsetInv
<1>3. /\ UNCHANGED <<cap_audio_streams, handling, strm_state, m_config, path_started, hs_fault>>
      /\ le_audio_q' \in Seq(HsMsg) /\ hs_fault = "none"
  BY <1>1, <1>2, GotMessage DEF EvtConfigReceived, EvtPresDelaySet, audioVars
<1>4. \/ UNCHANGED sw_codec_cfg
      \/ sw_codec_cfg' = [sw_codec_cfg EXCEPT !.dec = TRUE]
      \/ sw_codec_cfg' = [sw_codec_cfg EXCEPT !.enc = TRUE]
  BY DEF EvtConfigReceived, EvtPresDelaySet, audioVars
<1>5. sw_codec_cfg \in [enc : BOOLEAN, dec : BOOLEAN, initialized : BOOLEAN]
  BY <1>2 DEF HsTypes
<1>6. /\ sw_codec_cfg' \in [enc : BOOLEAN, dec : BOOLEAN, initialized : BOOLEAN]
      /\ sw_codec_cfg'.initialized = sw_codec_cfg.initialized
      /\ sw_codec_cfg.enc => sw_codec_cfg'.enc
      /\ sw_codec_cfg.dec => sw_codec_cfg'.dec
  BY <1>4, <1>5
<1>7. HsTypes'
  BY <1>2, <1>3, <1>6 DEF HsTypes
<1>8. PathFollows'
  BY <1>3, <1>6 DEF HeadsetInv, PathFollows
<1>9. NoneRuns' <=> NoneRuns
  BY <1>3 DEF NoneRuns, Runs
<1>10. QuietComes'
  BY <1>1, <1>2, <1>3, <1>9, QueueMoves DEF HeadsetInv, QuietComes
<1>11. QED
  BY <1>7, <1>8, <1>10 DEF HeadsetInv

LEMMA EvtStreamingInv == ASSUME HeadsetInv, EvtStreaming PROVE HeadsetInv'
<1>1. HsTypes /\ Got("STREAMING")
  BY DEF HeadsetInv, EvtStreaming
<1>2. /\ UNCHANGED <<cap_audio_streams, strm_state, sw_codec_cfg, m_config, path_started, hs_fault>>
      /\ le_audio_q' \in Seq(HsMsg) /\ Head(le_audio_q).dir \in Dirs /\ handling.do = "none" /\ hs_fault = "none"
  BY <1>1, GotMessage DEF EvtStreaming, audioVars
<1>3. handling' = [do |-> IF strm_state = "streaming" THEN "none" ELSE "start", dir |-> Head(le_audio_q).dir]
  BY DEF EvtStreaming, Left
<1>4. HsTypes'
  BY <1>1, <1>2, <1>3 DEF HsTypes
<1>5. handling'.do = IF strm_state = "streaming" THEN "none" ELSE "start"
  BY <1>3
<1>6. strm_state \in {"paused", "streaming"}
  BY <1>1 DEF HsTypes
<1>7. PathFollows'
  BY <1>2, <1>5, <1>6 DEF HeadsetInv, PathFollows
<1>8. NoneRuns' <=> NoneRuns
  BY <1>2 DEF NoneRuns, Runs
<1>9. QuietComes'
  BY <1>1, <1>8, QueueMoves DEF HeadsetInv, QuietComes
<1>10. QED
  BY <1>4, <1>7, <1>9 DEF HeadsetInv

LEMMA EvtNotStreamingInv == ASSUME HeadsetInv, EvtNotStreaming PROVE HeadsetInv'
<1>1. HsTypes /\ Got("NOT_STREAMING")
  BY DEF HeadsetInv, EvtNotStreaming
<1>2. /\ UNCHANGED <<cap_audio_streams, sw_codec_cfg, m_config, path_started, hs_fault>>
      /\ le_audio_q' \in Seq(HsMsg) /\ Head(le_audio_q).dir \in Dirs /\ handling.do = "none" /\ hs_fault = "none"
  BY <1>1, GotMessage DEF EvtNotStreaming, audioVars
<1>3. PICK what \in {"none", "stop"} :
          /\ handling' = [do |-> what, dir |-> Head(le_audio_q).dir]
          /\ what = IF strm_state = "paused" THEN "none" ELSE "stop"
          /\ strm_state' = "paused"
  BY DEF EvtNotStreaming, Left
<1>4. handling'.do = what
  BY <1>3
<1>5. HsTypes'
  BY <1>1, <1>2, <1>3 DEF HsTypes
<1>6. strm_state \in {"paused", "streaming"}
  BY <1>1 DEF HsTypes
<1>7. PathFollows'
  BY <1>2, <1>3, <1>4, <1>6 DEF HeadsetInv, PathFollows
<1>8. NoneRuns' <=> NoneRuns
  BY <1>2 DEF NoneRuns, Runs
<1>9. QuietComes'
  BY <1>1, <1>3, <1>4, <1>8, QueueMoves DEF HeadsetInv, QuietComes
<1>10. QED
  BY <1>5, <1>7, <1>9 DEF HeadsetInv

\* The step after the message: audio_system_start, the state, audio_system_stop.  Where one fails,
\* only hs_fault changes.
LEMMA FaultInv ==
  ASSUME HeadsetInv, NEW what, Doing(what), hs_fault' # "none", UNCHANGED <<audioVars, handling, strm_state>>
  PROVE  HeadsetInv'
<1>1. UNCHANGED <<cap_audio_streams, le_audio_q, handling, strm_state, sw_codec_cfg, m_config, path_started>>
  BY DEF Doing, Subscriber, audioVars
<1>2. HsTypes' /\ PathFollows'
  BY <1>1 DEF HeadsetInv, HsTypes, PathFollows
<1>3. QuietComes'
  BY <1>1 DEF HeadsetInv, QuietComes, NoneRuns, Runs, NoneStartedAfter
<1>4. QED
  BY <1>2, <1>3 DEF HeadsetInv

LEMMA HandledQuiet ==
  ASSUME HeadsetInv, NEW what, Doing(what),
         handling.do \in {"none", "stop"} => strm_state' = strm_state /\ handling'.do \in {"none", "stop"}
  PROVE  QuietComes'
<1>1. UNCHANGED <<cap_audio_streams, le_audio_q>>
  BY DEF Doing, Subscriber
<1>2. NoneRuns' <=> NoneRuns
  BY <1>1 DEF NoneRuns, Runs
<1>3. NoneRuns => \/ NoneStartedAfter(le_audio_q, 0) /\ strm_state = "paused" /\ handling.do \in {"none", "stop"}
                  \/ \E n \in 1..Len(le_audio_q) :
                         le_audio_q[n].event = "NOT_STREAMING" /\ NoneStartedAfter(le_audio_q, n)
  BY DEF HeadsetInv, QuietComes
<1>4. QED
  BY <1>1, <1>2, <1>3 DEF QuietComes, NoneStartedAfter

LEMMA StartInv == ASSUME HeadsetInv, Start PROVE HeadsetInv'
<1>1. Doing("start") /\ AudioSystemStart
  BY DEF Start
<1>2. /\ UNCHANGED <<cap_audio_streams, le_audio_q>>
      /\ handling.do = "start" /\ hs_fault = "none"
  BY <1>1 DEF Doing, Subscriber
<1>3. CASE CodecInitFails \/ path_started
  <2>1. hs_fault' = "start" /\ UNCHANGED <<audioVars, handling, strm_state>>
    BY <1>1, <1>3 DEF AudioSystemStart, Fault
  <2>2. QED
    BY <1>1, <2>1, FaultInv
<1>4. CASE ~(CodecInitFails \/ path_started)
  <2>1. /\ sw_codec_cfg' = [sw_codec_cfg EXCEPT !.initialized = TRUE]
        /\ m_config' = [enc |-> sw_codec_cfg.enc, dec |-> sw_codec_cfg.dec]
        /\ path_started' = TRUE
        /\ handling' = [handling EXCEPT !.do = "streaming"]
        /\ UNCHANGED <<strm_state, hs_fault>>
    BY <1>1, <1>4 DEF AudioSystemStart
  <2>2. /\ sw_codec_cfg \in [enc : BOOLEAN, dec : BOOLEAN, initialized : BOOLEAN]
        /\ handling \in [do : {"none", "start", "streaming", "stop"}, dir : Dirs]
    BY DEF HeadsetInv, HsTypes
  <2>3. /\ sw_codec_cfg' \in [enc : BOOLEAN, dec : BOOLEAN, initialized : BOOLEAN]
        /\ sw_codec_cfg'.initialized
        /\ m_config' \in [enc : BOOLEAN, dec : BOOLEAN]
        /\ m_config'.enc => sw_codec_cfg'.enc
        /\ m_config'.dec => sw_codec_cfg'.dec
    BY <2>1, <2>2
  <2>4. handling' \in [do : {"none", "start", "streaming", "stop"}, dir : Dirs] /\ handling'.do = "streaming"
    BY <2>1, <2>2
  <2>5. HsTypes'
    BY <1>2, <2>1, <2>3, <2>4 DEF HeadsetInv, HsTypes
  <2>6. strm_state = "paused"
    BY <1>2 DEF HeadsetInv, PathFollows
  <2>7. PathFollows'
    BY <2>1, <2>3, <2>4, <2>6 DEF PathFollows
  <2>8. QuietComes'
    BY <1>1, <1>2, HandledQuiet
  <2>9. QED
    BY <2>5, <2>7, <2>8 DEF HeadsetInv
<1>5. QED
  BY <1>3, <1>4

LEMMA StreamingInv == ASSUME HeadsetInv, Streaming PROVE HeadsetInv'
<1>1. Doing("streaming")
  BY DEF Streaming
<1>2. /\ UNCHANGED <<cap_audio_streams, le_audio_q, sw_codec_cfg, m_config, path_started, hs_fault>>
      /\ handling.do = "streaming" /\ strm_state' = "streaming"
      /\ handling' = [handling EXCEPT !.do = "none"]
  BY DEF Streaming, Doing, Subscriber, audioVars
<1>3. handling \in [do : {"none", "start", "streaming", "stop"}, dir : Dirs]
  BY DEF HeadsetInv, HsTypes
<1>4. handling' \in [do : {"none", "start", "streaming", "stop"}, dir : Dirs] /\ handling'.do = "none"
  BY <1>2, <1>3
<1>5. HsTypes'
  BY <1>2, <1>4 DEF HeadsetInv, HsTypes
<1>6. PathFollows'
  BY <1>2, <1>4 DEF HeadsetInv, PathFollows
<1>7. QuietComes'
  BY <1>1, <1>2, HandledQuiet
<1>8. QED
  BY <1>5, <1>6, <1>7 DEF HeadsetInv

\* What is initialized was enabled, but what was enabled since is not: then stopping fails.
LEMMA StopInv == ASSUME HeadsetInv, Stop PROVE HeadsetInv'
<1>1. Doing("stop") /\ AudioSystemStop
  BY DEF Stop
<1>2. /\ UNCHANGED <<cap_audio_streams, le_audio_q>>
      /\ handling.do = "stop" /\ hs_fault = "none"
  BY <1>1 DEF Doing, Subscriber
<1>3. sw_codec_cfg.initialized
  BY <1>2 DEF HeadsetInv, PathFollows
<1>4. CASE ~path_started \/ CodecUninitFails
  <2>1. hs_fault' = "stop" /\ UNCHANGED <<audioVars, handling, strm_state>>
    BY <1>1, <1>3, <1>4 DEF AudioSystemStop, Fault
  <2>2. QED
    BY <1>1, <2>1, FaultInv
<1>5. CASE ~(~path_started \/ CodecUninitFails)
  <2>1. /\ path_started' = FALSE
        /\ m_config' = CodecUninitialized
        /\ sw_codec_cfg' = [sw_codec_cfg EXCEPT !.initialized = FALSE]
        /\ handling' = [handling EXCEPT !.do = "none"]
        /\ UNCHANGED <<strm_state, hs_fault>>
    BY <1>1, <1>3, <1>5 DEF AudioSystemStop
  <2>2. /\ sw_codec_cfg \in [enc : BOOLEAN, dec : BOOLEAN, initialized : BOOLEAN]
        /\ handling \in [do : {"none", "start", "streaming", "stop"}, dir : Dirs]
        /\ m_config \in [enc : BOOLEAN, dec : BOOLEAN]
    BY DEF HeadsetInv, HsTypes
  <2>3. sw_codec_cfg' \in [enc : BOOLEAN, dec : BOOLEAN, initialized : BOOLEAN] /\ ~sw_codec_cfg'.initialized
    BY <2>1, <2>2
  <2>4. handling' \in [do : {"none", "start", "streaming", "stop"}, dir : Dirs] /\ handling'.do = "none"
    BY <2>1, <2>2
  <2>5. m_config' \in [enc : BOOLEAN, dec : BOOLEAN] /\ ~m_config'.enc /\ ~m_config'.dec
    <3>1. (m_config.enc => sw_codec_cfg.enc) /\ (m_config.dec => sw_codec_cfg.dec)
      BY <1>2 DEF HeadsetInv, PathFollows
    <3>2. m_config' = [x \in {"enc", "dec"} |-> m_config[x] /\ ~sw_codec_cfg[x]]
      BY <2>1 DEF CodecUninitialized
    <3>3. m_config' = [enc |-> FALSE, dec |-> FALSE]
      BY <2>2, <3>1, <3>2
    <3>4. QED
      BY <3>3
  <2>6. HsTypes'
    BY <1>2, <2>1, <2>3, <2>4, <2>5 DEF HeadsetInv, HsTypes
  <2>7. strm_state = "paused"
    BY <1>2 DEF HeadsetInv, PathFollows
  <2>8. PathFollows'
    BY <2>1, <2>3, <2>4, <2>5, <2>7 DEF PathFollows
  <2>9. QuietComes'
    BY <1>1, <2>1, <2>4, HandledQuiet
  <2>10. QED
    BY <2>6, <2>8, <2>9 DEF HeadsetInv
<1>6. QED
  BY <1>4, <1>5

LEMMA HeadsetStep == ASSUME HeadsetInv, HeadsetNext PROVE HeadsetInv'
  BY SilentInv, ConfigInv, QosInv, StreamStartedInv, StreamEndsInv, EncoderInv, EvtStreamingInv, StartInv,
     StreamingInv, EvtNotStreamingInv, StopInv, SettingInv DEF HeadsetNext, Client

LEMMA HeadsetInvHolds == Spec => []HeadsetInv
<1>1. Init => HeadsetInv
  <2> SUFFICES ASSUME HeadsetInit PROVE HeadsetInv
    BY DEF Init
  <2>1. le_audio_q \in Seq(HsMsg) /\ Len(le_audio_q) = 0 /\ strm_state = "paused" /\ handling.do = "none"
    BY EmptySeq DEF HeadsetInit
  <2>2. /\ cap_audio_streams \in [Streams -> [dir : Dirs, st : EpStates]]
        /\ handling \in [do : {"none", "start", "streaming", "stop"}, dir : Dirs]
    BY NoStreamIsFree DEF HeadsetInit, Dirs
  <2>3. /\ sw_codec_cfg \in [enc : BOOLEAN, dec : BOOLEAN, initialized : BOOLEAN]
        /\ m_config \in [enc : BOOLEAN, dec : BOOLEAN]
        /\ ~sw_codec_cfg.initialized /\ ~m_config.enc /\ ~m_config.dec
    BY DEF HeadsetInit
  <2>4. path_started = FALSE
    BY DEF HeadsetInit
  <2>5. HsTypes
    BY <2>1, <2>2, <2>3, <2>4 DEF HsTypes
  <2>6. PathFollows
    BY <2>1, <2>3, <2>4 DEF PathFollows
  <2>7. QuietComes
    BY <2>1 DEF QuietComes, NoneStartedAfter
  <2>8. QED
    BY <2>5, <2>6, <2>7 DEF HeadsetInv
<1>2. HeadsetInv /\ [Next]_firmwareVars => HeadsetInv'
  <2> SUFFICES ASSUME HeadsetInv, [Next]_firmwareVars PROVE HeadsetInv'
    OBVIOUS
  <2>1. HeadsetNext \/ UNCHANGED headsetVars
    BY DEF Next, firmwareVars, headsetPlayVars
  <2>2. CASE UNCHANGED headsetVars
    BY <2>2 DEF headsetVars, HeadsetInv, HsTypes, PathFollows, QuietComes, NoneRuns, Runs, NoneStartedAfter
  <2>3. QED
    BY <2>1, <2>2, HeadsetStep
<1>3. QED
  BY <1>1, <1>2, PTL DEF Spec

\* A headset none of whose streams runs, and which has handled its messages, is paused, with its
\* datapath stopped and no codec initialized, for any number of endpoints and of messages under
\* way (QuietWithoutStreams): each way a stream can end publishes a message that pauses, and only
\* the start of a stream, which then runs, publishes one that does the opposite.
THEOREM QuietHolds == Spec => []QuietWithoutStreams
<1>1. HeadsetInv => QuietWithoutStreams
  <2> SUFFICES ASSUME HeadsetInv, hs_fault = "none", handling.do = "none", le_audio_q = <<>>, NoneRuns
               PROVE  strm_state = "paused" /\ ~path_started /\ ~m_config.enc /\ ~m_config.dec
    BY DEF QuietWithoutStreams, NoneRuns
  <2>1. Len(le_audio_q) = 0
    BY EmptySeq
  <2>2. strm_state = "paused"
    BY <2>1 DEF HeadsetInv, QuietComes
  <2>3. QED
    BY <2>2 DEF HeadsetInv, PathFollows
<1>2. QED
  BY <1>1, HeadsetInvHolds, PTL

-----------------------------------------------------------------------------
(* le_audio_rx.c                                                           *)

\* A frame of all the locations is long enough, and has each location's data where it belongs.
InPlace(f) == \A l \in f.locations \ f.bad : f.data[l] = l
Right(f) == f.locations = Locations => f.len >= 2 /\ InPlace(f)

\* The frame that is put together has, within its interval, locations that have arrived, each
\* in its place: it was kept because both streams ran, and since an SDU of the interval has come
\* no stream is configured or released.
FreshInv ==
    audio_frame # NoFrame /\ ~audio_frame.old =>
        /\ rx_configured = Locations
        /\ audio_frame.locations # {} /\ audio_frame.locations \subseteq rx_arrived
        /\ audio_frame.len = 2 /\ InPlace(audio_frame)

RxTypes ==
    /\ rx_started \subseteq rx_configured /\ rx_configured \subseteq Locations /\ rx_arrived \subseteq Locations
    /\ audio_frame \in Frames /\ rx_decoding \in Frames /\ ble_q_rx \in Seq(Frames)

AllRight(q) == \A i \in 1..Len(q) : Right(q[i])

\* The inductive invariant of the receive path.
RxInv == RxTypes /\ FreshInv /\ Right(audio_frame) /\ Right(rx_decoding) /\ AllRight(ble_q_rx)

LEMMA LocationSets ==
  /\ Cardinality({}) = 0 /\ Cardinality({1}) = 1 /\ Cardinality({2}) = 1 /\ Cardinality(Locations) = 2
  /\ \A S \in SUBSET Locations : S \in {{}, {1}, {2}, Locations}
<1>1. IsFiniteSet({}) /\ Cardinality({}) = 0 /\ Cardinality({1}) = 1 /\ Cardinality({2}) = 1 /\ IsFiniteSet({1})
  BY FS_EmptySet, FS_Singleton
<1>2. Cardinality({1} \cup {2}) = 2
  BY <1>1, FS_AddElement
<1>3. {1} \cup {2} = Locations
  BY DEF Locations
<1>4. ASSUME NEW S \in SUBSET Locations PROVE S \in {{}, {1}, {2}, Locations}
  <2>1. \A x \in S : x = 1 \/ x = 2
    BY DEF Locations
  <2>2. CASE 1 \in S /\ 2 \in S
    <3>1. S = Locations
      BY <2>1, <2>2 DEF Locations
    <3>2. QED
      BY <3>1
  <2>3. CASE 1 \in S /\ 2 \notin S
    <3>1. S = {1}
      BY <2>1, <2>3
    <3>2. QED
      BY <3>1
  <2>4. CASE 1 \notin S /\ 2 \in S
    <3>1. S = {2}
      BY <2>1, <2>4
    <3>2. QED
      BY <3>1
  <2>5. CASE 1 \notin S /\ 2 \notin S
    <3>1. S = {}
      BY <2>1, <2>5
    <3>2. QED
      BY <3>1
  <2>6. QED
    BY <2>2, <2>3, <2>4, <2>5
<1>5. QED
  BY <1>1, <1>2, <1>3, <1>4

\* With both configured a location lies in its own slot.
LEMMA OwnSlot == ASSUME NEW l \in Locations PROVE NetBufIndex(Locations, l) = l
<1>1. PICK S : S = {k \in Locations : k < l}
  OBVIOUS
<1>2. NetBufIndex(Locations, l) = 1 + Cardinality(S)
  BY <1>1, Zenon DEF NetBufIndex
<1>3. S = IF l = 1 THEN {} ELSE {1}
  BY <1>1 DEF Locations
<1>4. l = 1 \/ l = 2
  BY DEF Locations
<1>5. Cardinality(S) = IF l = 1 THEN 0 ELSE 1
  BY <1>3, LocationSets
<1>6. QED
  BY <1>2, <1>4, <1>5

LEMMA SlotRange ==
  ASSUME NEW C \in SUBSET Locations, NEW l \in Locations PROVE NetBufIndex(C, l) \in 1..2
<1>1. PICK S : S = {k \in C : k < l}
  OBVIOUS
<1>2. NetBufIndex(C, l) = 1 + Cardinality(S)
  BY <1>1, Zenon DEF NetBufIndex
<1>3. S \in SUBSET Locations /\ 2 \notin S
  <2>1. \A k \in S : k \in C /\ k < l
    BY <1>1
  <2>2. l = 1 \/ l = 2
    BY DEF Locations
  <2>3. QED
    BY <2>1, <2>2
<1>4. S # {2} /\ S # Locations
  BY <1>3 DEF Locations
<1>5. S = {} \/ S = {1}
  BY <1>3, <1>4, LocationSets
<1>6. Cardinality(S) \in {0, 1}
  BY <1>5, LocationSets
<1>7. QED
  BY <1>2, <1>6

LEMMA NoFrameIsRight == NoFrame \in Frames /\ Right(NoFrame) /\ NoFrame.locations = {}
<1>1. NoFrame.locations = {} /\ NoFrame.data = <<0, 0>> /\ NoFrame.len = 0 /\ NoFrame.bad = {} /\ NoFrame.old = FALSE
  BY DEF NoFrame
<1>2. NoFrame \in Frames
  BY DEF NoFrame, Frames
<1>3. {} # Locations
  BY DEF Locations
<1>4. QED
  BY <1>1, <1>2, <1>3 DEF Right

\* What audio_frame_add makes of a frame: with both streams configured the SDU lies in its place.
AddedTo(f, l, valid, g) ==
    /\ g \in Frames /\ g.locations = f.locations /\ g.bad = f.bad /\ g.len = f.len
    /\ rx_configured = Locations => \A k \in 1..2 : g.data[k] = IF k = l /\ valid THEN l ELSE f.data[k]

LEMMA AddedInPlace ==
  ASSUME rx_configured \subseteq Locations, NEW f \in Frames, NEW l \in f.locations, NEW valid \in BOOLEAN
  PROVE  AddedTo(f, l, valid, AudioFrameAdd(f, l, valid))
<1> DEFINE g == AudioFrameAdd(f, l, valid)
<1> DEFINE slot == IF rx_configured = {l} THEN 1 ELSE NetBufIndex(rx_configured, l)
<1>1. l \in Locations /\ l \in 0..2 /\ l \in 1..2
  BY DEF Frames, Locations
<1>2. slot \in 1..2
  BY <1>1, SlotRange
<1>3. f.data \in [1..2 -> 0..2]
  BY DEF Frames
<1>4. PICK d : d = [f.data EXCEPT ![slot] = IF valid THEN l ELSE @]
  OBVIOUS
<1>5. d \in [1..2 -> 0..2] /\ \A k \in 1..2 : d[k] = IF k = slot /\ valid THEN l ELSE f.data[k]
  BY <1>1, <1>2, <1>3, <1>4
<1>6. g = [f EXCEPT !.data = d]
  BY <1>4 DEF AudioFrameAdd, Frames
<1> HIDE DEF g
<1>7. /\ g \in Frames /\ g.locations = f.locations /\ g.bad = f.bad /\ g.len = f.len /\ g.data = d
  BY <1>5, <1>6 DEF Frames
<1>8. rx_configured = Locations => slot = l
  <2>1. Locations # {l}
    BY DEF Locations
  <2>2. QED
    BY <1>1, <2>1, OwnSlot
<1>9. AddedTo(f, l, valid, g)
  BY <1>5, <1>7, <1>8 DEF AddedTo
<1>10. QED
  BY <1>9 DEF g

\* The oldest frame makes way, and what is put behind the others is right.
LEMMA QueueStaysRight ==
  ASSUME NEW q \in Seq(Frames), AllRight(q)
  PROVE  /\ q # <<>> => Tail(q) \in Seq(Frames) /\ AllRight(Tail(q)) /\ Head(q) \in Frames /\ Right(Head(q))
         /\ \A f \in Frames : Right(f) => Append(q, f) \in Seq(Frames) /\ AllRight(Append(q, f))
<1>1. ASSUME q # <<>> PROVE Tail(q) \in Seq(Frames) /\ AllRight(Tail(q)) /\ Head(q) \in Frames /\ Right(Head(q))
  <2>1. PICK h, t, n : h = Head(q) /\ t = Tail(q) /\ n = Len(q)
    OBVIOUS
  <2>2. /\ n \in Nat \ {0} /\ t \in Seq(Frames) /\ Len(t) = n - 1 /\ h = q[1] /\ h \in Frames
        /\ \A i \in 1..n - 1 : t[i] = q[i + 1]
    BY <1>1, <2>1, ShorterQueue
  <2>3. \A i \in 1..n : Right(q[i])
    BY <2>1 DEF AllRight
  <2>4. \A i \in 1..n - 1 : i + 1 \in 1..n
    BY <2>2
  <2>5. AllRight(t) /\ Right(h)
    BY <2>2, <2>3, <2>4 DEF AllRight
  <2>6. QED
    BY <2>1, <2>2, <2>5
<1>2. ASSUME NEW f \in Frames, Right(f) PROVE Append(q, f) \in Seq(Frames) /\ AllRight(Append(q, f))
  <2>1. PICK a, n : a = Append(q, f) /\ n = Len(q)
    OBVIOUS
  <2>2. a \in Seq(Frames) /\ n \in Nat /\ Len(a) = n + 1 /\ a[n + 1] = f /\ \A i \in 1..n : a[i] = q[i]
    BY <2>1, LongerQueue, QueueFacts
  <2>3. \A i \in 1..n + 1 : Right(a[i])
    BY <1>2, <2>1, <2>2 DEF AllRight
  <2>4. QED
    BY <2>1, <2>2, <2>3 DEF AllRight
<1>3. QED
  BY <1>1, <1>2

\* What the handler leaves: it has ended the program, or what it has changed is right.
HandedOn == \/ UNCHANGED <<audio_frame, ble_q_rx>>
            \/ /\ audio_frame' \in Frames /\ Right(audio_frame') /\ FreshInv'
               /\ ble_q_rx' \in Seq(Frames) /\ AllRight(ble_q_rx')

\* CheckSend: a frame that is right is kept or sent on; if others of the streams that run are
\* missing it is kept, so that it must be one that FreshInv allows.
LEMMA CheckSendInv ==
  ASSUME NEW q \in Seq(Frames), AllRight(q), NEW f \in Frames, Right(f), CheckSend(f, q),
         f.locations # {}, f.locations \subseteq rx_arrived', UNCHANGED rx_configured,
         Cardinality(f.locations) # Cardinality(rx_started) => rx_configured = Locations /\ f.len = 2 /\ InPlace(f)
  PROVE  HandedOn
<1>1. CASE Cardinality(f.locations) # Cardinality(rx_started)
  <2>1. audio_frame' = f /\ ble_q_rx' = q
    BY <1>1 DEF CheckSend
  <2>2. rx_configured' = Locations /\ f.len = 2 /\ InPlace(f)
    BY <1>1
  <2>3. FreshInv'
    BY <2>1, <2>2 DEF FreshInv, InPlace
  <2>4. Right(audio_frame') /\ AllRight(ble_q_rx')
    BY <2>1
  <2>5. QED
    BY <2>1, <2>3, <2>4 DEF HandedOn
<1>2. CASE Cardinality(f.locations) = Cardinality(rx_started) /\ Len(q) < RxPackets
  <2>1. audio_frame' = NoFrame /\ ble_q_rx' = Append(q, f)
    BY <1>2 DEF CheckSend
  <2>2. FreshInv'
    BY <2>1 DEF FreshInv
  <2>3. Append(q, f) \in Seq(Frames) /\ AllRight(Append(q, f))
    BY QueueStaysRight
  <2>4. audio_frame' \in Frames /\ Right(audio_frame')
    BY <2>1, NoFrameIsRight
  <2>5. QED
    BY <2>1, <2>2, <2>3, <2>4 DEF HandedOn
<1>3. CASE Cardinality(f.locations) = Cardinality(rx_started) /\ ~(Len(q) < RxPackets)
  BY <1>3 DEF CheckSend, HandedOn
<1>4. QED
  BY <1>1, <1>2, <1>3

\* The first SDU of an interval: it is alone in a new frame, which is kept only for the other
\* stream's.
LEMMA NewFrameInv ==
  ASSUME RxTypes, NEW q \in Seq(Frames), AllRight(q), NEW l \in rx_started, NEW valid \in BOOLEAN,
         NewFrame(l, valid, q), l \in rx_arrived', UNCHANGED rx_configured
  PROVE  HandedOn
<1>1. l \in Locations /\ rx_started \in SUBSET Locations /\ rx_configured \subseteq Locations
  BY DEF RxTypes
<1>2. CASE RxBuffers(q) = 0
  <2>1. audio_frame' = NoFrame /\ ble_q_rx' = q
    BY <1>2 DEF NewFrame
  <2>2. QED
    BY <2>1, NoFrameIsRight DEF HandedOn, FreshInv
<1>3. CASE RxBuffers(q) # 0
  <2>1. PICK e, f :
            /\ e = [NoFrame EXCEPT !.locations = {l}, !.bad = IF valid THEN {} ELSE {l},
                                   !.len = Cardinality(rx_started)]
            /\ f = AudioFrameAdd(e, l, valid)
    OBVIOUS
  <2>2. CheckSend(f, q)
    BY <1>3, <2>1 DEF NewFrame
  <2>3. Cardinality(rx_started) \in 0..2 /\ (Cardinality(rx_started) # 1 => rx_started = Locations)
    <3>1. PICK S : S = rx_started
      OBVIOUS
    <3>2. S = {1} \/ S = {2} \/ S = Locations
      BY <1>1, <3>1, LocationSets
    <3>3. Cardinality(S) = 1 \/ (S = Locations /\ Cardinality(S) = 2)
      BY <3>2, LocationSets
    <3>4. QED
      BY <3>1, <3>3
  <2>4. e = [locations |-> {l}, bad |-> IF valid THEN {} ELSE {l}, data |-> <<0, 0>>,
             len |-> Cardinality(rx_started), old |-> FALSE]
    BY <2>1 DEF NoFrame
  <2>5. <<0, 0>> \in [1..2 -> 0..2] /\ {l} \in SUBSET Locations /\ (IF valid THEN {} ELSE {l}) \in SUBSET Locations
    BY <1>1
  <2>6. e \in Frames
    BY <2>3, <2>4, <2>5 DEF Frames
  <2>7. e.locations = {l} /\ e.bad = (IF valid THEN {} ELSE {l}) /\ e.len = Cardinality(rx_started)
    BY <2>4
  <2> l \in e.locations
    BY <2>7
  <2>8. /\ f \in Frames /\ f.locations = {l} /\ f.bad = (IF valid THEN {} ELSE {l})
        /\ f.len = Cardinality(rx_started)
        /\ rx_configured = Locations => \A k \in 1..2 : f.data[k] = IF k = l /\ valid THEN l ELSE e.data[k]
    <3>1. /\ f \in Frames /\ f.locations = e.locations /\ f.bad = e.bad /\ f.len = e.len
          /\ rx_configured = Locations => \A k \in 1..2 : f.data[k] = IF k = l /\ valid THEN l ELSE e.data[k]
      <4>1. AddedTo(e, l, valid, f)
        BY <1>1, <2>1, <2>6, AddedInPlace, Zenon
      <4>2. QED
        BY <4>1 DEF AddedTo
    <3>2. QED
      BY <2>7, <3>1
  <2>9. Right(f)
    <3>1. 1 \in Locations /\ 2 \in Locations
      BY DEF Locations
    <3>2. {l} # Locations
      BY <3>1
    <3>3. QED
      BY <2>8, <3>2 DEF Right
  <2>10. Cardinality(f.locations) = 1
    BY <1>1, <2>8, LocationSets DEF Locations
  <2>11. ASSUME Cardinality(rx_started) # 1
         PROVE  rx_configured = Locations /\ f.len = 2 /\ InPlace(f)
    <3>1. rx_started = Locations
      BY <2>3, <2>11
    <3>2. rx_configured = Locations
      BY <3>1 DEF RxTypes
    <3>3. f.len = 2
      BY <2>8, <3>1, LocationSets
    <3>4. l \in 1..2
      BY <1>1 DEF Locations
    <3>5. ASSUME NEW k \in f.locations \ f.bad PROVE f.data[k] = k
      <4>1. k = l /\ valid
        BY <2>8, <3>5
      <4>2. QED
        BY <2>8, <3>2, <3>4, <4>1
    <3>6. QED
      BY <3>2, <3>3, <3>5 DEF InPlace
  <2>12. f.locations # {} /\ f.locations \subseteq rx_arrived'
    BY <2>8
  <2>13. QED
    BY <2>2, <2>8, <2>9, <2>10, <2>11, <2>12, CheckSendInv
<1>4. QED
  BY <1>2, <1>3

\* The other SDU of the interval is added to the frame.
LEMMA MergedInv ==
  ASSUME RxInv, NEW q \in Seq(Frames), AllRight(q), NEW l \in rx_started, NEW valid \in BOOLEAN,
         audio_frame # NoFrame, ~audio_frame.old,
         CheckSend(AudioFrameAdd([audio_frame EXCEPT !.locations = @ \cup {l},
                                                     !.bad = @ \cup IF valid THEN {} ELSE {l}], l, valid), q),
         rx_arrived' = rx_arrived \cup {l}, UNCHANGED rx_configured
  PROVE  HandedOn
<1>1. /\ rx_configured = Locations
      /\ audio_frame.locations \subseteq rx_arrived /\ audio_frame.len = 2 /\ InPlace(audio_frame)
  BY DEF RxInv, FreshInv
<1>2. audio_frame \in Frames /\ l \in Locations /\ l \in 1..2
  BY DEF RxInv, RxTypes, Locations
<1>3. PICK e, f :
          /\ e = [audio_frame EXCEPT !.locations = @ \cup {l}, !.bad = @ \cup IF valid THEN {} ELSE {l}]
          /\ f = AudioFrameAdd(e, l, valid)
  OBVIOUS
<1>4. CheckSend(f, q)
  BY <1>3
<1>5. /\ e \in Frames /\ e.locations = audio_frame.locations \cup {l}
      /\ e.bad = audio_frame.bad \cup (IF valid THEN {} ELSE {l}) /\ e.len = 2 /\ e.data = audio_frame.data
  BY <1>1, <1>2, <1>3 DEF Frames
<1> l \in e.locations
  BY <1>5
<1>6. /\ f \in Frames /\ f.locations = e.locations /\ f.bad = e.bad /\ f.len = 2
      /\ \A k \in 1..2 : f.data[k] = IF k = l /\ valid THEN l ELSE e.data[k]
  <2>1. rx_configured \subseteq Locations /\ e \in Frames
    BY <1>1, <1>5
  <2>2. /\ f \in Frames /\ f.locations = e.locations /\ f.bad = e.bad /\ f.len = e.len
        /\ rx_configured = Locations => \A k \in 1..2 : f.data[k] = IF k = l /\ valid THEN l ELSE e.data[k]
    <3>1. AddedTo(e, l, valid, f)
      BY <1>3, <2>1, AddedInPlace, Zenon
    <3>2. QED
      BY <3>1 DEF AddedTo
  <2>3. QED
    BY <1>1, <1>5, <2>2, Zenon
<1>7. InPlace(f)
  <2> SUFFICES ASSUME NEW k \in f.locations \ f.bad PROVE f.data[k] = k
    BY DEF InPlace
  <2>1. k \in 1..2
    BY <1>6 DEF Frames, Locations
  <2>2. CASE k = l
    BY <1>2, <1>5, <1>6, <2>2
  <2>3. CASE k # l
    <3>1. k \in audio_frame.locations \ audio_frame.bad
      BY <1>5, <1>6, <2>3
    <3>2. audio_frame.data[k] = k
      BY <1>1, <3>1 DEF InPlace
    <3>3. QED
      BY <1>5, <1>6, <2>1, <2>3, <3>2
  <2>4. QED
    BY <2>2, <2>3
<1>8. Right(f) /\ f.locations # {} /\ f.locations \subseteq rx_arrived'
  BY <1>1, <1>5, <1>6, <1>7 DEF Right
<1>9. QED
  BY <1>1, <1>4, <1>6, <1>7, <1>8, CheckSendInv

\* What the handler does with an SDU when the application streams.
LEMMA AcceptedInv ==
  ASSUME RxInv, NEW q \in Seq(Frames), AllRight(q), NEW l \in rx_started, NEW valid \in BOOLEAN,
         Accepted(l, valid, q), l \notin rx_arrived, rx_arrived' = rx_arrived \cup {l}, UNCHANGED rx_configured
  PROVE  HandedOn
<1>1. RxTypes /\ l \in rx_arrived'
  BY DEF RxInv
<1>2. CASE audio_frame = NoFrame
  BY <1>1, <1>2, NewFrameInv DEF Accepted
<1>3. CASE audio_frame # NoFrame /\ audio_frame.old
  <2>1. CASE Len(q) < RxPackets
    <3>1. PICK p : p = Append(q, audio_frame)
      OBVIOUS
    <3>2. NewFrame(l, valid, p)
      BY <1>3, <2>1, <3>1 DEF Accepted
    <3>3. p \in Seq(Frames) /\ AllRight(p)
      BY <3>1, QueueStaysRight DEF RxInv, RxTypes
    <3>4. QED
      BY <1>1, <3>2, <3>3, NewFrameInv
  <2>2. CASE ~(Len(q) < RxPackets)
    BY <1>3, <2>2 DEF Accepted, HandedOn
  <2>3. QED
    BY <2>1, <2>2
<1>4. CASE audio_frame # NoFrame /\ ~audio_frame.old
  <2>1. audio_frame.locations # {l}
    BY <1>4 DEF RxInv, FreshInv
  <2>2. CheckSend(AudioFrameAdd([audio_frame EXCEPT !.locations = @ \cup {l},
                                                    !.bad = @ \cup IF valid THEN {} ELSE {l}], l, valid), q)
    BY <1>4, <2>1 DEF Accepted
  <2>3. QED
    BY <1>4, <2>2, MergedInv
<1>5. QED
  BY <1>2, <1>3, <1>4

LEMMA RxDataInv ==
  ASSUME RxInv, NEW l \in Locations, NEW valid \in BOOLEAN, RxData(l, valid) PROVE RxInv'
<1>1. /\ l \in rx_started /\ l \notin rx_arrived /\ rx_arrived' = rx_arrived \cup {l}
      /\ UNCHANGED <<rx_configured, rx_started, rx_decoding>>
  BY DEF RxData, rxStreamVars
<1>2. /\ audio_frame \in Frames /\ Right(audio_frame) /\ ble_q_rx \in Seq(Frames) /\ AllRight(ble_q_rx) /\ FreshInv
      /\ rx_started \subseteq rx_configured /\ rx_configured \subseteq Locations /\ rx_arrived \subseteq Locations
      /\ rx_decoding \in Frames /\ Right(rx_decoding)
  BY DEF RxInv, RxTypes
<1>3. HandedOn
  <2>1. CASE ~rx_streaming
    BY <2>1 DEF RxData, HandedOn
  <2>2. CASE rx_streaming
    <3>1. PICK q : q = IF Len(ble_q_rx) = RxPackets THEN Tail(ble_q_rx) ELSE ble_q_rx
      OBVIOUS
    <3>2. Accepted(l, valid, q)
      BY <2>2, <3>1 DEF RxData
    <3>3. q \in Seq(Frames) /\ AllRight(q)
      <4>1. CASE Len(ble_q_rx) = RxPackets
        <5>1. ble_q_rx # <<>>
          BY <4>1, EmptySeq, AudioRxAssumption DEF AudioRxAssumption
        <5>2. QED
          BY <1>2, <3>1, <4>1, <5>1, QueueStaysRight
      <4>2. CASE Len(ble_q_rx) # RxPackets
        BY <1>2, <3>1, <4>2
      <4>3. QED
        BY <4>1, <4>2
    <3>4. QED
      BY <1>1, <3>2, <3>3, AcceptedInv
  <2>3. QED
    BY <2>1, <2>2
<1>4. /\ audio_frame' \in Frames /\ Right(audio_frame') /\ FreshInv'
      /\ ble_q_rx' \in Seq(Frames) /\ AllRight(ble_q_rx')
  <2>1. CASE UNCHANGED <<audio_frame, ble_q_rx>>
    <3>1. FreshInv'
      BY <1>1, <1>2, <2>1 DEF FreshInv, InPlace
    <3>2. QED
      BY <1>2, <2>1, <3>1
  <2>2. QED
    BY <1>3, <2>1 DEF HandedOn
<1>5. RxTypes'
  BY <1>1, <1>2, <1>4 DEF RxTypes
<1>6. Right(rx_decoding)' /\ Right(audio_frame)' /\ AllRight(ble_q_rx)'
  BY <1>1, <1>2, <1>4 DEF Right, AllRight, InPlace
<1>7. QED
  BY <1>4, <1>5, <1>6 DEF RxInv

\* The steps between the SDUs.  What RxInv says of the frames stays as they are.
LEMMA RxStreamsInv ==
  ASSUME RxInv, NEW l \in Locations, RxConfigure(l) \/ RxStartOrStop(l) \/ RxStreamState PROVE RxInv'
<1>1. UNCHANGED <<rx_arrived, audio_frame, ble_q_rx, rx_decoding>>
  BY DEF RxConfigure, RxStartOrStop, RxStreamState
<1>2. rx_started' \subseteq rx_configured' /\ rx_configured' \subseteq Locations
  BY DEF RxConfigure, RxStartOrStop, RxStreamState, RxInv, RxTypes
<1>3. rx_arrived # {} => UNCHANGED rx_configured
  BY DEF RxConfigure, RxStartOrStop, RxStreamState
<1>4. FreshInv'
  BY <1>1, <1>3 DEF RxInv, FreshInv, InPlace
<1>5. RxTypes'
  BY <1>1, <1>2 DEF RxInv, RxTypes
<1>6. QED
  BY <1>1, <1>4, <1>5 DEF RxInv, Right, AllRight, InPlace

LEMMA NextIntervalInv == ASSUME RxInv, NextInterval PROVE RxInv'
<1>1. /\ UNCHANGED <<rx_configured, rx_started, ble_q_rx, rx_decoding>> /\ rx_arrived' = {}
      /\ audio_frame' = IF audio_frame = NoFrame THEN NoFrame ELSE [audio_frame EXCEPT !.old = TRUE]
  BY DEF NextInterval, rxStreamVars
<1>2. PICK g : g = audio_frame'
  OBVIOUS
<1>3. audio_frame \in Frames /\ Right(audio_frame)
  BY DEF RxInv, RxTypes
<1>4. g \in Frames /\ (g # NoFrame => g.old) /\ Right(g)
  <2>1. CASE audio_frame = NoFrame
    BY <1>1, <1>2, <2>1, NoFrameIsRight
  <2>2. CASE audio_frame # NoFrame
    <3>1. g = [audio_frame EXCEPT !.old = TRUE]
      BY <1>1, <1>2, <2>2
    <3>2. /\ g \in Frames /\ g.old /\ g.locations = audio_frame.locations /\ g.bad = audio_frame.bad
          /\ g.len = audio_frame.len /\ g.data = audio_frame.data
      BY <1>3, <3>1 DEF Frames
    <3>3. QED
      BY <1>3, <3>2 DEF Right, InPlace
  <2>3. QED
    BY <2>1, <2>2
<1>5. FreshInv' /\ Right(audio_frame)'
  BY <1>2, <1>4 DEF FreshInv, Right, InPlace
<1>6. RxTypes'
  BY <1>1, <1>2, <1>4 DEF RxInv, RxTypes
<1>7. Right(rx_decoding)' /\ AllRight(ble_q_rx)'
  BY <1>1 DEF RxInv, Right, AllRight, InPlace
<1>8. QED
  BY <1>5, <1>6, <1>7 DEF RxInv

LEMMA DecodingInv == ASSUME RxInv, TakeFrame \/ UnrefFrame PROVE RxInv'
<1>1. UNCHANGED <<rx_configured, rx_started, rx_arrived, audio_frame>>
  BY DEF TakeFrame, UnrefFrame, rxStreamVars
<1>2. ble_q_rx \in Seq(Frames) /\ AllRight(ble_q_rx)
  BY DEF RxInv, RxTypes
<1>3. ble_q_rx' \in Seq(Frames) /\ AllRight(ble_q_rx)' /\ rx_decoding' \in Frames /\ Right(rx_decoding)'
  <2>1. CASE TakeFrame
    <3>1. /\ ble_q_rx # <<>> /\ ble_q_rx' = Tail(ble_q_rx)
          /\ rx_decoding' = [Head(ble_q_rx) EXCEPT !.old = FALSE]
      BY <2>1 DEF TakeFrame
    <3>2. PICK h, t, g : h = Head(ble_q_rx) /\ t = Tail(ble_q_rx) /\ g = [h EXCEPT !.old = FALSE]
      OBVIOUS
    <3>3. t \in Seq(Frames) /\ AllRight(t) /\ h \in Frames /\ Right(h)
      BY <1>2, <3>1, <3>2, QueueStaysRight
    <3>4. /\ g \in Frames /\ g.locations = h.locations /\ g.bad = h.bad /\ g.len = h.len /\ g.data = h.data
      BY <3>2, <3>3 DEF Frames
    <3>5. Right(g)
      BY <3>3, <3>4 DEF Right, InPlace
    <3>6. ble_q_rx' = t /\ rx_decoding' = g
      BY <3>1, <3>2
    <3>7. QED
      BY <3>3, <3>4, <3>5, <3>6 DEF Right, AllRight, InPlace
  <2>2. CASE UnrefFrame
    <3>1. UNCHANGED ble_q_rx /\ rx_decoding' = NoFrame
      BY <2>2 DEF UnrefFrame
    <3>2. Right(rx_decoding)'
      BY <3>1, NoFrameIsRight DEF Right, InPlace
    <3>3. QED
      BY <1>2, <3>1, <3>2, NoFrameIsRight DEF Right, AllRight, InPlace
  <2>3. QED
    BY <2>1, <2>2
<1>4. RxTypes'
  BY <1>1, <1>3 DEF RxInv, RxTypes
<1>5. FreshInv' /\ Right(audio_frame)'
  BY <1>1 DEF RxInv, FreshInv, Right, InPlace
<1>6. QED
  BY <1>3, <1>4, <1>5 DEF RxInv

LEMMA RxStep == ASSUME RxInv, AudioRxNext PROVE RxInv'
<1>1. ASSUME NEW l \in Locations, \E valid \in BOOLEAN : RxData(l, valid) PROVE RxInv'
  BY <1>1, RxDataInv, Zenon
<1>2. ASSUME NEW l \in Locations, RxConfigure(l) \/ RxStartOrStop(l) PROVE RxInv'
  BY <1>2, RxStreamsInv
<1>3. ASSUME RxStreamState PROVE RxInv'
  BY <1>3, RxStreamsInv DEF Locations
<1>4. QED
  BY <1>1, <1>2, <1>3, NextIntervalInv, DecodingInv DEF AudioRxNext

LEMMA RxInvHolds == Spec => []RxInv
<1>1. Init => RxInv
  <2> SUFFICES ASSUME AudioRxInit PROVE RxInv
    BY DEF Init
  <2>1. ble_q_rx \in Seq(Frames) /\ Len(ble_q_rx) = 0
    BY EmptySeq DEF AudioRxInit
  <2>2. RxTypes
    BY <2>1, NoFrameIsRight DEF AudioRxInit, RxTypes
  <2>3. FreshInv /\ Right(audio_frame) /\ Right(rx_decoding)
    BY NoFrameIsRight DEF AudioRxInit, FreshInv
  <2>4. AllRight(ble_q_rx)
    BY <2>1 DEF AllRight
  <2>5. QED
    BY <2>2, <2>3, <2>4 DEF RxInv
<1>2. RxInv /\ [Next]_firmwareVars => RxInv'
  <2> SUFFICES ASSUME RxInv, [Next]_firmwareVars PROVE RxInv'
    OBVIOUS
  <2>1. AudioRxNext \/ UNCHANGED audioRxVars
    BY DEF Next, firmwareVars, headsetPlayVars
  <2>2. CASE UNCHANGED audioRxVars
    BY <2>2 DEF audioRxVars, RxInv, RxTypes, FreshInv, Right, AllRight, InPlace
  <2>3. QED
    BY <2>1, <2>2, RxStep
<1>3. QED
  BY <1>1, <1>2, PTL DEF Spec

\* A frame of both locations is as long as the decoder wants it, and each location is played from
\* its own data, whatever the streams and the application do between the SDUs and however deep
\* the queue is (MergedFramesPlayRight): a frame is only kept for another location's SDU when both
\* streams are configured, which then give the frame its layout.
THEOREM MergedFramesAreRight == Spec => []MergedFramesPlayRight
<1>1. RxInv => MergedFramesPlayRight
  <2> SUFFICES ASSUME RxInv, NEW f \in {audio_frame, rx_decoding} \cup {ble_q_rx[i] : i \in DOMAIN ble_q_rx},
                      f.locations = Locations
               PROVE  DecoderAccepts(f) /\ \A l \in DOMAIN Decoded(f) : Decoded(f)[l] = l
    BY DEF MergedFramesPlayRight
  <2>1. f \in Frames /\ Right(f)
    <3>1. ble_q_rx \in Seq(Frames) /\ AllRight(ble_q_rx)
      BY DEF RxInv, RxTypes
    <3>2. \A i \in DOMAIN ble_q_rx : ble_q_rx[i] \in Frames /\ Right(ble_q_rx[i])
      BY <3>1, QueueFacts DEF AllRight
    <3>3. QED
      BY <3>2 DEF RxInv, RxTypes
  <2>2. f.len >= 2 /\ InPlace(f)
    BY <2>1 DEF Right
  <2>3. DecoderAccepts(f)
    BY <2>1, <2>2, LocationSets DEF DecoderAccepts, Frames
  <2>4. Decoded(f) = [l \in Locations \ f.bad |-> f.data[NetBufIndex(Locations, l)]]
    BY DEF Decoded
  <2>5. ASSUME NEW l \in Locations \ f.bad PROVE f.data[NetBufIndex(Locations, l)] = l
    <3>1. NetBufIndex(Locations, l) = l
      BY OwnSlot
    <3>2. f.data[l] = l
      BY <2>2 DEF InPlace
    <3>3. QED
      BY <3>1, <3>2, Zenon
  <2>6. QED
    BY <2>3, <2>4, <2>5
<1>2. QED
  BY <1>1, RxInvHolds, PTL

-----------------------------------------------------------------------------
(* broadcast_source/main.c and broadcast_source.c                          *)

BisEvents == {"STREAMING", "NOT_STREAMING"}

SrcTypes ==
    /\ big \in [doing : {"none", "starting", "stopping"}, up : SUBSET Bises]
    /\ bis_evt_q \in Seq(BisEvents)
    /\ src_state \in {"paused", "streaming"}

\* Whether the application streams once it has handled what it is told of.
WillStream == IF bis_evt_q = <<>> THEN src_state = "streaming" ELSE bis_evt_q[Len(bis_evt_q)] = "STREAMING"

\* The streams of the group start and stop together, and what the application is told last is
\* what they last did.
GroupFollows ==
    /\ big.doing = "none" => big.up \in {{}, Bises}
    /\ big.doing = "starting" => big.up # Bises
    /\ big.doing = "stopping" => big.up # {}
    /\ WillStream <=> IF big.doing = "starting" THEN big.up # {} ELSE big.up = Bises

\* audio_system and the encoder are on while main.c says that it streams.
AudioIsOn == src_audio = (src_state = "streaming") /\ src_encoder = (src_state = "streaming")

\* The inductive invariant of the broadcast source.
SourceInv == SrcTypes /\ GroupFollows /\ AudioIsOn

LEMMA FirstIsOne == First \in Bises
<1>1. \E b \in Bises : \A c \in Bises : b <= c
  BY LeastExists, BroadcasterAssumption DEF BroadcasterAssumption
<1>2. QED
  BY <1>1 DEF First

\* broadcast_source_start and _stop: the first stream tells how all are.
LEMMA GroupAskedInv ==
  ASSUME SourceInv, BroadcastStart \/ BroadcastStop \/ UNCHANGED big,
         UNCHANGED <<bis_evt_q, src_state, src_audio, src_encoder>>
  PROVE  SourceInv'
<1>1. big \in [doing : {"none", "starting", "stopping"}, up : SUBSET Bises]
  BY DEF SourceInv, SrcTypes
<1>2. WillStream' <=> WillStream
  BY DEF WillStream
<1>3. CASE UNCHANGED big
  BY <1>2, <1>3 DEF SourceInv, SrcTypes, GroupFollows, AudioIsOn
<1>4. CASE BroadcastStart /\ ~UNCHANGED big
  <2>1. First \notin big.up /\ big.doing = "none" /\ big' = [big EXCEPT !.doing = "starting"]
    BY <1>4 DEF BroadcastStart, EpStreaming
  <2>2. big' \in [doing : {"none", "starting", "stopping"}, up : SUBSET Bises]
        /\ big'.doing = "starting" /\ big'.up = big.up
    BY <1>1, <2>1
  <2>3. big.up # Bises
    BY <2>1, FirstIsOne
  <2>4. big.up = {} /\ ~WillStream
    BY <2>1, <2>3 DEF SourceInv, GroupFollows
  <2>5. GroupFollows'
    BY <1>2, <2>2, <2>3, <2>4 DEF GroupFollows
  <2>6. QED
    BY <2>2, <2>5 DEF SourceInv, SrcTypes, AudioIsOn
<1>5. CASE BroadcastStop /\ ~UNCHANGED big
  <2>1. First \in big.up /\ big.doing = "none" /\ big' = [big EXCEPT !.doing = "stopping"]
    BY <1>5 DEF BroadcastStop, EpStreaming
  <2>2. big' \in [doing : {"none", "starting", "stopping"}, up : SUBSET Bises]
        /\ big'.doing = "stopping" /\ big'.up = big.up
    BY <1>1, <2>1
  <2>3. big.up = Bises /\ WillStream
    BY <2>1 DEF SourceInv, GroupFollows
  <2>4. GroupFollows'
    BY <1>2, <2>1, <2>2, <2>3 DEF GroupFollows
  <2>5. QED
    BY <2>2, <2>4 DEF SourceInv, SrcTypes, AudioIsOn
<1>6. QED
  BY <1>3, <1>4, <1>5

\* An event that is published is the last that the application is told.
LEMMA PublishedLast ==
  ASSUME SrcTypes, NEW event \in BisEvents, Publish(event)
  PROVE  bis_evt_q' \in Seq(BisEvents) /\ (WillStream' <=> event = "STREAMING")
<1>1. PICK q, n : q = bis_evt_q' /\ n = Len(bis_evt_q)
  OBVIOUS
<1>2. q = Append(bis_evt_q, event)
  BY <1>1 DEF Publish
<1>3. n \in Nat /\ q \in Seq(BisEvents) /\ Len(q) = n + 1 /\ q[n + 1] = event
  BY <1>1, <1>2, LongerQueue, QueueFacts DEF SrcTypes
<1>4. q # <<>> /\ q[Len(q)] = event
  <2>1. Len(q) # 0
    BY <1>3
  <2>2. q # <<>>
    BY <2>1, EmptySeq
  <2>3. QED
    BY <1>3, <2>2
<1>5. QED
  BY <1>1, <1>3, <1>4 DEF WillStream

LEMMA StreamCallbackInv ==
  ASSUME SourceInv, NEW b \in Bises, StreamStartedCb(b) \/ StreamStoppedCb(b) PROVE SourceInv'
<1>1. big \in [doing : {"none", "starting", "stopping"}, up : SUBSET Bises] /\ SrcTypes
  BY DEF SourceInv, SrcTypes
<1>2. UNCHANGED <<src_state, src_audio, src_encoder>>
  BY DEF StreamStartedCb, StreamStoppedCb
<1>3. CASE StreamStartedCb(b)
  <2>1. /\ big' = [up |-> big.up \cup {b}, doing |-> IF big.up \cup {b} = Bises THEN "none" ELSE "starting"]
        /\ Publish("STREAMING")
    BY <1>3 DEF StreamStartedCb
  <2>2. /\ big' \in [doing : {"none", "starting", "stopping"}, up : SUBSET Bises]
        /\ big'.up = big.up \cup {b} /\ big'.doing = IF big.up \cup {b} = Bises THEN "none" ELSE "starting"
    BY <1>1, <2>1
  <2>3. bis_evt_q' \in Seq(BisEvents) /\ WillStream'
    BY <1>1, <2>1, PublishedLast DEF BisEvents
  <2>4. GroupFollows'
    BY <2>2, <2>3 DEF GroupFollows
  <2>5. QED
    BY <1>1, <1>2, <2>2, <2>3, <2>4 DEF SourceInv, SrcTypes, AudioIsOn
<1>4. CASE StreamStoppedCb(b)
  <2>1. /\ big' = [up |-> big.up \ {b}, doing |-> IF big.up = {b} THEN "none" ELSE "stopping"]
        /\ b \in big.up /\ Publish("NOT_STREAMING")
    BY <1>4 DEF StreamStoppedCb
  <2>2. /\ big' \in [doing : {"none", "starting", "stopping"}, up : SUBSET Bises]
        /\ big'.up = big.up \ {b} /\ big'.doing = IF big.up = {b} THEN "none" ELSE "stopping"
    BY <1>1, <2>1
  <2>3. bis_evt_q' \in Seq(BisEvents) /\ ~WillStream'
    BY <1>1, <2>1, PublishedLast DEF BisEvents
  <2>4. big'.up # Bises /\ (big'.up = {} <=> big.up = {b})
    BY <2>1, <2>2
  <2>5. GroupFollows'
    BY <2>2, <2>3, <2>4 DEF GroupFollows
  <2>6. QED
    BY <1>1, <1>2, <2>2, <2>3, <2>5 DEF SourceInv, SrcTypes, AudioIsOn
<1>5. QED
  BY <1>3, <1>4

\* The subscriber handles an event: when it was the last one, it does what that one says.
LEMMA SrcEventInv == ASSUME SourceInv, SrcEvtStreaming \/ SrcEvtNotStreaming PROVE SourceInv'
<1>1. PICK event \in BisEvents :
          /\ bis_evt_q # <<>> /\ Head(bis_evt_q) = event /\ bis_evt_q' = Tail(bis_evt_q)
          /\ src_state' = (IF event = "STREAMING" THEN "streaming" ELSE "paused")
          /\ UNCHANGED big
  BY DEF SrcEvtStreaming, SrcEvtNotStreaming, groupVars, BisEvents
<1>2. AudioIsOn'
  <2>1. src_state \in {"paused", "streaming"} /\ AudioIsOn
    BY DEF SourceInv, SrcTypes
  <2>2. CASE SrcEvtStreaming
    BY <2>1, <2>2 DEF SrcEvtStreaming, AudioIsOn
  <2>3. CASE SrcEvtNotStreaming
    BY <2>1, <2>3 DEF SrcEvtNotStreaming, AudioIsOn
  <2>4. QED
    BY <2>2, <2>3
<1>3. PICK h, t, n : h = Head(bis_evt_q) /\ t = Tail(bis_evt_q) /\ n = Len(bis_evt_q)
  OBVIOUS
<1>4. /\ n \in Nat \ {0} /\ t \in Seq(BisEvents) /\ Len(t) = n - 1 /\ h = bis_evt_q[1]
      /\ \A i \in 1..n - 1 : t[i] = bis_evt_q[i + 1]
  BY <1>1, <1>3, ShorterQueue DEF SourceInv, SrcTypes
<1>5. WillStream <=> bis_evt_q[n] = "STREAMING"
  BY <1>1, <1>3 DEF WillStream
<1>6. WillStream' <=> WillStream
  <2>1. CASE n = 1
    <3>1. t = <<>>
      BY <1>4, <2>1, EmptySeq
    <3>2. WillStream' <=> event = "STREAMING"
      BY <1>1, <1>3, <3>1 DEF WillStream
    <3>3. QED
      BY <1>1, <1>3, <1>4, <1>5, <2>1, <3>2
  <2>2. CASE n # 1
    <3>1. n - 1 \in 1..n - 1 /\ (n - 1) + 1 = n /\ Len(t) # 0
      BY <1>4, <2>2
    <3>2. t[Len(t)] = bis_evt_q[n]
      BY <1>4, <3>1
    <3>3. t # <<>>
      BY <3>1, EmptySeq
    <3>4. WillStream' <=> t[Len(t)] = "STREAMING"
      BY <1>1, <1>3, <3>3 DEF WillStream
    <3>5. QED
      BY <1>5, <3>2, <3>4
  <2>3. QED
    BY <2>1, <2>2
<1>7. SrcTypes'
  BY <1>1, <1>3, <1>4 DEF SourceInv, SrcTypes
<1>8. GroupFollows'
  BY <1>1, <1>6 DEF SourceInv, GroupFollows
<1>9. QED
  BY <1>2, <1>7, <1>8 DEF SourceInv

LEMMA SourceStep == ASSUME SourceInv, BroadcasterNext PROVE SourceInv'
<1>1. CASE ExtAdvWithPaReady \/ PlayPause \/ FrameEncoded \/ \E b \in Bises : StreamSentCb(b) \/ IsoStreamSend(b)
  <2>1. /\ UNCHANGED <<bis_evt_q, src_state, src_audio, src_encoder>>
        /\ BroadcastStart \/ BroadcastStop \/ UNCHANGED big
    BY <1>1 DEF ExtAdvWithPaReady, PlayPause, FrameEncoded, StreamSentCb, IsoStreamSend, appVars, groupVars
  <2>2. QED
    BY <2>1, GroupAskedInv
<1>2. QED
  BY <1>1, StreamCallbackInv, SrcEventInv DEF BroadcasterNext

LEMMA SourceInvHolds == (Init => SourceInv) /\ (Spec => []SourceInv)
<1>1. Init => SourceInv
  <2> SUFFICES ASSUME BroadcasterInit PROVE SourceInv
    BY DEF Init
  <2>1. bis_evt_q \in Seq(BisEvents) /\ bis_evt_q = <<>> /\ src_state = "paused"
    BY EmptySeq DEF BroadcasterInit
  <2>2. big = [doing |-> "none", up |-> {}]
    BY DEF BroadcasterInit
  <2>3. AudioIsOn
    BY DEF BroadcasterInit, AudioIsOn
  <2>4. GroupFollows
    BY <2>1, <2>2, BroadcasterAssumption DEF GroupFollows, WillStream, BroadcasterAssumption
  <2>5. SrcTypes
    BY <2>1, <2>2 DEF SrcTypes
  <2>6. QED
    BY <2>3, <2>4, <2>5 DEF SourceInv
<1>2. SourceInv /\ [Next]_firmwareVars => SourceInv'
  <2> SUFFICES ASSUME SourceInv, [Next]_firmwareVars PROVE SourceInv'
    OBVIOUS
  <2>1. BroadcasterNext \/ UNCHANGED broadcasterVars
    BY DEF Next, firmwareVars, radioVars
  <2>2. CASE UNCHANGED broadcasterVars
    BY <2>2 DEF broadcasterVars, SourceInv, SrcTypes, GroupFollows, AudioIsOn, WillStream
  <2>3. QED
    BY <2>1, <2>2, SourceStep
<1>3. QED
  BY <1>1, <1>2, PTL DEF Spec

\* A broadcast source that has handled its events streams, with audio and encoder on, exactly if
\* its group does, for any set of streams and however fast the group was stopped and started
\* (SourceStateFollows), although the events of the streams are told one by one and only the
\* first stream is asked.
THEOREM SourceFollowsGroup == Spec => []SourceStateFollows
<1>1. SourceInv => SourceStateFollows
  <2> SUFFICES ASSUME SourceInv, bis_evt_q = <<>>, big.doing = "none"
               PROVE  /\ (src_state = "streaming") = (big.up # {})
                      /\ src_audio = (big.up # {}) /\ src_encoder = (big.up # {})
    BY DEF SourceStateFollows
  <2>1. (src_state = "streaming") <=> big.up = Bises
    BY DEF SourceInv, GroupFollows, WillStream
  <2>2. big.up = Bises <=> big.up # {}
    BY BroadcasterAssumption DEF SourceInv, GroupFollows, BroadcasterAssumption
  <2>3. AudioIsOn
    BY DEF SourceInv
  <2>4. QED
    BY <2>1, <2>2, <2>3 DEF AudioIsOn
<1>2. QED
  BY <1>1, SourceInvHolds, PTL

-----------------------------------------------------------------------------
(* bt_le_audio_tx.c: the buffers of the streams, and their sum.             *)

\* PoolUsed is a fold, whose function from sets of streams is SumOf.
Added(f, g, S) == LET b == CHOOSE x \in S : TRUE IN f[b] + g[S \ {b}]
SumBody(f, g, S) == IF S = {} THEN 0 ELSE Added(f, g, S)
SumOf(f) == CHOOSE g : g = [S \in SUBSET Bises |-> SumBody(f, g, S)]
OfAtMost(n) == {S \in SUBSET Bises : Cardinality(S) <= n}

LEMMA PoolUsedIsSum == PoolUsed = SumOf(iso_tx_pool)[Bises]
  BY DEF PoolUsed, MapThenSumSet, MapThenFoldSet, SumOf, SumBody, Added

LEMMA OneBisLess ==
  ASSUME NEW n \in Nat, NEW S \in OfAtMost(n), S # {}, NEW b, b = CHOOSE x \in S : TRUE
  PROVE  /\ b \in S /\ b \in Bises /\ n # 0 /\ S \ {b} \in OfAtMost(n - 1) /\ S \ {b} \in OfAtMost(n)
         /\ Cardinality(S \ {b}) = Cardinality(S) - 1 /\ Cardinality(S) \in Nat
<1>1. b \in S /\ b \in Bises
  BY DEF OfAtMost
<1>2. IsFiniteSet(S)
  BY FS_Subset, BroadcasterAssumption DEF OfAtMost, BroadcasterAssumption
<1>3. IsFiniteSet(S \ {b}) /\ Cardinality(S \ {b}) = Cardinality(S) - 1
  BY <1>1, <1>2, FS_RemoveElement
<1>4. Cardinality(S) \in Nat /\ Cardinality(S \ {b}) \in Nat
  BY <1>2, <1>3, FS_CardinalityType
<1>5. PICK k : k = Cardinality(S)
  OBVIOUS
<1>6. PICK T : T = S \ {b}
  OBVIOUS
<1>7. k \in Nat /\ k <= n /\ Cardinality(T) = k - 1 /\ Cardinality(T) \in Nat /\ T \in SUBSET Bises
  BY <1>3, <1>4, <1>5, <1>6 DEF OfAtMost
<1>8. n # 0 /\ Cardinality(T) <= n - 1 /\ Cardinality(T) <= n
  BY <1>7
<1>9. T \in OfAtMost(n - 1) /\ T \in OfAtMost(n)
  BY <1>7, <1>8 DEF OfAtMost
<1>10. QED
  BY <1>1, <1>3, <1>4, <1>6, <1>8, <1>9

LEMMA SomeSum == ASSUME NEW f, NEW n \in Nat PROVE \E g : g = [S \in OfAtMost(n) |-> SumBody(f, g, S)]
<1> DEFINE Is(g, k) == g = [S \in OfAtMost(k) |-> SumBody(f, g, S)]
           T == {k \in Nat : ~ \E g : Is(g, k)}
<1>1. SUFFICES ASSUME T # {} PROVE FALSE
  OBVIOUS
<1>2. PICK k \in T : \A m \in T : k <= m
  BY <1>1, LeastExists, Zenon
<1>3. k \in Nat /\ ~ \E g : Is(g, k)
  OBVIOUS
<1>4. \E g : Is(g, k)
  <2>1. CASE k = 0
    <3>1. PICK g : g = [S \in OfAtMost(0) |-> 0]
      OBVIOUS
    <3>2. ASSUME NEW S \in OfAtMost(0) PROVE S = {}
      BY OneBisLess
    <3>3. \A S \in OfAtMost(0) : SumBody(f, g, S) = 0
      BY <3>2 DEF SumBody
    <3>4. g = [S \in OfAtMost(0) |-> SumBody(f, g, S)]
      BY <3>1, <3>3
    <3>5. QED
      BY <2>1, <3>4
  <2>2. CASE k # 0
    <3>1. k - 1 \in Nat /\ ~ (k <= k - 1)
      BY <1>3, <2>2
    <3>2. k - 1 \notin T
      BY <1>2, <3>1
    <3>3. PICK g : Is(g, k - 1)
      BY <3>1, <3>2
    <3>4. PICK h : h = [S \in OfAtMost(k) |-> IF S \in OfAtMost(k - 1) THEN g[S] ELSE SumBody(f, g, S)]
      OBVIOUS
    <3>5. \A S \in OfAtMost(k) : h[S] = SumBody(f, g, S)
      BY <3>3, <3>4
    <3>6. ASSUME NEW S \in OfAtMost(k) PROVE SumBody(f, g, S) = SumBody(f, h, S)
      <4>1. CASE S = {}
        BY <4>1 DEF SumBody
      <4>2. CASE S # {}
        <5>1. PICK b : b = CHOOSE x \in S : TRUE
          OBVIOUS
        <5>2. S \ {b} \in OfAtMost(k - 1) /\ S \ {b} \in OfAtMost(k)
          BY <1>3, <4>2, <5>1, OneBisLess
        <5>3. h[S \ {b}] = g[S \ {b}]
          BY <3>4, <5>2
        <5>4. Added(f, g, S) = Added(f, h, S)
          BY <5>1, <5>3 DEF Added
        <5>5. QED
          BY <5>4 DEF SumBody
      <4>3. QED
        BY <4>1, <4>2
    <3>7. \A S \in OfAtMost(k) : h[S] = SumBody(f, h, S)
      BY <3>5, <3>6
    <3>8. Is(h, k)
      BY <3>4, <3>7
    <3>9. QED
      BY <3>8
  <2>3. QED
    BY <2>1, <2>2
<1>5. QED
  BY <1>3, <1>4

LEMMA SumUnfolds == ASSUME NEW f, NEW S \in SUBSET Bises PROVE SumOf(f)[S] = SumBody(f, SumOf(f), S)
<1>1. PICK n \in Nat : n = Cardinality(Bises)
  BY FS_CardinalityType, BroadcasterAssumption DEF BroadcasterAssumption
<1>2. OfAtMost(n) = SUBSET Bises
  BY <1>1, FS_Subset, BroadcasterAssumption DEF OfAtMost, BroadcasterAssumption
<1>3. PICK g : g = [R \in OfAtMost(n) |-> SumBody(f, g, R)]
  BY SomeSum
<1>4. \E h : h = [R \in SUBSET Bises |-> SumBody(f, h, R)]
  BY <1>2, <1>3
<1>5. SumOf(f) = [R \in SUBSET Bises |-> SumBody(f, SumOf(f), R)]
  BY <1>4, Zenon DEF SumOf
<1>6. QED
  BY <1>5, Zenon

LEMMA TimesOneMore == ASSUME NEW c \in Nat, NEW n \in Nat PROVE c * n \in Nat /\ (c + 1) * n = c * n + n
  OBVIOUS

\* Streams that hold at most n buffers each hold together at most n times their number, and
\* fewer if one of them holds fewer.
Fits(f, g, S, n) ==
    /\ g[S] \in Nat /\ g[S] <= Cardinality(S) * n
    /\ (\E b \in S : f[b] < n) => g[S] < Cardinality(S) * n

LEMMA SumIsBounded ==
  ASSUME NEW n \in Nat, NEW f \in [Bises -> 0..n], NEW B \in SUBSET Bises
  PROVE  Fits(f, SumOf(f), B, n)
<1>0. PICK g : g = SumOf(f)
  OBVIOUS
<1> DEFINE T == {k \in Nat : \E S \in SUBSET Bises : Cardinality(S) = k /\ ~ Fits(f, g, S, n)}
<1>1. T = {}
  <2>1. SUFFICES ASSUME T # {} PROVE FALSE
    OBVIOUS
  <2>2. PICK k \in T : \A m \in T : k <= m
    BY <2>1, LeastExists, Zenon
  <2>3. PICK S \in SUBSET Bises : Cardinality(S) = k /\ ~ Fits(f, g, S, n)
    BY <2>2
  <2>4. k \in Nat /\ S \in OfAtMost(k)
    BY <2>3 DEF OfAtMost
  <2>5. g[S] = SumBody(f, g, S)
    BY <1>0, SumUnfolds
  <2>6. CASE S = {}
    <3>1. g[S] = 0 /\ Cardinality(S) = 0
      BY <2>5, <2>6, FS_EmptySet DEF SumBody
    <3>2. 0 * n = 0
      OBVIOUS
    <3>3. Fits(f, g, S, n)
      BY <2>6, <3>1, <3>2 DEF Fits
    <3>4. QED
      BY <2>3, <3>3
  <2>7. CASE S # {}
    <3>1. PICK b : b = CHOOSE x \in S : TRUE
      OBVIOUS
    <3>2. PICK R : R = S \ {b}
      OBVIOUS
    <3>3. /\ b \in S /\ b \in Bises /\ k # 0 /\ R \in SUBSET Bises
          /\ Cardinality(R) = k - 1
      BY <2>3, <2>4, <2>7, <3>1, <3>2, OneBisLess DEF OfAtMost
    <3>4. k - 1 \in Nat /\ ~ (k <= k - 1)
      BY <2>4, <3>3
    <3>5. Fits(f, g, R, n)
      BY <2>2, <3>3, <3>4
    <3>6. PICK m \in Nat : m = (k - 1) * n /\ k * n = m + n
      <4>1. (k - 1) + 1 = k
        BY <2>4
      <4>2. QED
        BY <3>4, <4>1, TimesOneMore
    <3>7. PICK r \in Nat : r = g[R] /\ r <= m /\ ((\E x \in R : f[x] < n) => r < m)
      BY <3>3, <3>5, <3>6 DEF Fits
    <3>8. g[S] = f[b] + r
      BY <2>5, <2>7, <3>1, <3>2, <3>7 DEF SumBody, Added
    <3>9. f[b] \in 0..n
      BY <3>3
    <3>10. g[S] \in Nat /\ g[S] <= m + n
      BY <3>7, <3>8, <3>9
    <3>11. ASSUME NEW x \in S, f[x] < n PROVE g[S] < m + n
      <4>1. CASE x = b
        BY <3>7, <3>8, <3>9, <3>11, <4>1
      <4>2. CASE x # b
        <5>1. r < m
          BY <3>2, <3>7, <3>11, <4>2
        <5>2. QED
          BY <3>7, <3>8, <3>9, <5>1
      <4>3. QED
        BY <4>1, <4>2
    <3>12. Fits(f, g, S, n)
      BY <2>3, <3>6, <3>10, <3>11 DEF Fits
    <3>13. QED
      BY <2>3, <3>12
  <2>8. QED
    BY <2>6, <2>7
<1>2. Cardinality(B) \in Nat
  BY FS_Subset, FS_CardinalityType, BroadcasterAssumption DEF BroadcasterAssumption
<1>3. QED
  BY <1>0, <1>1, <1>2

LEMMA RoomForOneMore ==
  ASSUME iso_tx_pool \in [Bises -> 0..IsoBufPerChan], NEW b \in Bises, iso_tx_pool[b] < IsoBufPerChan
  PROVE  PoolUsed # PoolMax
<1>1. IsoBufPerChan \in Nat
  BY BroadcasterAssumption DEF BroadcasterAssumption
<1>2. PICK m : m = PoolMax
  OBVIOUS
<1>3. Fits(iso_tx_pool, SumOf(iso_tx_pool), Bises, IsoBufPerChan)
  BY <1>1, SumIsBounded
<1>4. PoolUsed \in Nat /\ PoolUsed < PoolMax
  BY <1>3, PoolUsedIsSum DEF Fits, PoolMax
<1>5. PoolMax \in Nat
  BY <1>1, FS_CardinalityType, BroadcasterAssumption, TimesOneMore DEF BroadcasterAssumption, PoolMax
<1>6. QED
  BY <1>4, <1>5

\* A stream that is up counts what it holds, one that is not holds nothing.
Holds(b) == IF b \in big.up THEN iso_tx_pool_alloc[b] = iso_tx_pool[b] ELSE iso_tx_pool[b] = 0

TxTypes ==
    /\ iso_tx_pool_alloc \in [Bises -> 0..IsoBufPerChan] /\ iso_tx_pool \in [Bises -> 0..IsoBufPerChan]
    /\ sending \subseteq Bises

\* The inductive invariant of the buffers.
BuffersInv == SrcTypes /\ TxTypes /\ (\A b \in Bises : Holds(b)) /\ ~tx_fault

\* The group starts, stops or is left as it is; no stream is told yet.
LEMMA BuffersKept ==
  ASSUME BuffersInv, SrcTypes', BroadcastStart \/ BroadcastStop \/ UNCHANGED big,
         UNCHANGED <<iso_tx_pool_alloc, iso_tx_pool, tx_fault>>, sending' \subseteq Bises
  PROVE  BuffersInv'
<1>1. big'.up = big.up
  BY DEF BroadcastStart, BroadcastStop, BuffersInv, SrcTypes
<1>2. QED
  BY <1>1 DEF BuffersInv, TxTypes, Holds

LEMMA CallbackBuffers ==
  ASSUME BuffersInv, SrcTypes', NEW b \in Bises, StreamStartedCb(b) \/ StreamStoppedCb(b)
  PROVE  BuffersInv'
<1>0. IsoBufPerChan \in Nat /\ 0 \in 0..IsoBufPerChan
  BY BroadcasterAssumption DEF BroadcasterAssumption
<1>1. CASE StreamStartedCb(b)
  <2>1. /\ iso_tx_pool_alloc' = [iso_tx_pool_alloc EXCEPT ![b] = 0] /\ UNCHANGED <<iso_tx_pool, sending, tx_fault>>
        /\ big'.up = big.up \cup {b} /\ b \notin big.up
    BY <1>1 DEF StreamStartedCb, TxStreamStarted
  <2>2. TxTypes'
    BY <1>0, <2>1 DEF BuffersInv, TxTypes
  <2>3. ASSUME NEW c \in Bises PROVE Holds(c)'
    BY <2>1 DEF BuffersInv, TxTypes, Holds
  <2>4. QED
    BY <2>1, <2>2, <2>3 DEF BuffersInv
<1>2. CASE StreamStoppedCb(b)
  <2>1. /\ iso_tx_pool' = [iso_tx_pool EXCEPT ![b] = 0] /\ UNCHANGED <<iso_tx_pool_alloc, sending, tx_fault>>
        /\ big'.up = big.up \ {b}
    BY <1>2 DEF StreamStoppedCb
  <2>2. TxTypes'
    BY <1>0, <2>1 DEF BuffersInv, TxTypes
  <2>3. ASSUME NEW c \in Bises PROVE Holds(c)'
    BY <2>1 DEF BuffersInv, TxTypes, Holds
  <2>4. QED
    BY <2>1, <2>2, <2>3 DEF BuffersInv
<1>3. QED
  BY <1>1, <1>2

LEMMA SentBuffers ==
  ASSUME BuffersInv, SrcTypes', NEW b \in Bises, StreamSentCb(b)
  PROVE  BuffersInv'
<1>1. /\ iso_tx_pool[b] > 0 /\ b \in big.up /\ UNCHANGED <<big, sending>>
      /\ iso_tx_pool' = [iso_tx_pool EXCEPT ![b] = iso_tx_pool[b] - 1]
  BY DEF StreamSentCb, EpStreaming, groupVars
<1>2. iso_tx_pool[b] \in 0..IsoBufPerChan /\ iso_tx_pool_alloc[b] = iso_tx_pool[b]
  BY <1>1 DEF BuffersInv, TxTypes, Holds
<1>3. iso_tx_pool_alloc' = [iso_tx_pool_alloc EXCEPT ![b] = iso_tx_pool_alloc[b] - 1] /\ UNCHANGED tx_fault
  BY <1>1, <1>2 DEF StreamSentCb
<1>4. iso_tx_pool[b] - 1 \in 0..IsoBufPerChan
  BY <1>1, <1>2, BroadcasterAssumption DEF BroadcasterAssumption
<1>5. TxTypes'
  BY <1>1, <1>2, <1>3, <1>4 DEF BuffersInv, TxTypes
<1>6. ASSUME NEW c \in Bises PROVE Holds(c)'
  BY <1>1, <1>2, <1>3 DEF BuffersInv, TxTypes, Holds
<1>7. QED
  BY <1>3, <1>5, <1>6 DEF BuffersInv

LEMMA SendBuffers ==
  ASSUME BuffersInv, SrcTypes', NEW b \in Bises, IsoStreamSend(b)
  PROVE  BuffersInv'
<1>1. sending' \subseteq Bises /\ UNCHANGED big
  BY DEF IsoStreamSend, BuffersInv, TxTypes, groupVars
<1>2. CASE ~EpStreaming(b) \/ Overrun(b)
  BY <1>1, <1>2, BuffersKept DEF IsoStreamSend
<1>3. CASE EpStreaming(b) /\ ~Overrun(b)
  <2>1. /\ iso_tx_pool[b] \in 0..IsoBufPerChan /\ iso_tx_pool_alloc[b] = iso_tx_pool[b]
        /\ iso_tx_pool[b] < IsoBufPerChan
    BY <1>3, BroadcasterAssumption DEF BuffersInv, TxTypes, Holds, EpStreaming, Overrun, BroadcasterAssumption
  <2>2. PoolUsed # PoolMax
    BY <2>1, RoomForOneMore DEF BuffersInv, TxTypes
  <2>3. /\ iso_tx_pool_alloc' = [iso_tx_pool_alloc EXCEPT ![b] = iso_tx_pool_alloc[b] + 1]
        /\ iso_tx_pool' = [iso_tx_pool EXCEPT ![b] = iso_tx_pool[b] + 1] /\ UNCHANGED tx_fault
    BY <1>3, <2>2 DEF IsoStreamSend
  <2>4. iso_tx_pool[b] + 1 \in 0..IsoBufPerChan
    BY <2>1, BroadcasterAssumption DEF BroadcasterAssumption
  <2>5. TxTypes'
    BY <1>1, <2>1, <2>3, <2>4 DEF BuffersInv, TxTypes
  <2>6. ASSUME NEW c \in Bises PROVE Holds(c)'
    BY <1>1, <1>3, <2>1, <2>3 DEF BuffersInv, TxTypes, Holds, EpStreaming
  <2>7. QED
    BY <2>3, <2>5, <2>6 DEF BuffersInv
<1>4. QED
  BY <1>2, <1>3

LEMMA BuffersInvHolds == Spec => []BuffersInv
<1>1. Init => BuffersInv
  <2> SUFFICES ASSUME Init PROVE BuffersInv
    OBVIOUS
  <2>1. SourceInv
    BY SourceInvHolds
  <2>2. 0 \in 0..IsoBufPerChan
    BY BroadcasterAssumption DEF BroadcasterAssumption
  <2>3. TxTypes /\ ~tx_fault
    BY <2>2 DEF Init, BroadcasterInit, TxTypes
  <2>4. \A b \in Bises : Holds(b)
    BY DEF Init, BroadcasterInit, Holds
  <2>5. QED
    BY <2>1, <2>3, <2>4 DEF BuffersInv, SourceInv
<1>2. BuffersInv /\ SourceInv' /\ [Next]_firmwareVars => BuffersInv'
  <2> SUFFICES ASSUME BuffersInv, SourceInv', [Next]_firmwareVars PROVE BuffersInv'
    OBVIOUS
  <2>0. SrcTypes'
    BY DEF SourceInv
  <2>1. BroadcasterNext \/ UNCHANGED broadcasterVars
    BY DEF Next, firmwareVars, radioVars
  <2>2. CASE \/ UNCHANGED broadcasterVars \/ ExtAdvWithPaReady \/ FrameEncoded \/ PlayPause
             \/ SrcEvtStreaming \/ SrcEvtNotStreaming
    <3>1. /\ BroadcastStart \/ BroadcastStop \/ UNCHANGED big
          /\ UNCHANGED <<iso_tx_pool_alloc, iso_tx_pool, tx_fault>> /\ sending' \in {sending, big.up}
      BY <2>2 DEF broadcasterVars, ExtAdvWithPaReady, FrameEncoded, PlayPause, SrcEvtStreaming, SrcEvtNotStreaming,
                  txVars, groupVars
    <3>2. sending' \subseteq Bises
      BY <3>1 DEF BuffersInv, TxTypes, SrcTypes
    <3>3. QED
      BY <2>0, <3>1, <3>2, BuffersKept
  <2>3. QED
    BY <2>0, <2>1, <2>2, CallbackBuffers, SentBuffers, SendBuffers DEF BroadcasterNext
<1>3. QED
  BY <1>1, <1>2, SourceInvHolds, PTL DEF Spec

\* The count of a stream is the number of buffers it holds, over every stop and start, for any
\* set of streams and share of buffers (CountsTheBuffers): no sent callback finds a count of
\* zero, and the pool is never empty, for a stream that may send holds less than its share.
THEOREM BuffersAreCounted == Spec => []CountsTheBuffers
<1>1. BuffersInv => CountsTheBuffers
  <2> SUFFICES ASSUME BuffersInv PROVE CountsTheBuffers
    OBVIOUS
  <2>1. big.up \subseteq Bises
    BY DEF BuffersInv, SrcTypes
  <2>2. QED
    BY <2>1 DEF BuffersInv, CountsTheBuffers, Holds
<1>2. QED
  BY <1>1, BuffersInvHolds, PTL

-----------------------------------------------------------------------------
(* The types of all the parts.                                             *)

\* What the types say of the headset besides HsTypes.
HeadsetRest ==
    /\ cap_tx_stream \in 0..(Sinks + Sources) /\ Len(le_audio_q) <= HsMessages
    /\ encoder_sig \in BOOLEAN /\ audio_q_rx \in 0..FrameBlocks
    /\ encoder \in [at : {"none", "poll", "collect"}, got : 0..(FrameBlocks - 1)]
    /\ hs_fault \in {"none", "start", "stop", "encode"}

LEMMA HeadsetCallbackRest ==
  ASSUME HeadsetInv, HeadsetRest, Client PROVE HeadsetRest'
<1>1. UNCHANGED <<encoder, encoder_sig, audio_q_rx, hs_fault>>
  BY DEF Client, Lc3Config, Lc3Reconfig, Lc3Qos, Lc3Enable, StreamStarted, Lc3Disable, Lc3Stop, StreamStopped,
         Lc3Release, Served, Callback, encoderVars
<1>2. UNCHANGED le_audio_q \/ \E m : Len(le_audio_q) < HsMessages /\ le_audio_q' = Append(le_audio_q, m)
  BY DEF Client, Lc3Config, Lc3Reconfig, Lc3Qos, Lc3Enable, StreamStarted, Lc3Disable, Lc3Stop, StreamStopped,
         Lc3Release, Published
<1>3. Len(le_audio_q') <= HsMessages
  <2>1. PICK n : n = Len(le_audio_q)
    OBVIOUS
  <2>2. n \in Nat /\ \A m : Len(Append(le_audio_q, m)) = n + 1
    BY <2>1, OneMore, QueueFacts DEF HeadsetInv, HsTypes
  <2>3. QED
    BY <1>2, <2>1, <2>2, HeadsetAssumption DEF HeadsetRest, HeadsetAssumption
<1>4. cap_tx_stream' \in 0..(Sinks + Sources)
  <2>1. CASE UNCHANGED cap_tx_stream
    BY <2>1 DEF HeadsetRest
  <2>2. ASSUME NEW d \in Dirs, Lc3Config(d) PROVE cap_tx_stream' \in {cap_tx_stream} \cup Streams
    <3>1. (CHOOSE x \in FreeStreams : \A y \in FreeStreams : x <= y) \in Streams
      BY <2>2, FreeStreamIsOne DEF Lc3Config, FreeStreams
    <3>2. QED
      BY <2>2, <3>1 DEF Lc3Config
  <2>3. Streams \subseteq 0..(Sinks + Sources)
    BY HeadsetAssumption DEF Streams, HeadsetAssumption
  <2>4. QED
    BY <2>1, <2>2, <2>3 DEF HeadsetRest, Client, Lc3Reconfig, Lc3Qos, Lc3Enable, StreamStarted, Lc3Disable, Lc3Stop,
                            StreamStopped, Lc3Release, Served
<1>5. QED
  BY <1>1, <1>3, <1>4 DEF HeadsetRest

\* The encoder collects no more than a frame's blocks, and leaves at most the rest of the queue.
LEMMA EncoderRest == ASSUME HeadsetRest, I2sBlock \/ EncoderStep PROVE HeadsetRest'
<1>1. UNCHANGED <<cap_tx_stream, le_audio_q, encoder_sig>>
  BY DEF I2sBlock, EncoderStep, serverVars
<1>2. /\ FrameBlocks \in Nat \ {0} /\ audio_q_rx \in 0..FrameBlocks
      /\ encoder \in [at : {"none", "poll", "collect"}, got : 0..(FrameBlocks - 1)] /\ encoder.got \in 0..(FrameBlocks - 1)
  BY HeadsetAssumption DEF HeadsetRest, HeadsetAssumption
<1>3. CASE I2sBlock
  BY <1>1, <1>2, <1>3 DEF I2sBlock, HeadsetRest
<1>4. CASE EncoderStep /\ encoder.got + audio_q_rx < FrameBlocks
  <2>1. encoder.got + audio_q_rx \in 0..(FrameBlocks - 1) /\ 0 \in 0..FrameBlocks
    BY <1>2, <1>4
  <2>2. QED
    BY <1>1, <1>4, <2>1 DEF EncoderStep, HeadsetRest
<1>5. CASE EncoderStep /\ ~(encoder.got + audio_q_rx < FrameBlocks)
  <2>1. (encoder.got + audio_q_rx) - FrameBlocks \in 0..FrameBlocks /\ 0 \in 0..(FrameBlocks - 1)
    BY <1>2, <1>5
  <2>2. /\ audio_q_rx' = (encoder.got + audio_q_rx) - FrameBlocks /\ encoder' = [at |-> "poll", got |-> 0]
        /\ hs_fault' \in {"none", "encode"}
    BY <1>5 DEF EncoderStep
  <2>3. QED
    BY <1>1, <2>1, <2>2 DEF HeadsetRest
<1>6. QED
  BY <1>3, <1>4, <1>5

LEMMA SubscriberRest ==
  ASSUME HeadsetInv, HeadsetRest,
         EvtStreaming \/ Start \/ Streaming \/ EvtNotStreaming \/ Stop \/ EvtConfigReceived \/ EvtPresDelaySet
  PROVE  HeadsetRest'
<1>1. UNCHANGED <<cap_tx_stream, audio_q_rx>>
  BY DEF EvtStreaming, Start, Streaming, EvtNotStreaming, Stop, EvtConfigReceived, EvtPresDelaySet, Got, Doing,
         Subscriber, encoderVars
<1>2. \/ UNCHANGED le_audio_q
      \/ \E event : Got(event)
  BY DEF EvtStreaming, Start, Streaming, EvtNotStreaming, Stop, EvtConfigReceived, EvtPresDelaySet, Doing
<1>3. Len(le_audio_q') <= HsMessages
  <2>1. ASSUME NEW event, Got(event) PROVE Len(le_audio_q) \in Nat /\ Len(le_audio_q') = Len(le_audio_q) - 1
    BY <2>1, GotMessage DEF HeadsetInv
  <2>2. QED
    BY <1>2, <2>1, HeadsetAssumption DEF HeadsetRest, HeadsetAssumption
<1>4. encoder_sig' \in BOOLEAN
  BY DEF EvtStreaming, Start, Streaming, EvtNotStreaming, Stop, EvtConfigReceived, EvtPresDelaySet, HeadsetRest,
         encoderVars
<1>5. encoder' \in {encoder, [encoder EXCEPT !.at = "poll"]}
  BY DEF EvtStreaming, Start, Streaming, EvtNotStreaming, Stop, EvtConfigReceived, EvtPresDelaySet, AudioSystemStart,
         encoderVars
<1>6. hs_fault' \in {hs_fault, "start", "stop"}
  BY DEF EvtStreaming, Start, Streaming, EvtNotStreaming, Stop, EvtConfigReceived, EvtPresDelaySet, AudioSystemStart,
         AudioSystemStop, Fault
<1>7. encoder' \in [at : {"none", "poll", "collect"}, got : 0..(FrameBlocks - 1)]
  BY <1>5 DEF HeadsetRest
<1>8. QED
  BY <1>1, <1>3, <1>4, <1>6, <1>7 DEF HeadsetRest

LEMMA HeadsetRestStep == ASSUME HeadsetInv, HeadsetRest, HeadsetNext PROVE HeadsetRest'
  BY HeadsetCallbackRest, EncoderRest, SubscriberRest DEF HeadsetNext

LEMMA HeadsetTypes == ASSUME HeadsetInv, HeadsetRest PROVE HeadsetTypeOK
  BY DEF HeadsetInv, HsTypes, HeadsetRest, HeadsetTypeOK

\* The inductive invariant of the datapath's types: the counter is bounded by what it counts.
DatapathInv ==
    /\ DatapathTypeOK
    /\ pres.state = "WAIT" => pres.ctr <= Waits + 1
    /\ pres.state = "MEAS" => pres.ctr <= DataPts

PresComp == [state : {"INIT", "MEAS", "WAIT", "LOCKED"}, ctr : 0..(Waits + 2) \cup 0..DataPts, sum : Int,
             delay : PresDelays]
Ages == [1..FifoBlks -> (-BlksInFrame)..AgeCap]

LEMMA Remainder == ASSUME NEW a \in Int, NEW d \in Nat \ {0} PROVE a % d \in 0..(d - 1)
  OBVIOUS

LEMMA Quotient == ASSUME NEW a \in Nat, NEW d \in Nat \ {0} PROVE a \div d \in Nat
  OBVIOUS

LEMMA Half == ASSUME NEW a \in Nat PROVE a \div 2 \in Nat /\ 2 * (a \div 2) <= a
  OBVIOUS

LEMMA DatapathSizes ==
  /\ FifoBlks \in Nat /\ FifoBlks >= 4 /\ BlksInFrame \in Nat \ {0} /\ BlksInFrame >= 2 /\ DataPts \in Nat \ {0}
  /\ PresDelays \subseteq Nat /\ AgeCap = FifoBlks + 2 /\ Waits \in Nat
<1>1. PICK p \in PresDelays : 2 <= p /\ 2 * p <= FifoBlks
  BY AudioDatapathAssumption DEF AudioDatapathAssumption
<1>2. /\ FifoBlks \in Nat /\ BlksInFrame \in Nat \ {0} /\ BlksInFrame >= 2 /\ DataPts \in Nat \ {0}
      /\ PresDelays \subseteq Nat
  BY AudioDatapathAssumption DEF AudioDatapathAssumption
<1>3. QED
  BY <1>1, <1>2, Quotient DEF AgeCap, Waits

\* The state of the compensation with its counter and its sum at 0.
CompReset(p, s) == [p EXCEPT !.state = s, !.ctr = 0, !.sum = 0]

LEMMA CompIsReset ==
  ASSUME NEW p \in PresComp, NEW s \in {"INIT", "MEAS", "WAIT", "LOCKED"}
  PROVE  /\ CompReset(p, s) \in PresComp /\ CompReset(p, s).state = s /\ CompReset(p, s).ctr = 0
         /\ CompReset(p, s).sum = 0 /\ CompReset(p, s).delay = p.delay
<1>1. 0 \in 0..(Waits + 2) \cup 0..DataPts /\ p.delay \in PresDelays
  BY DatapathSizes DEF PresComp
<1>2. PICK q : q = [p EXCEPT !.state = s, !.ctr = 0]
  OBVIOUS
<1>3. q \in PresComp /\ q.state = s /\ q.ctr = 0 /\ q.delay = p.delay
  BY <1>1, <1>2 DEF PresComp
<1>4. PICK r : r = [q EXCEPT !.sum = 0]
  OBVIOUS
<1>5. r \in PresComp /\ r.state = s /\ r.ctr = 0 /\ r.sum = 0 /\ r.delay = p.delay
  BY <1>3, <1>4 DEF PresComp
<1>6. r = CompReset(p, s)
  BY <1>2, <1>4 DEF CompReset
<1>7. QED
  BY <1>5, <1>6

\* A block inserted or taken away is one of at most half of the FIFO.
LEMMA AdjustedBlocks ==
  ASSUME NEW sum \in Int
  PROVE  /\ PresAdjBlks(sum) \in Int /\ 2 * PresAdjBlks(sum) <= FifoBlks
         /\ -FifoBlks <= 2 * PresAdjBlks(sum)
<1>1. PICK h : h = FifoBlks \div 2
  OBVIOUS
<1>2. h \in Nat /\ 2 * h <= FifoBlks
  BY <1>1, DatapathSizes, Half
<1>3. PICK s : s = Sign(sum)
  OBVIOUS
<1>4. s \in {-1, 1} /\ (2 * s * sum) \in Nat
  BY <1>3 DEF Sign
<1>5. PICK b : b = ((2 * s * sum) + DataPts) \div (2 * DataPts)
  OBVIOUS
<1>6. b \in Nat
  <2>1. (2 * s * sum) + DataPts \in Nat /\ 2 * DataPts \in Nat \ {0}
    BY <1>4, DatapathSizes
  <2>2. QED
    BY <1>5, <2>1, Quotient
<1>7. PresAdjBlks(sum) = s * (IF b > h THEN h ELSE b)
  BY <1>1, <1>3, <1>5 DEF PresAdjBlks
<1>8. PICK m : m = IF b > h THEN h ELSE b
  OBVIOUS
<1>9. m \in Nat /\ m <= h
  BY <1>2, <1>6, <1>8
<1>10. PresAdjBlks(sum) = s * m
  BY <1>7, <1>8
<1>11. PresAdjBlks(sum) = m \/ PresAdjBlks(sum) = -m
  BY <1>4, <1>9, <1>10
<1>12. QED
  BY <1>2, <1>9, <1>11, DatapathSizes

LEMMA OutFields ==
  ASSUME NEW o, o \in [age : Ages, prod : 0..(FifoBlks - 1)]
  PROVE  /\ o.age \in Ages /\ o.prod \in 0..(FifoBlks - 1)
         /\ \A j \in 1..FifoBlks : o.age[j] \in (-BlksInFrame)..AgeCap
         /\ \A j \in 1..FifoBlks : Capped(o.age[j] + 1) \in (-BlksInFrame)..AgeCap
<1>1. o.age \in Ages /\ o.prod \in 0..(FifoBlks - 1)
  OBVIOUS
<1>2. \A j \in 1..FifoBlks : o.age[j] \in (-BlksInFrame)..AgeCap
  BY <1>1 DEF Ages
<1>3. ASSUME NEW a \in (-BlksInFrame)..AgeCap PROVE Capped(a + 1) \in (-BlksInFrame)..AgeCap
  BY DatapathSizes DEF Capped
<1>4. QED
  BY <1>1, <1>2, <1>3

LEMMA OlderAges == ASSUME DatapathTypeOK, NEW n \in {0, 1} PROVE Older(n) \in Ages
<1>1. ASSUME NEW j \in 1..FifoBlks
      PROVE  Capped(out.age[1 + ((j - 1 + n) % FifoBlks)] + 1) \in (-BlksInFrame)..AgeCap
  <2>1. (j - 1 + n) % FifoBlks \in 0..(FifoBlks - 1)
    BY DatapathSizes, Remainder
  <2>2. PICK k : k = 1 + ((j - 1 + n) % FifoBlks)
    OBVIOUS
  <2>3. k \in 1..FifoBlks
    BY <2>1, <2>2, DatapathSizes
  <2>4. QED
    BY <2>2, <2>3, OutFields DEF DatapathTypeOK, Ages
<1>2. QED
  BY <1>1 DEF Older, Ages

LEMMA SilenceTyped == Silence \in [age : Ages, prod : 0..(FifoBlks - 1)]
  BY DatapathSizes DEF Silence, Ages

\* What the two buffers may be.
I2sBuffers == AltBuffers \cup {"fifo"}
LEMMA TwoBuffers == ASSUME NEW a \in I2sBuffers, NEW b \in I2sBuffers
                    PROVE <<a, b>> \in Seq(I2sBuffers) /\ Len(<<a, b>>) = 2
  OBVIOUS

LEMMA MeasuredOrNot == Measured \in BOOLEAN
  BY DEF Measured

LEMMA BlkCompleteInv == ASSUME DatapathInv, BlkComplete PROVE DatapathInv'
<1>1. DatapathTypeOK /\ UNCHANGED <<dp_started, pres>>
  BY DEF DatapathInv, BlkComplete
<1>2. tx[2] \in I2sBuffers
  <2>1. tx \in Seq(I2sBuffers) /\ Len(tx) = 2
    BY <1>1 DEF DatapathTypeOK, I2sBuffers
  <2>2. \A i \in 1..2 : tx[i] \in I2sBuffers
    <3>1. PICK q : q = tx
      OBVIOUS
    <3>2. q \in Seq(I2sBuffers) /\ Len(q) = 2
      BY <2>1, <3>1
    <3>3. \A i \in 1..2 : q[i] \in I2sBuffers
      BY <3>2, QueueFacts
    <3>4. QED
      BY <3>1, <3>3
  <2>3. QED
    BY <2>2
<1>3. tx' \in Seq(I2sBuffers) /\ Len(tx') = 2
  <2>1. tx' = tx \/ \E b \in I2sBuffers : tx' = <<tx[2], b>>
    BY DEF BlkComplete, I2sBuffers, AltBuffers
  <2>2. CASE tx' = tx
    BY <1>1, <2>2 DEF DatapathTypeOK, I2sBuffers
  <2>3. ASSUME NEW b \in I2sBuffers, tx' = <<tx[2], b>> PROVE tx' \in Seq(I2sBuffers) /\ Len(tx') = 2
    BY <1>2, <2>3, TwoBuffers
  <2>4. QED
    BY <2>1, <2>2, <2>3
<1>4. out \in [age : Ages, prod : 0..(FifoBlks - 1)] /\ 1 \in 1..FifoBlks
  BY <1>1, DatapathSizes DEF DatapathTypeOK, Ages
<1>5. current_pres_dly' \in (-BlksInFrame)..AgeCap
  BY <1>4, OutFields DEF BlkComplete
<1>6. out' \in [age : Ages, prod : 0..(FifoBlks - 1)]
  <2>1. Older(0) \in Ages /\ Older(1) \in Ages
    BY <1>1, OlderAges
  <2>2. out' = [out EXCEPT !.age = Older(0)] \/ out' = [age |-> Older(1), prod |-> (out.prod - 1 + FifoBlks) % FifoBlks]
    BY DEF BlkComplete
  <2>3. (out.prod - 1 + FifoBlks) % FifoBlks \in 0..(FifoBlks - 1)
    <3>1. out.prod - 1 + FifoBlks \in Int /\ FifoBlks \in Nat \ {0}
      BY <1>4, DatapathSizes
    <3>2. QED
      BY <3>1, Remainder
  <2>4. QED
    BY <1>4, <2>1, <2>2, <2>3
<1>7. sdu' \in [phase : 0..(BlksInFrame - 1), frame : {"none", "received", "decode"}, late : 0..1] /\ prev_ref' \in 0..3
  <2>1. NextBlock
    BY DEF BlkComplete
  <2>2. sdu \in [phase : 0..(BlksInFrame - 1), frame : {"none", "received", "decode"}, late : 0..1] /\ prev_ref \in 0..3
    BY <1>1 DEF DatapathTypeOK
  <2>3. prev_ref' \in 0..3
    BY <2>1, <2>2 DEF NextBlock
  <2>4. CASE sdu.phase + 1 < BlksInFrame
    <3>1. PICK k : k = sdu.phase + 1
      OBVIOUS
    <3>2. sdu' = [sdu EXCEPT !.phase = k, !.late = 1]
      BY <2>1, <2>4, <3>1 DEF NextBlock
    <3>3. k \in 0..(BlksInFrame - 1)
      BY <2>2, <2>4, <3>1, DatapathSizes
    <3>4. PICK one \in 0..1 : one = 1
      OBVIOUS
    <3>5. sdu' = [sdu EXCEPT !.phase = k, !.late = one]
      BY <3>2, <3>4
    <3>6. sdu' \in [phase : 0..(BlksInFrame - 1), frame : {"none", "received", "decode"}, late : 0..1]
      BY <2>2, <3>3, <3>5
    <3>7. QED
      BY <2>3, <3>6
  <2>5. CASE ~(sdu.phase + 1 < BlksInFrame)
    BY <2>1, <2>2, <2>5, DatapathSizes DEF NextBlock
  <2>6. QED
    BY <2>3, <2>4, <2>5
<1>8. drift_state' \in {"INIT", "CALIB", "OFFSET", "LOCKED"}
  BY DEF BlkComplete
<1>9. dp_off' \in BOOLEAN /\ dp_fault' \in BOOLEAN
  <2>1. dp_off \in BOOLEAN /\ dp_fault \in BOOLEAN
    BY <1>1 DEF DatapathTypeOK
  <2>2. /\ dp_off' = Measured \/ UNCHANGED dp_off
        /\ dp_fault' = (AltBufferFree = {}) \/ UNCHANGED dp_fault
    BY DEF BlkComplete
  <2>3. dp_off' \in BOOLEAN
    BY <2>1, <2>2, MeasuredOrNot
  <2>4. dp_fault' \in BOOLEAN
    BY <2>1, <2>2
  <2>5. QED
    BY <2>3, <2>4
<1>10. QED
  BY <1>1, <1>3, <1>5, <1>6, <1>7, <1>8, <1>9 DEF DatapathInv, DatapathTypeOK, Ages, I2sBuffers

\* The compensation counts up to where it goes on, and what it inserts is new.
LEMMA AdjustedTyped ==
  ASSUME DatapathTypeOK, NEW sum \in Int
  PROVE  Adjusted(PresAdjBlks(sum)) \in [age : Ages, prod : 0..(FifoBlks - 1)]
<1>1. PICK blks : blks = PresAdjBlks(sum)
  OBVIOUS
<1>2. blks \in Int /\ 2 * blks <= FifoBlks /\ -FifoBlks <= 2 * blks
  BY <1>1, AdjustedBlocks
<1>3. out.prod \in 0..(FifoBlks - 1) /\ out.age \in Ages /\ sdu.late \in 0..1
  BY DEF DatapathTypeOK, Ages
<1>4. (out.prod + blks + FifoBlks) % FifoBlks \in 0..(FifoBlks - 1)
  <2>1. out.prod + blks + FifoBlks \in Int /\ FifoBlks \in Nat \ {0}
    BY <1>2, <1>3, DatapathSizes
  <2>2. QED
    BY <2>1, Remainder
<1>5. ASSUME NEW j \in 1..FifoBlks
      PROVE  (IF blks > 0 /\ (j - 1 - out.prod + FifoBlks) % FifoBlks < blks
              THEN sdu.late + blks - ((j - 1 - out.prod + FifoBlks) % FifoBlks) ELSE out.age[j])
             \in (-BlksInFrame)..AgeCap
  <2>1. j - 1 - out.prod + FifoBlks \in Int /\ FifoBlks \in Nat \ {0}
    BY <1>3, DatapathSizes
  <2>2. PICK r : r = (j - 1 - out.prod + FifoBlks) % FifoBlks
    OBVIOUS
  <2>3. r \in 0..(FifoBlks - 1)
    BY <2>1, <2>2, Remainder
  <2>4. out.age[j] \in (-BlksInFrame)..AgeCap
    BY <1>3 DEF Ages
  <2>5. r < blks => sdu.late + blks - r \in (-BlksInFrame)..AgeCap
    BY <1>2, <1>3, <2>3, DatapathSizes
  <2>6. QED
    BY <2>2, <2>4, <2>5
<1>6. QED
  BY <1>1, <1>4, <1>5 DEF Adjusted, Ages

LEMMA CompensationInv ==
  ASSUME DatapathInv, PresCompensation
  PROVE  /\ pres' \in PresComp /\ out' \in [age : Ages, prod : 0..(FifoBlks - 1)] /\ dp_off' \in BOOLEAN
         /\ pres'.state = "WAIT" => pres'.ctr <= Waits + 1
         /\ pres'.state = "MEAS" => pres'.ctr <= DataPts
<1>1. /\ pres \in PresComp /\ out \in [age : Ages, prod : 0..(FifoBlks - 1)] /\ dp_off \in BOOLEAN
      /\ pres.state = "WAIT" => pres.ctr <= Waits + 1
      /\ pres.state = "MEAS" => pres.ctr <= DataPts
  BY DEF DatapathInv, DatapathTypeOK, PresComp, Ages
<1>2. PICK p : p = PresCompRestarted
  OBVIOUS
<1>3. /\ p \in PresComp
      /\ p.state = "WAIT" => p.ctr <= Waits + 1
      /\ p.state = "MEAS" => p.ctr <= DataPts
  <2>1. p = pres \/ p = CompReset(pres, "WAIT")
    BY <1>2 DEF PresCompRestarted, CompReset
  <2>2. 0 \in 0..(Waits + 2) /\ 0 <= Waits + 1
    BY DatapathSizes
  <2>3. CASE p = CompReset(pres, "WAIT")
    BY <1>1, <2>2, <2>3, CompIsReset
  <2>4. QED
    BY <1>1, <2>1, <2>3
<1>5. /\ 0 \in 0..(Waits + 2) /\ p.ctr \in Nat /\ p.sum \in Int /\ pres.delay \in Nat /\ current_pres_dly \in Int
      /\ p.state \in {"INIT", "MEAS", "WAIT", "LOCKED"}
  <2>1. p.ctr \in 0..(Waits + 2) \cup 0..DataPts /\ p.sum \in Int /\ p.state \in {"INIT", "MEAS", "WAIT", "LOCKED"}
    BY <1>3 DEF PresComp
  <2>2. pres.delay \in PresDelays
    BY <1>1 DEF PresComp
  <2>3. current_pres_dly \in Int
    BY DatapathSizes DEF DatapathInv, DatapathTypeOK
  <2>4. p.ctr \in Nat /\ 0 \in 0..(Waits + 2)
    BY <2>1, DatapathSizes
  <2>5. QED
    BY <2>1, <2>2, <2>3, <2>4, DatapathSizes
<1>6. CASE drift_state # "LOCKED"
  <2>1. pres' = CompReset(pres, "INIT") /\ UNCHANGED <<out, dp_off>>
    BY <1>6 DEF PresCompensation, CompReset
  <2>2. pres' \in PresComp /\ pres'.state = "INIT" /\ pres'.ctr = 0
    BY <1>1, <2>1, CompIsReset
  <2>3. QED
    BY <1>1, <2>1, <2>2
<1>7. CASE drift_state = "LOCKED" /\ p.state = "INIT"
  <2>1. pres' = [p EXCEPT !.state = "MEAS", !.ctr = 0, !.sum = 0] /\ dp_off' = ~InStep /\ UNCHANGED out
    BY <1>2, <1>7 DEF PresCompensation
  <2>2. pres' \in PresComp /\ pres'.state = "MEAS" /\ pres'.ctr = 0
    <3>1. PICK c : c = 0
      OBVIOUS
    <3>2. c \in 0..(Waits + 2) \cup 0..DataPts /\ c \in Int
      BY <1>5, <3>1
    <3>3. pres' = [p EXCEPT !.state = "MEAS", !.ctr = c, !.sum = c]
      BY <2>1, <3>1
    <3>4. pres' \in PresComp /\ pres'.state = "MEAS" /\ pres'.ctr = c
      BY <1>3, <3>2, <3>3 DEF PresComp
    <3>5. QED
      BY <3>1, <3>4
  <2>3. dp_off' \in BOOLEAN
    BY <2>1 DEF InStep
  <2>4. QED
    BY <1>1, <2>1, <2>2, <2>3, DatapathSizes
<1>8. CASE drift_state = "LOCKED" /\ p.state = "MEAS" /\ p.ctr < DataPts
  <2>1. pres' = [p EXCEPT !.ctr = p.ctr + 1, !.sum = p.sum + (pres.delay - current_pres_dly)] /\ UNCHANGED <<out, dp_off>>
    <3>1. p.ctr # DataPts
      BY <1>5, <1>8, DatapathSizes
    <3>2. QED
      BY <1>2, <1>8, <3>1 DEF PresCompensation
  <2>2. p.ctr + 1 \in 0..DataPts /\ p.sum + (pres.delay - current_pres_dly) \in Int
    BY <1>5, <1>8, DatapathSizes
  <2>3. pres' \in PresComp /\ pres'.state = "MEAS" /\ pres'.ctr = p.ctr + 1
    BY <1>3, <1>8, <2>1, <2>2 DEF PresComp
  <2>4. QED
    BY <1>1, <2>1, <2>2, <2>3, DatapathSizes
<1>9. CASE drift_state = "LOCKED" /\ p.state = "MEAS" /\ p.ctr = DataPts
  <2>1. PICK blks : blks = PresAdjBlks(p.sum)
    OBVIOUS
  <2>2. /\ pres' = [p EXCEPT !.state = IF blks = 0 THEN "LOCKED" ELSE "WAIT", !.ctr = 0, !.sum = 0]
        /\ out' = Adjusted(blks) /\ UNCHANGED dp_off
    <3>1. ~(p.ctr < DataPts)
      BY <1>9, DatapathSizes
    <3>2. QED
      BY <1>2, <1>9, <2>1, <3>1 DEF PresCompensation
  <2>3. out' \in [age : Ages, prod : 0..(FifoBlks - 1)]
    BY <1>5, <2>1, <2>2, AdjustedTyped DEF DatapathInv
  <2>4. pres' \in PresComp /\ pres'.state \in {"LOCKED", "WAIT"} /\ pres'.ctr = 0
    <3>1. PICK s \in {"LOCKED", "WAIT"} : pres' = CompReset(p, s)
      BY <2>2 DEF CompReset
    <3>2. QED
      BY <1>3, <3>1, CompIsReset
  <2>5. QED
    BY <1>1, <2>2, <2>3, <2>4, DatapathSizes
<1>10. CASE drift_state = "LOCKED" /\ p.state = "WAIT"
  <2>1. /\ pres' = [p EXCEPT !.ctr = p.ctr + 1, !.state = IF p.ctr > Waits THEN "INIT" ELSE "WAIT"]
        /\ UNCHANGED <<out, dp_off>>
    BY <1>2, <1>10 DEF PresCompensation
  <2>2. p.ctr + 1 \in 0..(Waits + 2)
    BY <1>3, <1>5, <1>10, DatapathSizes
  <2>3. /\ pres' \in PresComp /\ pres'.ctr = p.ctr + 1 /\ pres'.state = IF p.ctr > Waits THEN "INIT" ELSE "WAIT"
    <3>1. PICK s \in {"INIT", "WAIT"} : s = IF p.ctr > Waits THEN "INIT" ELSE "WAIT"
      BY Zenon
    <3>2. PICK c \in 0..(Waits + 2) : c = p.ctr + 1
      BY <2>2
    <3>3. pres' = [p EXCEPT !.ctr = c, !.state = s]
      BY <2>1, <3>1, <3>2
    <3>4. pres' \in PresComp /\ pres'.ctr = c /\ pres'.state = s
      BY <1>3, <3>3 DEF PresComp
    <3>5. QED
      BY <3>1, <3>2, <3>4
  <2>4. QED
    BY <1>1, <1>5, <2>1, <2>3, DatapathSizes
<1>11. CASE drift_state = "LOCKED" /\ p.state = "LOCKED"
  <2>1. pres' = p /\ UNCHANGED <<out, dp_off>>
    BY <1>2, <1>11 DEF PresCompensation
  <2>2. QED
    BY <1>1, <1>3, <2>1
<1>12. QED
  BY <1>3, <1>5, <1>6, <1>7, <1>8, <1>9, <1>10, <1>11, DatapathSizes

LEMMA StreamOutInv == ASSUME DatapathInv, StreamOut PROVE DatapathInv'
<1>1. UNCHANGED <<dp_started, tx, drift_state, current_pres_dly, dp_fault>>
  BY DEF StreamOut
<1>2. /\ sdu' \in [phase : 0..(BlksInFrame - 1), frame : {"none", "received", "decode"}, late : 0..1]
      /\ prev_ref' \in 0..3
  BY DEF StreamOut, DatapathInv, DatapathTypeOK
<1>3. /\ pres' \in PresComp /\ out' \in [age : Ages, prod : 0..(FifoBlks - 1)] /\ dp_off' \in BOOLEAN
      /\ pres'.state = "WAIT" => pres'.ctr <= Waits + 1
      /\ pres'.state = "MEAS" => pres'.ctr <= DataPts
  <2>1. CASE dp_started
    BY <2>1, CompensationInv DEF StreamOut
  <2>2. CASE ~dp_started
    BY <2>2 DEF StreamOut, DatapathInv, DatapathTypeOK, PresComp, Ages
  <2>3. QED
    BY <2>1, <2>2
<1>4. QED
  BY <1>1, <1>2, <1>3 DEF DatapathInv, DatapathTypeOK, PresComp, Ages

LEMMA AddFrameInv == ASSUME DatapathInv, AddFrame PROVE DatapathInv'
<1>1. /\ UNCHANGED <<dp_started, tx, prev_ref, drift_state, pres, current_pres_dly, dp_fault>>
      /\ dp_off' \in BOOLEAN
  <2>1. dp_off' = Measured \/ UNCHANGED dp_off
    BY DEF AddFrame
  <2>2. dp_off' \in BOOLEAN
    BY <2>1, MeasuredOrNot DEF DatapathInv, DatapathTypeOK
  <2>3. QED
    BY <2>2 DEF AddFrame
<1>2. sdu' \in [phase : 0..(BlksInFrame - 1), frame : {"none", "received", "decode"}, late : 0..1]
  BY DEF AddFrame, DatapathInv, DatapathTypeOK
<1>3. out' \in [age : Ages, prod : 0..(FifoBlks - 1)]
  <2>1. CASE UNCHANGED out
    BY <2>1 DEF DatapathInv, DatapathTypeOK, Ages
  <2>2. CASE out' # out
    <3>1. out.prod \in 0..(FifoBlks - 1) /\ out.age \in Ages /\ sdu.late \in 0..1
      BY DEF DatapathInv, DatapathTypeOK, Ages
    <3>2. (out.prod + BlksInFrame) % FifoBlks \in 0..(FifoBlks - 1)
      <4>1. out.prod + BlksInFrame \in Int /\ FifoBlks \in Nat \ {0}
        BY <3>1, DatapathSizes
      <4>2. QED
        BY <4>1, Remainder
    <3>3. ASSUME NEW j \in 1..FifoBlks
          PROVE  (IF j - 1 \in out.prod..(out.prod + BlksInFrame - 1)
                  THEN sdu.late - (j - 1 - out.prod) ELSE out.age[j]) \in (-BlksInFrame)..AgeCap
      <4>1. out.age[j] \in (-BlksInFrame)..AgeCap
        BY <3>1 DEF Ages
      <4>2. j - 1 \in out.prod..(out.prod + BlksInFrame - 1) =>
                sdu.late - (j - 1 - out.prod) \in (-BlksInFrame)..AgeCap
        BY <3>1, DatapathSizes
      <4>3. QED
        BY <4>1, <4>2
    <3>4. QED
      BY <2>2, <3>2, <3>3 DEF AddFrame, Ages
  <2>3. QED
    BY <2>1, <2>2
<1>4. QED
  BY <1>1, <1>2, <1>3 DEF DatapathInv, DatapathTypeOK, Ages

LEMMA DatapathOwnInv ==
  ASSUME DatapathInv, DatapathStart \/ DatapathStop \/ \E d \in PresDelays : PresDelaySet(d) PROVE DatapathInv'
<1>1. \A a, b : a = "fifo" /\ b = "fifo" => <<a, b>> \in Seq(I2sBuffers) /\ Len(<<a, b>>) = 2
  BY TwoBuffers DEF I2sBuffers
<1>2. CASE DatapathStart
  BY <1>1, <1>2, SilenceTyped DEF DatapathStart, DatapathInv, DatapathTypeOK, Ages, I2sBuffers
<1>3. CASE DatapathStop
  <2>1. tx' \in Seq(I2sBuffers) /\ Len(tx') = 2
    BY <1>1, <1>3 DEF DatapathStop
  <2>2. pres' \in PresComp /\ pres'.state = "INIT"
    <3>1. pres \in PresComp /\ pres' = CompReset(pres, "INIT")
      BY <1>3 DEF DatapathStop, DatapathInv, DatapathTypeOK, PresComp, CompReset
    <3>2. QED
      BY <3>1, CompIsReset
  <2>3. UNCHANGED <<out, sdu, drift_state, current_pres_dly, dp_off, dp_fault>> /\ dp_started' = FALSE /\ prev_ref' = 0
    BY <1>3 DEF DatapathStop
  <2>0. dp_started' \in BOOLEAN /\ dp_off' \in BOOLEAN /\ dp_fault' \in BOOLEAN
    BY <2>3, Zenon DEF DatapathInv, DatapathTypeOK
  <2>4. /\ prev_ref' \in 0..3
        /\ out' \in [age : Ages, prod : 0..(FifoBlks - 1)]
        /\ sdu' \in [phase : 0..(BlksInFrame - 1), frame : {"none", "received", "decode"}, late : 0..1]
        /\ drift_state' \in {"INIT", "CALIB", "OFFSET", "LOCKED"} /\ current_pres_dly' \in (-BlksInFrame)..AgeCap
    BY <2>3 DEF DatapathInv, DatapathTypeOK, Ages
  <2>5. ~(pres'.state = "WAIT") /\ ~(pres'.state = "MEAS")
    BY <2>2
  <2>6. QED
    BY <2>0, <2>1, <2>2, <2>4, <2>5, Zenon DEF DatapathInv, DatapathTypeOK, Ages, I2sBuffers, PresComp
<1>4. ASSUME NEW d \in PresDelays, PresDelaySet(d) PROVE DatapathInv'
  BY <1>4 DEF PresDelaySet, DatapathInv, DatapathTypeOK, Measured
<1>5. QED
  BY <1>2, <1>3, <1>4

LEMMA DatapathStep == ASSUME DatapathInv, DatapathNext PROVE DatapathInv'
  BY BlkCompleteInv, StreamOutInv, AddFrameInv, DatapathOwnInv DEF DatapathNext

LEMMA DatapathInitInv == ASSUME DatapathInit PROVE DatapathInv
<1>1. PICK d \in PresDelays : pres = [state |-> "INIT", ctr |-> 0, sum |-> 0, delay |-> d]
  BY DEF DatapathInit
<1>2. pres \in PresComp /\ pres.state = "INIT"
  BY <1>1, DatapathSizes DEF PresComp
<1>3. tx \in Seq(I2sBuffers) /\ Len(tx) = 2
  BY TwoBuffers DEF DatapathInit, I2sBuffers
<1>4. QED
  <2>1. out \in [age : Ages, prod : 0..(FifoBlks - 1)]
    BY SilenceTyped DEF DatapathInit
  <2>2. sdu \in [phase : 0..(BlksInFrame - 1), frame : {"none", "received", "decode"}, late : 0..1]
    BY DatapathSizes DEF DatapathInit
  <2>3. current_pres_dly \in (-BlksInFrame)..AgeCap
    BY DatapathSizes DEF DatapathInit
  <2>4. dp_started = FALSE /\ dp_off = FALSE /\ dp_fault = FALSE /\ prev_ref = 0 /\ drift_state = "INIT"
    BY DEF DatapathInit
  <2>0. dp_started \in BOOLEAN /\ dp_off \in BOOLEAN /\ dp_fault \in BOOLEAN
    BY <2>4, Zenon
  <2>5. /\ prev_ref \in 0..3
        /\ drift_state \in {"INIT", "CALIB", "OFFSET", "LOCKED"}
    BY <2>4
  <2>6. ~(pres.state = "WAIT") /\ ~(pres.state = "MEAS")
    BY <1>2
  <2>7. QED
    BY <1>2, <1>3, <2>0, <2>1, <2>2, <2>3, <2>5, <2>6, Zenon DEF DatapathInv, DatapathTypeOK, PresComp, Ages, I2sBuffers

\* What is in the FIFO: an index that has come round to the consumer's is that of a full one.
Filled == IF out.prod = 0 THEN FifoBlks ELSE out.prod

\* A frame is handled in the block of its arrival or the next, after the frame before it.
FramesHandled ==
    /\ ~dp_started => pres.state = "INIT"
    /\ sdu.frame # "none" => sdu.phase = sdu.late
    /\ sdu.phase = 0 => sdu.late = 0
    /\ sdu.frame = "received" => prev_ref \in {0, 2, 3}
    /\ sdu.frame = "decode" => prev_ref = 1

\* A frame that follows the last one is at hand.
Follows == sdu.frame = "decode" \/ (sdu.frame = "received" /\ prev_ref = 2)

\* From an even start of a measurement until something disturbs the FIFO, the delay is steady.
Steady ==
    Measured /\ ~dp_off =>
        /\ \A j \in 1..Filled : out.age[j] = current_pres_dly - j
        /\ Follows => out.prod # 0 /\ out.prod + 1 + sdu.late = current_pres_dly
        /\ sdu.frame = "none" /\ prev_ref = 1 => Filled = current_pres_dly - 1 - sdu.phase + BlksInFrame
        /\ pres.state = "MEAS" => pres.sum = pres.ctr * (pres.delay - current_pres_dly)
        /\ pres.state = "LOCKED" => pres.delay = current_pres_dly

LEMMA DatapathFields ==
  ASSUME DatapathTypeOK
  PROVE  /\ out \in [age : Ages, prod : 0..(FifoBlks - 1)] /\ out.prod \in 0..(FifoBlks - 1)
         /\ \A j \in 1..FifoBlks : out.age[j] \in Int /\ out.age[j] <= AgeCap
         /\ sdu \in [phase : 0..(BlksInFrame - 1), frame : {"none", "received", "decode"}, late : 0..1]
         /\ sdu.phase \in 0..(BlksInFrame - 1) /\ sdu.late \in 0..1 /\ sdu.frame \in {"none", "received", "decode"}
         /\ pres \in PresComp /\ pres.ctr \in Nat /\ pres.sum \in Int /\ pres.delay \in Nat
         /\ current_pres_dly \in Int /\ current_pres_dly <= AgeCap
         /\ Filled \in 1..FifoBlks
<1>1. /\ out \in [age : Ages, prod : 0..(FifoBlks - 1)] /\ out.prod \in 0..(FifoBlks - 1) /\ out.age \in Ages
      /\ sdu \in [phase : 0..(BlksInFrame - 1), frame : {"none", "received", "decode"}, late : 0..1]
      /\ sdu.phase \in 0..(BlksInFrame - 1) /\ sdu.late \in 0..1 /\ sdu.frame \in {"none", "received", "decode"}
      /\ pres \in PresComp
  BY DEF DatapathTypeOK, Ages, PresComp
<1>2. \A j \in 1..FifoBlks : out.age[j] \in Int /\ out.age[j] <= AgeCap
  BY <1>1, DatapathSizes DEF Ages
<1>3. pres.ctr \in Nat /\ pres.sum \in Int /\ pres.delay \in Nat
  <2>1. pres.ctr \in 0..(Waits + 2) \cup 0..DataPts /\ pres.sum \in Int /\ pres.delay \in PresDelays
    BY <1>1 DEF PresComp
  <2>2. pres.ctr \in Nat /\ pres.sum \in Int
    BY <2>1, DatapathSizes
  <2>3. pres.delay \in Nat
    BY <2>1, DatapathSizes
  <2>4. QED
    BY <2>2, <2>3
<1>4. current_pres_dly \in Int /\ current_pres_dly <= AgeCap
  BY DatapathSizes DEF DatapathTypeOK
<1>5. Filled \in 1..FifoBlks
  BY <1>1, DatapathSizes DEF Filled
<1>6. QED
  BY <1>1, <1>2, <1>3, <1>4, <1>5

\* Of a frame in the interrupt: none is overtaken, and the one that is due follows.
LEMMA BlockOfFrame ==
  ASSUME DatapathTypeOK, FramesHandled, NextBlock, sdu.frame # "none" => sdu.late = 0
  PROVE  /\ sdu'.frame # "none" => sdu'.phase = sdu'.late
         /\ sdu'.phase = 0 => sdu'.late = 0
         /\ sdu'.frame = "received" => prev_ref' \in {0, 2, 3}
         /\ sdu'.frame = "decode" => prev_ref' = 1
         /\ \/ /\ sdu'.frame = sdu.frame /\ prev_ref' = prev_ref /\ sdu'.phase = sdu.phase + 1
               /\ sdu'.late = 1 /\ (sdu.frame # "none" => sdu.late = 0)
            \/ /\ sdu.frame = "none" /\ sdu.phase = BlksInFrame - 1 /\ sdu'.frame \in {"none", "received"}
               /\ sdu'.phase = 0 /\ sdu'.late = 0 /\ prev_ref' # 1 /\ (prev_ref' = 2 => prev_ref = 1)
<1>1. /\ sdu \in [phase : 0..(BlksInFrame - 1), frame : {"none", "received", "decode"}, late : 0..1]
      /\ sdu.phase \in 0..(BlksInFrame - 1) /\ sdu.late \in 0..1 /\ sdu.frame \in {"none", "received", "decode"}
      /\ prev_ref \in 0..3
  BY DatapathFields DEF DatapathTypeOK
<1>2. CASE sdu.phase + 1 < BlksInFrame
  <2>1. PICK k : k = sdu.phase + 1
    OBVIOUS
  <2>2. sdu' = [sdu EXCEPT !.phase = k, !.late = 1] /\ UNCHANGED prev_ref
    BY <1>2, <2>1 DEF NextBlock
  <2>3. sdu'.phase = k /\ sdu'.late = 1 /\ sdu'.frame = sdu.frame
    BY <1>1, <2>2
  <2>4. k # 0 /\ (sdu.frame # "none" => k = 1)
    BY <1>1, <2>1 DEF FramesHandled
  <2>5. QED
    BY <1>1, <2>1, <2>2, <2>3, <2>4 DEF FramesHandled
<1>3. CASE ~(sdu.phase + 1 < BlksInFrame)
  <2>1. sdu.phase = BlksInFrame - 1 /\ sdu.frame = "none"
    BY <1>1, <1>3, DatapathSizes DEF FramesHandled
  <2>2. PICK f \in {"none", "received"} : sdu' = [phase |-> 0, frame |-> f, late |-> 0]
    BY <1>3 DEF NextBlock
  <2>3. prev_ref' = IF prev_ref \in {1, 2} THEN prev_ref + 1 ELSE prev_ref
    BY <1>3 DEF NextBlock
  <2>4. prev_ref' \in {0, 2, 3} /\ (prev_ref' = 2 => prev_ref = 1)
    BY <1>1, <2>3
  <2>5. QED
    BY <2>1, <2>2, <2>4
<1>4. QED
  BY <1>2, <1>3

LEMMA BlkCompleteSteady ==
  ASSUME DatapathTypeOK, FramesHandled, Steady, BlkComplete PROVE FramesHandled' /\ Steady'
<1>1. UNCHANGED <<dp_started, pres>> /\ dp_started /\ NextBlock /\ (sdu.frame # "none" => sdu.late = 0)
  BY DEF BlkComplete
<1>2. FramesHandled'
  BY <1>1, BlockOfFrame DEF FramesHandled
<1>3. ASSUME Underrun PROVE Steady'
  <2>1. dp_off' = Measured /\ (Measured' <=> Measured)
    BY <1>1, <1>3 DEF BlkComplete, Measured
  <2>2. ~(Measured' /\ ~dp_off')
    BY <2>1
  <2>3. QED
    BY <2>2 DEF Steady
<1>4. ASSUME ~Underrun, Measured, ~dp_off PROVE Steady'
  <2>1. /\ out' = [age |-> Older(1), prod |-> (out.prod - 1 + FifoBlks) % FifoBlks] /\ UNCHANGED dp_off
        /\ current_pres_dly' = Capped(out.age[1] + 1)
    BY <1>4 DEF BlkComplete
  <2>2. PICK n : n = Filled
    OBVIOUS
  <2>3. /\ n \in 1..FifoBlks /\ out.prod \in 0..(FifoBlks - 1) /\ current_pres_dly \in Int /\ current_pres_dly <= AgeCap
        /\ \A j \in 1..n : out.age[j] = current_pres_dly - j
    BY <1>4, <2>2, DatapathFields DEF Steady
  <2>4. n >= 2 /\ n - 1 = out'.prod /\ Filled' = n - 1
    <3>1. PICK q : q = (out.prod - 1 + FifoBlks) % FifoBlks
      OBVIOUS
    <3>2. out.prod # 1
      BY <1>4 DEF Underrun
    <3>3. CASE out.prod = 0
      <4>1. q = FifoBlks - 1
        BY <3>1, <3>3, DatapathSizes
      <4>2. QED
        BY <2>1, <2>2, <3>1, <3>3, <4>1, DatapathSizes DEF Filled
    <3>4. CASE out.prod # 0
      <4>1. q = out.prod - 1
        BY <2>3, <3>1, <3>2, <3>4, DatapathSizes
      <4>2. QED
        BY <2>1, <2>2, <2>3, <3>1, <3>2, <3>4, <4>1, DatapathSizes DEF Filled
    <3>5. QED
      BY <3>3, <3>4
  <2>5. current_pres_dly' = current_pres_dly
    <3>1. out.age[1] = current_pres_dly - 1
      BY <2>3
    <3>2. QED
      BY <2>1, <2>3, <3>1, DatapathSizes DEF Capped
  <2>6. \A j \in 1..(n - 1) : out'.age[j] = current_pres_dly - j
    <3>1. TAKE j \in 1..(n - 1)
    <3>2. (j - 1 + 1) % FifoBlks = j
      BY <2>3, DatapathSizes
    <3>3. j \in 1..FifoBlks /\ out'.age[j] = Capped(out.age[1 + ((j - 1 + 1) % FifoBlks)] + 1)
      BY <2>1, <2>3, DatapathSizes DEF Older
    <3>4. out'.age[j] = Capped(out.age[1 + j] + 1)
      BY <3>2, <3>3
    <3>5. out.age[1 + j] = current_pres_dly - (1 + j)
      BY <2>3
    <3>6. QED
      BY <2>3, <3>4, <3>5, DatapathSizes DEF Capped
  <2>7. /\ Follows' => out'.prod # 0 /\ out'.prod + 1 + sdu'.late = current_pres_dly
        /\ sdu'.frame = "none" /\ prev_ref' = 1 => n - 1 = current_pres_dly - 1 - sdu'.phase + BlksInFrame
    <3>1. CASE /\ sdu'.frame = sdu.frame /\ prev_ref' = prev_ref /\ sdu'.phase = sdu.phase + 1
               /\ sdu'.late = 1 /\ (sdu.frame # "none" => sdu.late = 0)
      <4>1. Follows' => Follows /\ sdu.frame # "none"
        BY <3>1 DEF Follows
      <4>2. Follows => out.prod # 0 /\ out.prod + 1 + sdu.late = current_pres_dly
        BY <1>4 DEF Steady
      <4>3. sdu.frame = "none" /\ prev_ref = 1 => n = current_pres_dly - 1 - sdu.phase + BlksInFrame
        BY <1>4, <2>2 DEF Steady
      <4>4. out.prod # 0 => n = out.prod
        BY <2>2 DEF Filled
      <4>5. sdu.phase \in Int
        BY DatapathFields, DatapathSizes
      <4>6. QED
        BY <2>3, <2>4, <3>1, <4>1, <4>2, <4>3, <4>4, <4>5, DatapathSizes
    <3>2. CASE /\ sdu.frame = "none" /\ sdu.phase = BlksInFrame - 1 /\ sdu'.frame \in {"none", "received"}
               /\ sdu'.phase = 0 /\ sdu'.late = 0 /\ prev_ref' # 1 /\ (prev_ref' = 2 => prev_ref = 1)
      <4>1. Follows' => prev_ref = 1
        BY <3>2 DEF Follows
      <4>2. prev_ref = 1 => n = current_pres_dly - 1 - sdu.phase + BlksInFrame
        BY <1>4, <2>2, <3>2 DEF Steady
      <4>3. QED
        BY <2>3, <2>4, <3>2, <4>1, <4>2, DatapathSizes
    <3>3. QED
      BY <1>1, <3>1, <3>2, BlockOfFrame
  <2>8. /\ pres'.state = "MEAS" => pres'.sum = pres'.ctr * (pres'.delay - current_pres_dly)
        /\ pres'.state = "LOCKED" => pres'.delay = current_pres_dly
    BY <1>1, <1>4 DEF Steady
  <2>9. QED
    BY <2>4, <2>5, <2>6, <2>7, <2>8 DEF Steady
<1>5. ASSUME ~Underrun, ~(Measured /\ ~dp_off) PROVE Steady'
  <2>1. dp_off' = dp_off /\ (Measured' <=> Measured)
    BY <1>1, <1>5 DEF BlkComplete, Measured
  <2>2. ~(Measured' /\ ~dp_off')
    BY <1>5, <2>1
  <2>3. QED
    BY <2>2 DEF Steady
<1>6. QED
  BY <1>2, <1>3, <1>4, <1>5

\* Equal errors whose mean is no block are none.
LEMMA MeanOfEqual ==
  ASSUME NEW e \in Int, PresAdjBlks(DataPts * e) = 0 PROVE e = 0
<1>1. SUFFICES ASSUME e # 0 PROVE FALSE
  OBVIOUS
<1>2. PICK d : d = DataPts
  OBVIOUS
<1>3. PICK a \in Nat \ {0} : a = IF e < 0 THEN -e ELSE e
  BY <1>1
<1>4. d \in Nat \ {0} /\ d * a \in Nat \ {0}
  BY <1>2, <1>3, DatapathSizes
<1>5. PICK m : m = d * e
  OBVIOUS
<1>6. m \in Int /\ Sign(m) * m = d * a /\ Sign(m) \in {-1, 1}
  <2>1. m = d * a \/ m = -(d * a)
    BY <1>3, <1>4, <1>5
  <2>2. e < 0 <=> m < 0
    <3>1. CASE e < 0
      BY <1>3, <1>4, <1>5, <3>1
    <3>2. CASE ~(e < 0)
      BY <1>3, <1>4, <1>5, <3>2
    <3>3. QED
      BY <3>1, <3>2
  <2>3. QED
    BY <1>4, <2>1 DEF Sign
<1>7. PICK s \in {-1, 1} : s = Sign(m)
  BY <1>6
<1>8. 2 * s * m = 2 * (d * a)
  BY <1>6, <1>7
<1>9. ((2 * s * m) + d) \div (2 * d) = a
  <2>1. PICK k \in Nat \ {0} : k = d * a
    BY <1>4
  <2>2. (2 * s * m) + d = (2 * d) * a + d
    BY <1>4, <1>8, <2>1
  <2>3. ((2 * d) * a + d) \div (2 * d) = a
    BY <1>4
  <2>4. QED
    BY <2>2, <2>3
<1>10. PICK h : h = FifoBlks \div 2
  OBVIOUS
<1>11. h \in Nat \ {0}
  BY <1>10, DatapathSizes
<1>12. PresAdjBlks(m) = s * (IF a > h THEN h ELSE a)
  BY <1>2, <1>7, <1>9, <1>10 DEF PresAdjBlks
<1>13. PICK b : b = IF a > h THEN h ELSE a
  OBVIOUS
<1>14. b \in Nat \ {0}
  BY <1>3, <1>11, <1>13
<1>15. s * b # 0
  BY <1>7, <1>14
<1>16. QED
  BY <1>2, <1>5, <1>12, <1>13, <1>15

\* An adjustment by no block leaves the FIFO as it is.
LEMMA NotAdjusted == ASSUME DatapathTypeOK PROVE Adjusted(0) = out
<1>1. out \in [age : Ages, prod : 0..(FifoBlks - 1)] /\ out.prod \in 0..(FifoBlks - 1) /\ out.age \in Ages
  BY DatapathFields
<1>2. (out.prod + 0 + FifoBlks) % FifoBlks = out.prod
  <2>1. PICK q \in 0..(FifoBlks - 1) : q = out.prod
    BY <1>1
  <2>2. (q + 0 + FifoBlks) % FifoBlks = q
    BY DatapathSizes
  <2>3. QED
    BY <2>1, <2>2
<1>3. Adjusted(0) = [age |-> [j \in 1..FifoBlks |-> out.age[j]], prod |-> out.prod]
  <2>1. PICK z \in Int : z = 0
    OBVIOUS
  <2>2. ~(z > 0)
    BY <2>1
  <2>3. Adjusted(z) = [age |-> [j \in 1..FifoBlks |-> out.age[j]], prod |-> (out.prod + z + FifoBlks) % FifoBlks]
    BY <2>2, Zenon DEF Adjusted
  <2>4. QED
    BY <1>2, <2>1, <2>3
<1>4. [j \in 1..FifoBlks |-> out.age[j]] = out.age
  BY <1>1 DEF Ages
<1>5. QED
  BY <1>1, <1>3, <1>4

\* What the compensation leaves, for the frame that is now to be decoded.
LEMMA CompensationSteady ==
  ASSUME DatapathTypeOK, FramesHandled, Steady, sdu.frame = "received", PresCompensation,
         pres.state = "MEAS" => pres.ctr <= DataPts, pres'.state \in {"MEAS", "LOCKED"}, ~dp_off'
  PROVE  /\ \A j \in 1..out'.prod : out'.age[j] = current_pres_dly - j
         /\ out'.prod # 0 /\ out'.prod + 1 + sdu.late = current_pres_dly
         /\ pres'.state = "MEAS" => pres'.sum = pres'.ctr * (pres'.delay - current_pres_dly)
         /\ pres'.state = "LOCKED" => pres'.delay = current_pres_dly
<1>1. pres \in PresComp
  BY DatapathFields
<1>2. drift_state = "LOCKED"
  BY <1>1 DEF PresCompensation, PresComp
<1>3. PICK p : p = PresCompRestarted
  OBVIOUS
<1>4. /\ p \in PresComp /\ p.delay = pres.delay /\ (p.state # "WAIT" => prev_ref = 2)
      /\ p = pres \/ (p.state = "WAIT" /\ prev_ref # 2)
  <2>1. (p = pres /\ ~NotConsecutive) \/ (p = CompReset(pres, "WAIT") /\ NotConsecutive)
    BY <1>3 DEF PresCompRestarted, CompReset
  <2>2. 0 \in 0..(Waits + 2) \cup 0..DataPts
    BY DatapathSizes
  <2>3. CASE p = pres /\ ~NotConsecutive
    BY <1>1, <2>3 DEF NotConsecutive
  <2>4. CASE p = CompReset(pres, "WAIT") /\ NotConsecutive
    BY <1>1, <2>4, CompIsReset DEF NotConsecutive
  <2>5. QED
    BY <2>1, <2>3, <2>4
<1>5. p.ctr \in Nat /\ p.sum \in Int /\ p.delay \in Nat /\ current_pres_dly \in Int
  <2>1. p.ctr \in 0..(Waits + 2) \cup 0..DataPts /\ p.sum \in Int /\ p.delay \in PresDelays
    BY <1>4 DEF PresComp
  <2>2. p.ctr \in Nat /\ p.sum \in Int
    BY <2>1, DatapathSizes
  <2>3. p.delay \in Nat /\ current_pres_dly \in Int
    BY <1>4, DatapathFields
  <2>4. QED
    BY <2>2, <2>3
<1>6. ASSUME p.state \in {"MEAS", "LOCKED"}, ~dp_off
      PROVE  /\ p = pres /\ out.prod # 0 /\ out.prod + 1 + sdu.late = current_pres_dly
             /\ \A j \in 1..out.prod : out.age[j] = current_pres_dly - j
             /\ p.state = "MEAS" => p.sum = p.ctr * (p.delay - current_pres_dly)
             /\ p.state = "LOCKED" => p.delay = current_pres_dly
  BY <1>4, <1>6 DEF Steady, Measured, Follows, Filled
<1>7. CASE p.state = "INIT"
  <2>1. pres' = [p EXCEPT !.state = "MEAS", !.ctr = 0, !.sum = 0] /\ dp_off' = ~InStep /\ UNCHANGED out
    BY <1>2, <1>3, <1>7 DEF PresCompensation
  <2>2. pres'.state = "MEAS" /\ pres'.sum = 0 /\ pres'.ctr = 0 /\ pres'.delay = p.delay
    BY <1>4, <2>1 DEF PresComp
  <2>3. InStep
    BY <2>1
  <2>4. QED
    BY <1>5, <2>1, <2>2, <2>3 DEF InStep
<1>8. CASE p.state = "MEAS" /\ p.ctr < DataPts
  <2>1. pres' = [p EXCEPT !.ctr = p.ctr + 1, !.sum = p.sum + (pres.delay - current_pres_dly)] /\ UNCHANGED <<out, dp_off>>
    BY <1>2, <1>3, <1>5, <1>8, DatapathSizes DEF PresCompensation
  <2>2. /\ pres'.state = "MEAS" /\ pres'.ctr = p.ctr + 1 /\ pres'.sum = p.sum + (pres.delay - current_pres_dly)
        /\ pres'.delay = p.delay
    BY <1>4, <1>8, <2>1 DEF PresComp
  <2>3. PICK e \in Int : e = p.delay - current_pres_dly
    BY <1>5
  <2>4. ~dp_off
    BY <2>1
  <2>5. p.sum = p.ctr * e
    BY <1>6, <1>8, <2>3, <2>4
  <2>6. p.ctr * e + e = (p.ctr + 1) * e
    BY <1>5
  <2>7. pres'.sum = pres'.ctr * (pres'.delay - current_pres_dly)
    BY <1>4, <2>2, <2>3, <2>5, <2>6
  <2>8. QED
    BY <1>6, <1>8, <2>1, <2>2, <2>4, <2>7
<1>9. CASE p.state = "MEAS" /\ p.ctr = DataPts
  <2>1. PICK blks : blks = PresAdjBlks(p.sum)
    OBVIOUS
  <2>2. /\ pres' = [p EXCEPT !.state = IF blks = 0 THEN "LOCKED" ELSE "WAIT", !.ctr = 0, !.sum = 0]
        /\ out' = Adjusted(blks) /\ UNCHANGED dp_off
    BY <1>2, <1>3, <1>9, <2>1, DatapathSizes DEF PresCompensation
  <2>3. pres'.state = (IF blks = 0 THEN "LOCKED" ELSE "WAIT") /\ pres'.delay = p.delay
    <3>1. PICK s : s = IF blks = 0 THEN "LOCKED" ELSE "WAIT"
      OBVIOUS
    <3>2. pres' = [p EXCEPT !.ctr = 0, !.sum = 0, !.state = s]
      BY <2>2, <3>1
    <3>3. pres'.state = s /\ pres'.delay = p.delay
      BY <1>4, <3>2 DEF PresComp
    <3>4. QED
      BY <3>1, <3>3
  <2>4. blks = 0 /\ pres'.state = "LOCKED"
    BY <2>3
  <2>5. ~dp_off /\ out' = out
    BY <2>2, <2>4, NotAdjusted
  <2>6. PICK e \in Int : e = p.delay - current_pres_dly
    BY <1>5
  <2>7. PresAdjBlks(DataPts * e) = 0
    BY <1>6, <1>9, <2>1, <2>4, <2>5, <2>6
  <2>8. e = 0
    BY <2>7, MeanOfEqual
  <2>9. QED
    BY <1>5, <1>6, <1>9, <2>3, <2>4, <2>5, <2>6, <2>8
<1>10. CASE p.state = "WAIT"
  <2>1. pres' = [p EXCEPT !.ctr = p.ctr + 1, !.state = IF p.ctr > Waits THEN "INIT" ELSE "WAIT"]
    BY <1>2, <1>3, <1>10 DEF PresCompensation
  <2>2. pres'.state \in {"INIT", "WAIT"}
    BY <1>4, <2>1 DEF PresComp
  <2>3. QED
    BY <2>2
<1>11. CASE p.state = "LOCKED"
  <2>1. pres' = p /\ UNCHANGED <<out, dp_off>>
    BY <1>2, <1>3, <1>11 DEF PresCompensation
  <2>2. QED
    BY <1>6, <1>11, <2>1
<1>12. ASSUME p.state = "MEAS" PROVE p.ctr < DataPts \/ p.ctr = DataPts
  <2>1. p.ctr <= DataPts
    BY <1>4, <1>12
  <2>2. QED
    BY <1>5, <2>1, DatapathSizes
<1>13. QED
  BY <1>4, <1>7, <1>8, <1>9, <1>10, <1>11, <1>12 DEF PresComp

LEMMA StreamOutSteady ==
  ASSUME DatapathTypeOK, FramesHandled, Steady, StreamOut, pres.state = "MEAS" => pres.ctr <= DataPts
  PROVE  FramesHandled' /\ Steady'
<1>1. UNCHANGED <<dp_started, tx, drift_state, current_pres_dly, dp_fault>> /\ sdu.frame = "received"
  BY DEF StreamOut
<1>2. /\ sdu \in [phase : 0..(BlksInFrame - 1), frame : {"none", "received", "decode"}, late : 0..1]
      /\ sdu.phase = sdu.late
  BY <1>1, DatapathFields DEF FramesHandled
<1>3. CASE dp_started
  <2>1. sdu' = [sdu EXCEPT !.frame = "decode"] /\ prev_ref' = 1 /\ PresCompensation
    BY <1>3 DEF StreamOut
  <2>2. sdu'.frame = "decode" /\ sdu'.late = sdu.late /\ sdu'.phase = sdu.phase
    BY <1>2, <2>1
  <2>3. FramesHandled'
    BY <1>1, <1>2, <1>3, <2>1, <2>2 DEF FramesHandled
  <2>4. ASSUME Measured', ~dp_off' PROVE Steady'
    <3>1. pres'.state \in {"MEAS", "LOCKED"}
      BY <2>4 DEF Measured
    <3>2. /\ \A j \in 1..out'.prod : out'.age[j] = current_pres_dly - j
          /\ out'.prod # 0 /\ out'.prod + 1 + sdu.late = current_pres_dly
          /\ pres'.state = "MEAS" => pres'.sum = pres'.ctr * (pres'.delay - current_pres_dly)
          /\ pres'.state = "LOCKED" => pres'.delay = current_pres_dly
      BY <1>1, <2>1, <2>4, <3>1, CompensationSteady
    <3>3. Filled' = out'.prod
      BY <3>2 DEF Filled
    <3>4. QED
      BY <1>1, <2>2, <3>2, <3>3 DEF Steady
  <2>5. QED
    BY <2>3, <2>4 DEF Steady
<1>4. CASE ~dp_started
  <2>1. sdu' = [sdu EXCEPT !.frame = "none"] /\ UNCHANGED <<prev_ref, pres, out, dp_off>>
    BY <1>4 DEF StreamOut
  <2>2. sdu'.frame = "none" /\ sdu'.late = sdu.late /\ sdu'.phase = sdu.phase
    BY <1>2, <2>1
  <2>3. pres'.state = "INIT"
    BY <1>4, <2>1 DEF FramesHandled
  <2>4. QED
    BY <1>1, <1>2, <2>1, <2>2, <2>3 DEF FramesHandled, Steady, Measured
<1>5. QED
  BY <1>3, <1>4

LEMMA AddFrameSteady ==
  ASSUME DatapathTypeOK, FramesHandled, Steady, AddFrame PROVE FramesHandled' /\ Steady'
<1>1. /\ UNCHANGED <<dp_started, tx, prev_ref, drift_state, pres, current_pres_dly, dp_fault>>
      /\ sdu.frame = "decode" /\ sdu' = [sdu EXCEPT !.frame = "none"]
  BY DEF AddFrame
<1>2. /\ sdu \in [phase : 0..(BlksInFrame - 1), frame : {"none", "received", "decode"}, late : 0..1]
      /\ sdu.phase = sdu.late /\ prev_ref = 1 /\ sdu.late \in 0..1
  BY <1>1, DatapathFields DEF FramesHandled
<1>3. sdu'.frame = "none" /\ sdu'.late = sdu.late /\ sdu'.phase = sdu.phase
  BY <1>1, <1>2
<1>4. FramesHandled'
  BY <1>1, <1>2, <1>3 DEF FramesHandled
<1>5. Measured' <=> Measured
  BY <1>1 DEF Measured
<1>6. ASSUME dp_off' = Measured PROVE Steady'
  <2>1. dp_off' = Measured
    BY <1>6
  <2>2. ~(Measured' /\ ~dp_off')
    BY <1>5, <2>1
  <2>3. QED
    BY <2>2 DEF Steady
<1>7. ASSUME dp_off' # Measured, Measured', ~dp_off' PROVE Steady'
  <2>1. UNCHANGED dp_off /\ out.prod + BlksInFrame <= FifoBlks
    BY <1>7 DEF AddFrame
  <2>2. /\ out'.age = [j \in 1..FifoBlks |-> IF j - 1 \in out.prod..(out.prod + BlksInFrame - 1)
                                            THEN sdu.late - (j - 1 - out.prod) ELSE out.age[j]]
        /\ out'.prod = (out.prod + BlksInFrame) % FifoBlks
    <3>1. PICK f : f = [j \in 1..FifoBlks |-> IF j - 1 \in out.prod..(out.prod + BlksInFrame - 1)
                                              THEN sdu.late - (j - 1 - out.prod) ELSE out.age[j]]
      OBVIOUS
    <3>2. PICK q : q = (out.prod + BlksInFrame) % FifoBlks
      OBVIOUS
    <3>3. out' = [age |-> f, prod |-> q]
      BY <1>7, <3>1, <3>2, Zenon DEF AddFrame
    <3>4. QED
      BY <3>1, <3>2, <3>3, Zenon
  <2>3. PICK n : n = out.prod
    OBVIOUS
  <2>4. n \in 1..(FifoBlks - 1) /\ n + 1 + sdu.late = current_pres_dly /\ current_pres_dly \in Int
        /\ \A j \in 1..n : out.age[j] = current_pres_dly - j
    <3>1. Measured /\ ~dp_off
      BY <1>5, <1>7, <2>1
    <3>2. out.prod # 0 /\ out.prod + 1 + sdu.late = current_pres_dly
      BY <1>1, <3>1 DEF Steady, Follows
    <3>3. \A j \in 1..n : out.age[j] = current_pres_dly - j
      BY <2>3, <3>1, <3>2 DEF Steady, Filled
    <3>4. QED
      BY <2>3, <3>2, <3>3, DatapathFields, DatapathSizes
  <2>5. n + BlksInFrame <= FifoBlks /\ Filled' = n + BlksInFrame
    <3>1. n + BlksInFrame <= FifoBlks
      BY <2>1, <2>3, <2>4, DatapathSizes
    <3>2. PICK q : q = (n + BlksInFrame) % FifoBlks
      OBVIOUS
    <3>3. CASE n + BlksInFrame = FifoBlks
      <4>1. q = 0
        BY <2>4, <3>2, <3>3, DatapathSizes
      <4>2. QED
        BY <2>2, <2>3, <3>1, <3>2, <3>3, <4>1 DEF Filled
    <3>4. CASE n + BlksInFrame < FifoBlks
      <4>1. q = n + BlksInFrame
        BY <2>4, <3>2, <3>4, DatapathSizes
      <4>2. q # 0
        BY <2>4, <4>1, DatapathSizes
      <4>3. QED
        BY <2>2, <2>3, <3>1, <3>2, <4>1, <4>2 DEF Filled
    <3>5. QED
      BY <2>4, <3>1, <3>3, <3>4, DatapathSizes
  <2>6. \A j \in 1..(n + BlksInFrame) : out'.age[j] = current_pres_dly - j
    <3>1. TAKE j \in 1..(n + BlksInFrame)
    <3>2. j \in 1..FifoBlks
      BY <2>4, <2>5, DatapathSizes
    <3>3. out'.age[j] = IF j - 1 \in n..(n + BlksInFrame - 1) THEN sdu.late - (j - 1 - n) ELSE out.age[j]
      BY <2>2, <2>3, <3>2
    <3>4. CASE j \in 1..n
      BY <2>4, <3>3, <3>4, DatapathSizes
    <3>5. CASE j > n
      BY <1>2, <2>4, <3>3, <3>5, DatapathSizes
    <3>6. QED
      BY <2>4, <3>4, <3>5, DatapathSizes
  <2>7. n + BlksInFrame = current_pres_dly - 1 - sdu'.phase + BlksInFrame
    BY <1>2, <1>3, <2>4, DatapathSizes
  <2>8. /\ pres'.state = "MEAS" => pres'.sum = pres'.ctr * (pres'.delay - current_pres_dly)
        /\ pres'.state = "LOCKED" => pres'.delay = current_pres_dly
    BY <1>1, <1>5, <1>7, <2>1 DEF Steady
  <2>9. QED
    BY <1>1, <1>3, <2>5, <2>6, <2>7, <2>8 DEF Steady, Follows
<1>8. QED
  BY <1>4, <1>6, <1>7 DEF Steady

LEMMA OwnSteady ==
  ASSUME DatapathTypeOK, FramesHandled, Steady,
         DatapathStart \/ DatapathStop \/ \E d \in PresDelays : PresDelaySet(d)
  PROVE  FramesHandled' /\ Steady'
<1>1. pres \in PresComp
  BY DatapathFields
<1>2. CASE DatapathStart \/ DatapathStop
  <2>1. pres'.state = "INIT"
    BY <1>1, <1>2 DEF DatapathStart, DatapathStop, FramesHandled, PresComp
  <2>2. UNCHANGED sdu /\ (UNCHANGED prev_ref \/ (prev_ref' = 0 /\ sdu.frame # "decode"))
    BY <1>2 DEF DatapathStart, DatapathStop
  <2>3. QED
    BY <2>1, <2>2 DEF FramesHandled, Steady, Measured
<1>3. ASSUME NEW d \in PresDelays, PresDelaySet(d) PROVE FramesHandled' /\ Steady'
  <2>1. /\ pres'.state = pres.state /\ dp_off' = Measured /\ UNCHANGED <<dp_started, sdu, prev_ref>>
    BY <1>1, <1>3 DEF PresDelaySet, PresComp
  <2>2. ~(Measured' /\ ~dp_off')
    BY <2>1 DEF Measured
  <2>3. QED
    BY <2>1, <2>2 DEF FramesHandled, Steady
<1>4. QED
  BY <1>2, <1>3

LEMMA SteadyInit == ASSUME DatapathInit PROVE FramesHandled /\ Steady
<1>1. PICK d \in PresDelays : pres = [state |-> "INIT", ctr |-> 0, sum |-> 0, delay |-> d]
  BY DEF DatapathInit
<1>2. pres.state = "INIT"
  BY <1>1
<1>3. sdu = [phase |-> 0, frame |-> "none", late |-> 0]
  BY DEF DatapathInit
<1>4. QED
  BY <1>2, <1>3 DEF FramesHandled, Steady, Measured

LEMMA DatapathInvHolds == Spec => [](DatapathInv /\ FramesHandled /\ Steady)
<1>1. Init => DatapathInv /\ FramesHandled /\ Steady
  BY DatapathInitInv, SteadyInit DEF Init
<1>2. DatapathInv /\ FramesHandled /\ Steady /\ [Next]_firmwareVars => (DatapathInv /\ FramesHandled /\ Steady)'
  <2> SUFFICES ASSUME DatapathInv, FramesHandled, Steady, [Next]_firmwareVars
               PROVE  DatapathInv' /\ FramesHandled' /\ Steady'
    OBVIOUS
  <2>1. DatapathNext \/ UNCHANGED datapathVars
    BY DEF Next, firmwareVars, headsetPlayVars
  <2>2. CASE UNCHANGED datapathVars
    <3>1. DatapathInv'
      BY <2>2 DEF datapathVars, DatapathInv, DatapathTypeOK
    <3>2. FramesHandled' /\ Steady'
      BY <2>2 DEF datapathVars, FramesHandled, Steady, Measured, Filled, Follows
    <3>3. QED
      BY <3>1, <3>2
  <2>3. CASE DatapathNext
    <3>1. DatapathInv'
      BY <2>3, DatapathStep
    <3>2. FramesHandled' /\ Steady'
      BY <2>3, BlkCompleteSteady, StreamOutSteady, AddFrameSteady, OwnSteady DEF DatapathNext, DatapathInv
    <3>3. QED
      BY <3>1, <3>2
  <2>4. QED
    BY <2>1, <2>2, <2>3
<1>3. QED
  BY <1>1, <1>2, PTL DEF Spec

\* Once the presentation delay is said to be right, every block is played when it should be
\* (InTimeWhenLocked), for a FIFO, frames and delays of any size and any number of measurements,
\* wherever the interrupt of I2S comes between the thread's steps: nothing between an even start
\* of the measurement and the lock shifts the blocks without being noticed.
THEOREM PlaysInTime == Spec => []InTimeWhenLocked
<1>1. DatapathInv /\ Steady => InTimeWhenLocked
  BY DEF Steady, Measured, InTimeWhenLocked
<1>2. QED
  BY <1>1, DatapathInvHolds, PTL

\* What the types say of advertising besides AdvertisingInv.
AdvertisingRest ==
    /\ adv_work \in [at : {"idle", "create", "start"}, submitted : BOOLEAN, peer : Peers \cup {NoPeer}]
    /\ dir_adv_timed_out \in BOOLEAN /\ adv_fault \in BOOLEAN
    /\ ext_adv \in [kind : {"open", "directed", "filtered"}, peer : Peers \cup {NoPeer}, on : BOOLEAN]
    /\ bonds \in Seq(Peers)

\* The bond that is called is one of the bonds.
LEMMA WantedIsPeer == ASSUME bonds \in Seq(Peers) PROVE Wanted \in Peers \cup {NoPeer}
<1> DEFINE away == {i \in DOMAIN bonds : bonds[i] \notin links}
           first == CHOOSE i \in away : \A j \in away : i <= j
<1>1. away \in SUBSET Nat /\ \A i \in DOMAIN bonds : bonds[i] \in Peers
  BY QueueFacts
<1>2. CASE away = {}
  BY <1>2 DEF Wanted
<1>3. CASE away # {}
  <2>1. \E i \in away : \A j \in away : i <= j
    BY <1>1, <1>3, LeastExists
  <2>2. first \in away
    BY <2>1
  <2>3. Wanted = bonds[first]
    BY <1>3 DEF Wanted
  <2>4. QED
    BY <1>1, <2>2, <2>3
<1>4. QED
  BY <1>2, <1>3

LEMMA AdvStartRest ==
  ASSUME AdvertisingRest, NEW c \in BOOLEAN, AdvStart(c)
  PROVE  /\ adv_work' \in [at : {"idle", "create", "start"}, submitted : BOOLEAN, peer : Peers \cup {NoPeer}]
         /\ adv_fault' \in BOOLEAN
<1>1. PICK b \in BOOLEAN : b = TRUE
  OBVIOUS
<1>2. adv_work' = [adv_work EXCEPT !.submitted = b] \/ adv_work' = adv_work
  BY <1>1 DEF AdvStart
<1>3. adv_work' \in [at : {"idle", "create", "start"}, submitted : BOOLEAN, peer : Peers \cup {NoPeer}]
  BY <1>2 DEF AdvertisingRest
<1>4. adv_fault' = adv_fault \/ adv_fault' = c
  BY DEF AdvStart
<1>5. adv_fault' \in BOOLEAN
  BY <1>4, Zenon DEF AdvertisingRest
<1>6. QED
  BY <1>3, <1>5

LEMMA AdvertisingRestStep == ASSUME AdvertisingInv, AdvertisingRest, AdvertisingNext PROVE AdvertisingRest'
<1> DEFINE Work == [at : {"idle", "create", "start"}, submitted : BOOLEAN, peer : Peers \cup {NoPeer}]
           Sets == [kind : {"open", "directed", "filtered"}, peer : Peers \cup {NoPeer}, on : BOOLEAN]
<1>0. adv_work \in Work /\ dir_adv_timed_out \in BOOLEAN /\ adv_fault \in BOOLEAN /\ ext_adv \in Sets /\ bonds \in Seq(Peers)
  BY DEF AdvertisingRest
<1>a. \A x \in BOOLEAN : [ext_adv EXCEPT !.on = x] \in Sets
  BY <1>0
<1>b. ASSUME NEW x, ext_adv' = [ext_adv EXCEPT !.on = x], x = TRUE \/ x = FALSE PROVE ext_adv' \in Sets
  BY <1>a, <1>b
<1>c. TRUE \in BOOLEAN /\ FALSE \in BOOLEAN
  OBVIOUS
<1>1. ASSUME NEW p \in Peers, Connected(p) PROVE AdvertisingRest'
  BY <1>0, <1>1, <1>b DEF Connected, AdvertisingRest
<1>2. ASSUME NEW p \in Peers, Paired(p) PROVE AdvertisingRest'
  <2>1. bonds' \in Seq(Peers)
    BY <1>0, <1>2, LongerQueue DEF Paired
  <2>2. QED
    BY <1>0, <1>2, <2>1 DEF Paired, AdvertisingRest
<1>3. ASSUME NEW p \in Peers, Disconnected(p) PROVE AdvertisingRest'
  BY <1>0, <1>3, <1>c, AdvStartRest DEF Disconnected, AdvertisingRest
<1>4. CASE ConnectFailed
  BY <1>0, <1>4, <1>b, <1>c, AdvStartRest DEF ConnectFailed, AdvertisingRest
<1>5. CASE DirAdvTimedOut
  <2>1. PICK f \in BOOLEAN : f = FALSE
    OBVIOUS
  <2>2. ext_adv' = [kind |-> "filtered", peer |-> NoPeer, on |-> f]
    BY <1>5, <2>1 DEF DirAdvTimedOut
  <2>3. ext_adv' \in Sets
    BY <2>2
  <2>4. dir_adv_timed_out' \in BOOLEAN /\ UNCHANGED bonds
    BY <1>5 DEF DirAdvTimedOut
  <2>5. adv_work' \in Work /\ adv_fault' \in BOOLEAN
    BY <1>5, <1>c, AdvStartRest DEF DirAdvTimedOut
  <2>6. QED
    BY <1>0, <2>3, <2>4, <2>5 DEF AdvertisingRest
<1>6. CASE TakeIndex
  <2>1. PICK f \in BOOLEAN, w \in Peers \cup {NoPeer} : f = FALSE /\ w = Wanted
    BY <1>0, WantedIsPeer
  <2>2. adv_work' = [adv_work EXCEPT !.submitted = f] \/ adv_work' = [at |-> "create", submitted |-> f, peer |-> w]
    BY <1>6, <2>1 DEF TakeIndex
  <2>3. adv_work' \in Work
    BY <1>0, <2>2
  <2>4. QED
    BY <1>0, <1>6, <2>3 DEF TakeIndex, AdvertisingRest
<1>7. CASE Create
  <2>1. adv_work' = [adv_work EXCEPT !.at = "start"] \/ adv_work' = [adv_work EXCEPT !.at = "idle"]
    BY <1>7 DEF Create
  <2>2. ext_adv' = ext_adv \/ ext_adv' = [ext_adv EXCEPT !.kind = "directed", !.peer = adv_work.peer]
    BY <1>7 DEF Create
  <2>3. adv_work' \in Work /\ ext_adv' \in Sets
    BY <1>0, <2>1, <2>2
  <2>4. dir_adv_timed_out' \in BOOLEAN
    BY <1>0, <1>7, Zenon DEF Create
  <2>5. QED
    BY <1>0, <1>7, <2>3, <2>4 DEF Create, AdvertisingRest
<1>8. CASE StartSet
  <2>1. PICK x : x = (ext_adv.on \/ ext_adv.kind # "directed" \/ ext_adv.peer \notin links)
    OBVIOUS
  <2>2. x \in BOOLEAN
    BY <2>1, Zenon
  <2>3. ext_adv' \in Sets
    BY <1>8, <1>a, <2>1, <2>2 DEF StartSet
  <2>4. adv_work' \in Work
    BY <1>0, <1>8 DEF StartSet
  <2>5. QED
    BY <1>0, <1>8, <2>3, <2>4 DEF StartSet, AdvertisingRest
<1>9. QED
  BY <1>1, <1>2, <1>3, <1>4, <1>5, <1>6, <1>7, <1>8 DEF AdvertisingNext

LEMMA AdvertisingTypes == ASSUME AdvertisingInv, AdvertisingRest PROVE AdvertisingTypeOK
<1>1. adv_q \in 0..AdvSets
  BY AdvertisingAssumption DEF AdvertisingAssumption, AdvertisingInv, OneTurn
<1>2. links \subseteq Peers
  BY DEF AdvertisingInv, OneTurn
<1>3. QED
  BY <1>1, <1>2, Zenon DEF AdvertisingRest, AdvertisingTypeOK

BroadcasterRest == ext_adv_ready \in BOOLEAN /\ tx_fault \in BOOLEAN

LEMMA BroadcasterRestStep == ASSUME BroadcasterRest, BroadcasterNext PROVE BroadcasterRest'
<1>1. /\ ext_adv_ready' = TRUE \/ UNCHANGED ext_adv_ready
      /\ tx_fault' = TRUE \/ UNCHANGED tx_fault
  BY DEF BroadcasterNext, ExtAdvWithPaReady, StreamStartedCb, StreamStoppedCb, StreamSentCb, IsoStreamSend,
         FrameEncoded, PlayPause, SrcEvtStreaming, SrcEvtNotStreaming, groupVars, txVars
<1>2. QED
  BY <1>1, Zenon DEF BroadcasterRest

LEMMA BroadcasterTypes == ASSUME SourceInv, BuffersInv, BroadcasterRest PROVE BroadcasterTypeOK
<1>1. src_audio \in BOOLEAN /\ src_encoder \in BOOLEAN
  BY Zenon DEF SourceInv, AudioIsOn
<1>2. QED
  BY <1>1, Zenon DEF SourceInv, SrcTypes, BisEvents, BuffersInv, TxTypes, BroadcasterRest, BroadcasterTypeOK

RxRest == rx_streaming \in BOOLEAN /\ rx_fault \in BOOLEAN

LEMMA RxRestStep == ASSUME RxRest, AudioRxNext PROVE RxRest'
<1>1. UNCHANGED rx_streaming \/ rx_streaming' = ~rx_streaming
  BY DEF AudioRxNext, RxConfigure, RxStartOrStop, RxData, RxStreamState, NextInterval, TakeFrame, UnrefFrame,
         rxStreamVars
<1>2. UNCHANGED rx_fault \/ rx_fault' = TRUE
  <2>1. ASSUME NEW f, NEW q, CheckSend(f, q) PROVE UNCHANGED rx_fault \/ rx_fault' = TRUE
    BY <2>1 DEF CheckSend
  <2>2. ASSUME NEW l, NEW valid, NEW q, NewFrame(l, valid, q) PROVE UNCHANGED rx_fault \/ rx_fault' = TRUE
    BY <2>1, <2>2 DEF NewFrame
  <2>3. ASSUME NEW l, NEW valid, NEW q, Accepted(l, valid, q) PROVE UNCHANGED rx_fault \/ rx_fault' = TRUE
    <3>1. \/ \E f : CheckSend(f, q)
          \/ \E r : NewFrame(l, valid, r)
          \/ UNCHANGED rx_fault \/ rx_fault' = TRUE
      BY <2>3 DEF Accepted
    <3>2. QED
      BY <2>1, <2>2, <3>1
  <2>4. ASSUME NEW l \in Locations, NEW valid \in BOOLEAN, RxData(l, valid)
        PROVE  UNCHANGED rx_fault \/ rx_fault' = TRUE
    BY <2>3, <2>4 DEF RxData
  <2>5. QED
    BY <2>4 DEF AudioRxNext, RxConfigure, RxStartOrStop, RxStreamState, NextInterval, TakeFrame, UnrefFrame
<1>3. QED
  BY <1>1, <1>2, Zenon DEF RxRest

LEMMA RxTypesHold == ASSUME RxInv, RxRest PROVE AudioRxTypeOK
<1>1. {audio_frame, rx_decoding} \subseteq Frames
  BY DEF RxInv, RxTypes
<1>2. QED
  BY <1>1, Zenon DEF RxInv, RxTypes, RxRest, AudioRxTypeOK

\* What the types say of the playback besides SdTypes: the names and frames are those of
\* the commands and of the file, and a frame that is on its way to the ring is one.
SdRest ==
    /\ play_request.name <= Plays
    /\ playback.of <= Plays /\ playback.frame <= FileFrames
    /\ playback.at # "wait" => playback.of >= 1
    /\ playback.at \in {"space", "lock", "put", "written"} => playback.frame >= 1
    /\ playback_active \in BOOLEAN /\ space_available \in BOOLEAN /\ mix_fault \in BOOLEAN
    /\ ring \in Seq([of : 1..Plays, frame : 1..FileFrames])
    /\ mixed \in [of : 0..Plays, frame : 0..FileFrames]

SdPosition == [at : PlaybackSteps, of : Nat, frame : Nat]

\* The thread goes on with the file and the frame it has.
LEMMA AtRest ==
  ASSUME SdInv, SdRest, NEW s \in PlaybackSteps, At(s), playback.at # "wait",
         s \in {"space", "lock", "put", "written"} => playback.at \in {"space", "lock", "put", "written"}
  PROVE  /\ playback'.of <= Plays /\ playback'.frame <= FileFrames
         /\ playback'.at # "wait" => playback'.of >= 1
         /\ playback'.at \in {"space", "lock", "put", "written"} => playback'.frame >= 1
<1>1. playback'.at = s /\ playback'.of = playback.of /\ playback'.frame = playback.frame
  BY DEF SdInv, SdTypes, At
<1>2. QED
  BY <1>1 DEF SdRest

LEMMA SdRestStep == ASSUME SdInv, SdRest, SdPlaybackNext PROVE SdRest'
<1> DEFINE Steps == /\ playback'.of <= Plays /\ playback'.frame <= FileFrames
                    /\ playback'.at # "wait" => playback'.of >= 1
                    /\ playback'.at \in {"space", "lock", "put", "written"} => playback'.frame >= 1
           Rings == ring' \in Seq([of : 1..Plays, frame : 1..FileFrames])
           Flags == playback_active' \in BOOLEAN /\ space_available' \in BOOLEAN /\ mix_fault' \in BOOLEAN
           Mixed == mixed' \in [of : 0..Plays, frame : 0..FileFrames]
<1>0. Plays \in Nat /\ FileFrames \in Nat \ {0} /\ play_request \in [name : Nat, given : BOOLEAN]
      /\ playback \in SdPosition /\ playback.at \in PlaybackSteps /\ playback.of \in Nat /\ playback.frame \in Nat
  BY SdPlaybackAssumption DEF SdPlaybackAssumption, SdInv, SdTypes, SdPosition
<1>1. play_request'.name <= Plays
  <2>1. \/ UNCHANGED play_request \/ play_request' = [play_request EXCEPT !.given = FALSE]
        \/ play_request.name < Plays /\ play_request' = [name |-> play_request.name + 1, given |-> TRUE]
    BY DEF SdPlaybackNext, PlayCommand, PlaybackBegins, HeaderRead, FrameRead, SpaceTaken, SpaceTimeout, RingLocked,
           FramePut, FrameWritten, MixWithStream
  <2>2. PICK r, n : r = play_request /\ n = r.name
    OBVIOUS
  <2>3. r \in [name : Nat, given : BOOLEAN] /\ n \in Nat /\ n <= Plays
    BY <1>0, <2>2 DEF SdRest
  <2>4. [r EXCEPT !.given = FALSE].name = n
    BY <2>2, <2>3
  <2>5. \/ play_request' = r \/ play_request' = [r EXCEPT !.given = FALSE]
        \/ n < Plays /\ play_request' = [name |-> n + 1, given |-> TRUE]
    BY <2>1, <2>2
  <2>6. QED
    BY <1>0, <2>2, <2>3, <2>4, <2>5
<1>2. Steps
  <2>1. CASE UNCHANGED playback
    BY <2>1 DEF SdRest
  <2>2. CASE PlaybackBegins
    <3>1. playback' = [at |-> "header", of |-> play_request.name, frame |-> 0]
      BY <2>2 DEF PlaybackBegins
    <3>2. play_request.name >= 1
      BY <1>0, <2>2 DEF PlaybackBegins, SdInv, FilesAscend
    <3>3. QED
      BY <1>0, <3>1, <3>2 DEF SdRest
  <2>3. ASSUME NEW ok \in BOOLEAN, HeaderRead(ok) PROVE Steps
    BY <2>3, AtRest DEF HeaderRead, PlaybackEnds, PlaybackSteps
  <2>4. ASSUME NEW ok \in BOOLEAN, FrameRead(ok) PROVE Steps
    <3>1. CASE ok /\ playback.frame < FileFrames
      <4>1. playback' = [playback EXCEPT !.at = "space", !.frame = playback.frame + 1]
        BY <2>4, <3>1 DEF FrameRead
      <4>2. playback'.of = playback.of /\ playback'.frame = playback.frame + 1 /\ playback.at = "frame"
        BY <1>0, <2>4, <4>1 DEF FrameRead, SdPosition
      <4>3. QED
        BY <1>0, <3>1, <4>2 DEF SdRest
    <3>2. CASE ~(ok /\ playback.frame < FileFrames)
      BY <2>4, <3>2, AtRest DEF FrameRead, PlaybackEnds, PlaybackSteps
    <3>3. QED
      BY <3>1, <3>2
  <2>5. CASE SpaceTaken \/ SpaceTimeout \/ RingLocked \/ FramePut \/ FrameWritten
    BY <2>5, AtRest DEF SpaceTaken, SpaceTimeout, RingLocked, FramePut, FrameWritten, PlaybackEnds, PlaybackSteps
  <2>6. QED
    BY <2>1, <2>2, <2>3, <2>4, <2>5 DEF SdPlaybackNext, PlayCommand, MixWithStream
<1>3. Rings
  <2> DEFINE F == [of : 1..Plays, frame : 1..FileFrames]
  <2>1. ring \in Seq(F)
    BY DEF SdRest
  <2>2. CASE FramePut
    <3>1. PICK f : f = [of |-> playback.of, frame |-> playback.frame]
      OBVIOUS
    <3>2. f \in F
      <4>1. playback.of \in 1..Plays /\ playback.frame \in 1..FileFrames
        BY <1>0, <2>2 DEF FramePut, SdRest
      <4>2. QED
        BY <3>1, <4>1
    <3>3. ring' = ring \/ ring' = Append(ring, f)
      BY <2>2, <3>1 DEF FramePut
    <3> HIDE DEF F
    <3>4. ring' \in Seq(F)
      BY <2>1, <3>2, <3>3, LongerQueue
    <3>5. QED
      BY <3>4 DEF F
  <2>3. CASE ring' = <<>>
    BY <2>3, EmptySeq
  <2>4. CASE ring # <<>> /\ ring' = Tail(ring)
    <3> HIDE DEF F
    <3>1. ring' \in Seq(F)
      BY <2>1, <2>4, ShorterQueue
    <3>2. QED
      BY <3>1 DEF F
  <2>5. CASE UNCHANGED ring
    BY <2>1, <2>5
  <2>6. QED
    BY <2>2, <2>3, <2>4, <2>5 DEF SdPlaybackNext, PlayCommand, PlaybackBegins, RingReset, HeaderRead, FrameRead,
       SpaceTaken, SpaceTimeout, RingLocked, FrameWritten, MixWithStream, RingRead
<1>4. Flags
  <2>0. playback_active \in BOOLEAN /\ space_available \in BOOLEAN /\ mix_fault \in BOOLEAN
    BY DEF SdRest
  <2>1. \/ UNCHANGED playback_active \/ playback_active' = FALSE
        \/ playback_active' = (playback_active \/ playback.frame = 1)
    BY DEF SdPlaybackNext, PlayCommand, PlaybackBegins, HeaderRead, FrameRead, SpaceTaken, SpaceTimeout, RingLocked,
           FramePut, FrameWritten, MixWithStream, PlaybackEnds
  <2>2. UNCHANGED space_available \/ space_available' = TRUE \/ space_available' = FALSE
    BY DEF SdPlaybackNext, PlayCommand, PlaybackBegins, HeaderRead, FrameRead, SpaceTaken, SpaceTimeout, RingLocked,
           FramePut, FrameWritten, MixWithStream, RingRead
  <2>3. \/ UNCHANGED mix_fault
        \/ mix_fault' = (mix_fault \/ Head(ring).of # playback.of
                               \/ (mixed.of = Head(ring).of /\ mixed.frame >= Head(ring).frame))
    BY DEF SdPlaybackNext, PlayCommand, PlaybackBegins, HeaderRead, FrameRead, SpaceTaken, SpaceTimeout, RingLocked,
           FramePut, FrameWritten, MixWithStream
  <2>4. playback_active' \in BOOLEAN
    BY <2>0, <2>1, Zenon
  <2>5. space_available' \in BOOLEAN
    BY <2>0, <2>2, Zenon
  <2>6. mix_fault' \in BOOLEAN
    BY <2>0, <2>3, Zenon
  <2>7. QED
    BY <2>4, <2>5, <2>6
<1>5. Mixed
  <2>1. UNCHANGED mixed \/ (ring # <<>> /\ mixed' = Head(ring))
    BY DEF SdPlaybackNext, PlayCommand, PlaybackBegins, HeaderRead, FrameRead, SpaceTaken, SpaceTimeout, RingLocked,
           FramePut, FrameWritten, MixWithStream
  <2>2. PICK F : F = [of : 1..Plays, frame : 1..FileFrames]
    OBVIOUS
  <2>3. ring # <<>> => Head(ring) \in F
    BY <2>2, ShorterQueue DEF SdRest
  <2>4. F \subseteq [of : 0..Plays, frame : 0..FileFrames]
    BY <1>0, <2>2
  <2>5. QED
    BY <2>1, <2>3, <2>4 DEF SdRest
<1>6. QED
  BY <1>1, <1>2, <1>3, <1>4, <1>5, Zenon DEF SdRest

LEMMA SdTypesHold == ASSUME SdInv, SdRest PROVE SdPlaybackTypeOK
<1>1. play_request \in [name : 0..Plays, given : BOOLEAN]
  <2>1. PICK r : r = play_request
    OBVIOUS
  <2>2. r \in [name : Nat, given : BOOLEAN] /\ r.name <= Plays
    BY <2>1 DEF SdInv, SdTypes, SdRest
  <2>3. QED
    BY <2>1, <2>2, SdPlaybackAssumption DEF SdPlaybackAssumption
<1>2. playback \in [at : PlaybackSteps, of : 0..Plays, frame : 0..FileFrames]
  BY SdPlaybackAssumption DEF SdInv, SdTypes, SdRest, SdPlaybackAssumption
<1>3. QED
  BY <1>1, <1>2, Zenon DEF SdRest, PlaybackSteps, SdPlaybackTypeOK

LEMMA Lc3FaultIsTruth == ASSUME lc3_fault \in BOOLEAN, Lc3Next PROVE lc3_fault' \in BOOLEAN
<1>1. UNCHANGED lc3_fault \/ \E x : lc3_fault' = (lc3_fault \/ x)
  BY DEF Lc3Next, Register, NextFrameGet, NextFrameNotReady, NextFrameNoData, StreamClose, CloseAllStreams, LoadBegins,
         LoadFrame, LoadNoData, LoadFails, Loaded, Misgiven
<1>2. QED
  BY <1>1, Zenon

LEMMA Lc3Types == ASSUME Lc3Inv, lc3_fault \in BOOLEAN PROVE Lc3TypeOK
  BY Zenon DEF Lc3Inv, Lc3Slot, Lc3Work, Lc3TypeOK

\* What the types say of the ten parts besides their invariants.
PartsRest ==
    /\ part \in PartNames
    /\ HeadsetRest /\ RxRest /\ AdvertisingRest /\ BroadcasterRest /\ SdRest
    /\ lc3_fault \in BOOLEAN

LEMMA PartsRestInit == ASSUME Init PROVE PartsRest
<1>1. HeadsetRest
  <2>1. Len(le_audio_q) = 0
    BY EmptySeq DEF Init, HeadsetInit
  <2>2. FALSE \in BOOLEAN /\ 0 \in 0..(Sinks + Sources) /\ 0 \in 0..FrameBlocks /\ 0 \in 0..(FrameBlocks - 1)
    BY HeadsetAssumption DEF HeadsetAssumption
  <2>3. encoder_sig \in BOOLEAN
    BY Zenon DEF Init, HeadsetInit
  <2>4. encoder \in [at : {"none", "poll", "collect"}, got : 0..(FrameBlocks - 1)]
    BY <2>2 DEF Init, HeadsetInit
  <2>5. /\ cap_tx_stream \in 0..(Sinks + Sources) /\ audio_q_rx \in 0..FrameBlocks /\ Len(le_audio_q) <= HsMessages
        /\ hs_fault \in {"none", "start", "stop", "encode"}
    BY <2>1, <2>2, HeadsetAssumption DEF Init, HeadsetInit, HeadsetAssumption
  <2>6. QED
    BY <2>3, <2>4, <2>5, Zenon DEF HeadsetRest
<1>2. RxRest /\ BroadcasterRest /\ lc3_fault \in BOOLEAN
  BY Zenon DEF Init, AudioRxInit, RxRest, BroadcasterInit, BroadcasterRest, Lc3Init
<1>4. AdvertisingRest
  <2>1. bonds \in Seq(Peers)
    BY EmptySeq DEF Init, AdvertisingInit
  <2>2. PICK t \in BOOLEAN, f \in BOOLEAN : t = TRUE /\ f = FALSE
    OBVIOUS
  <2>3. /\ adv_work = [at |-> "idle", submitted |-> t, peer |-> NoPeer]
        /\ ext_adv = [kind |-> "open", peer |-> NoPeer, on |-> f]
    BY <2>2 DEF Init, AdvertisingInit
  <2>4. /\ adv_work \in [at : {"idle", "create", "start"}, submitted : BOOLEAN, peer : Peers \cup {NoPeer}]
        /\ ext_adv \in [kind : {"open", "directed", "filtered"}, peer : Peers \cup {NoPeer}, on : BOOLEAN]
    BY <2>3
  <2>5. dir_adv_timed_out \in BOOLEAN /\ adv_fault \in BOOLEAN
    BY Zenon DEF Init, AdvertisingInit
  <2>6. QED
    BY <2>1, <2>4, <2>5 DEF AdvertisingRest
<1>5. SdRest
  <2>1. ring \in Seq([of : 1..Plays, frame : 1..FileFrames])
    BY EmptySeq DEF Init, SdPlaybackInit
  <2>2. playback_active \in BOOLEAN /\ space_available \in BOOLEAN /\ mix_fault \in BOOLEAN
    BY Zenon DEF Init, SdPlaybackInit
  <2>3. QED
    BY <2>1, <2>2, SdPlaybackAssumption
       DEF Init, SdPlaybackInit, NothingMixed, SdRest, SdPlaybackAssumption
<1>6. QED
  BY <1>1, <1>2, <1>4, <1>5 DEF Init, PartsRest

LEMMA PartsRestStep ==
  ASSUME PartsRest, HeadsetInv, AdvertisingInv, SdInv, [Next]_firmwareVars PROVE PartsRest'
<1>1. HeadsetRest'
  <2>1. HeadsetNext \/ UNCHANGED headsetVars
    BY DEF Next, firmwareVars, headsetPlayVars
  <2>2. CASE UNCHANGED headsetVars
    BY <2>2 DEF headsetVars, PartsRest, HeadsetRest
  <2>3. QED
    BY <2>1, <2>2, HeadsetRestStep DEF PartsRest
<1>2. RxRest'
  <2>1. AudioRxNext \/ UNCHANGED audioRxVars
    BY DEF Next, firmwareVars, headsetPlayVars
  <2>2. CASE UNCHANGED audioRxVars
    BY <2>2 DEF audioRxVars, PartsRest, RxRest
  <2>3. QED
    BY <2>1, <2>2, RxRestStep DEF PartsRest
<1>4. AdvertisingRest'
  <2>1. AdvertisingNext \/ UNCHANGED advertisingVars
    BY DEF Next, firmwareVars, radioVars
  <2>2. CASE UNCHANGED advertisingVars
    BY <2>2 DEF advertisingVars, PartsRest, AdvertisingRest
  <2>3. QED
    BY <2>1, <2>2, AdvertisingRestStep DEF PartsRest
<1>5. BroadcasterRest'
  <2>1. BroadcasterNext \/ UNCHANGED broadcasterVars
    BY DEF Next, firmwareVars, radioVars
  <2>2. CASE UNCHANGED broadcasterVars
    BY <2>2 DEF broadcasterVars, PartsRest, BroadcasterRest
  <2>3. QED
    BY <2>1, <2>2, BroadcasterRestStep DEF PartsRest
<1>6. SdRest'
  <2>1. SdPlaybackNext \/ UNCHANGED sdPlaybackVars
    BY DEF Next, firmwareVars, cardVars
  <2>2. CASE UNCHANGED sdPlaybackVars
    BY <2>2 DEF sdPlaybackVars, PartsRest, SdRest
  <2>3. QED
    BY <2>1, <2>2, SdRestStep DEF PartsRest
<1>7. lc3_fault' \in BOOLEAN
  <2>1. Lc3Next \/ UNCHANGED lc3Vars
    BY DEF Next, firmwareVars, cardVars
  <2>2. CASE UNCHANGED lc3Vars
    BY <2>2 DEF lc3Vars, PartsRest
  <2>3. QED
    BY <2>1, <2>2, Lc3FaultIsTruth DEF PartsRest
<1>8. part' \in PartNames
  BY DEF Next, firmwareVars, PartsRest
<1>9. QED
  BY <1>1, <1>2, <1>4, <1>5, <1>6, <1>7, <1>8 DEF PartsRest

\* The state of all ten parts keeps its shape (TypeOK), for any number of streams, peers, files and
\* frames and buffers of any size: counters and queues within their bounds, indices into the FIFO
\* within it, and what is in a queue or a ring of the kind its reader takes.
THEOREM FirmwareTypeCorrect == Spec => []TypeOK
<1>1. Init => PartsRest
  BY PartsRestInit
<1>2. PartsRest /\ HeadsetInv /\ AdvertisingInv /\ SdInv /\ [Next]_firmwareVars => PartsRest'
  BY PartsRestStep
<1>3. /\ PartsRest /\ DatapathInv /\ HeadsetInv /\ RxInv /\ AdvertisingInv /\ SourceInv /\ BuffersInv
      /\ MediaInv /\ SdInv /\ Lc3Inv /\ BoardLinksInv /\ Esp32Inv
      => TypeOK
  <2> SUFFICES ASSUME PartsRest, DatapathInv, HeadsetInv, RxInv, AdvertisingInv, SourceInv, BuffersInv,
                      MediaInv, SdInv, Lc3Inv, BoardLinksInv, Esp32Inv
               PROVE  TypeOK
    OBVIOUS
  <2>1. HeadsetTypeOK /\ AudioRxTypeOK
    BY HeadsetTypes, RxTypesHold DEF PartsRest
  <2>2. DatapathTypeOK /\ AdvertisingTypeOK /\ BroadcasterTypeOK
    BY AdvertisingTypes, BroadcasterTypes DEF PartsRest, DatapathInv
  <2>3. MediaTypeOK /\ BoardLinksTypeOK /\ Esp32TypeOK
    BY DEF MediaInv, BoardLinksInv, Esp32Inv
  <2>4. SdPlaybackTypeOK /\ Lc3TypeOK
    BY SdTypesHold, Lc3Types DEF PartsRest
  <2>5. QED
    BY <2>1, <2>2, <2>3, <2>4 DEF TypeOK, PartsRest
<1>4. QED
  BY <1>1, <1>2, <1>3, DatapathInvHolds, HeadsetInvHolds, RxInvHolds, AdvertisingInvHolds, SourceInvHolds, BuffersInvHolds,
     MediaInvHolds, SdInvHolds, Lc3InvHolds, LinksInvariance, PTL DEF Spec

===============================================================================
