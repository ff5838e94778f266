--------------------------- MODULE GatewayAudioProofs ---------------------------
(***************************************************************************)
(* The gateway's application follows its streams, for every value of the   *)
(* constants: the inductive invariant of AudioFollowsStreams.              *)
(*                                                                         *)
(* stream_stopped_cb tells the application only if no other stream is      *)
(* counted as running, and the count leaves out the headsets whose entry   *)
(* has lost its connection and, in a direction, what follows the first     *)
(* stream without an endpoint.  So a first channel that it misses belongs  *)
(* to a headset whose link closes, and the invariant says so of every one  *)
(* that runs while the application is told that none does.  The messages   *)
(* wait to be read, so that "is told" means what the application will      *)
(* believe when it has read them (Pausing).                                *)
(*                                                                         *)
(* Sound is what is to be known of the streams, the procedure and the      *)
(* messages, StoreRight of the store; Heard is both, of the client's       *)
(* state.  Most operators of the client are Quiet: they disturb neither.   *)
(*                                                                         *)
(* With what the two modules know, the types are correct as well.          *)
(***************************************************************************)
EXTENDS GatewayProofs

-----------------------------------------------------------------------------
(* What is played and what the application has been told of it.            *)

Sides == {"left", "right"}
Attached == {"secured", "closing", "gone"}
EntryFields == {"addr", "conn", "member", "sink", "source"}
HalfFields == {"waiting", "locations", "presets", "caps", "eps"}
Procs == [kind : {"none", "start", "stop"}, all : SUBSET Streams, todo : SUBSET Streams]

\* Streams with an endpoint or about to get one.
Live(e, p) == {t \in Streams : e[t] # "none" \/ (p.kind = "start" /\ t \in p.all)}

\* The store is a table of headsets with two directions each, within their bounds.
HalfOk(h) == DOMAIN h = HalfFields /\ h.eps \in 0..MaxEps /\ h.locations \subseteq Sides
EntryOk(e) == DOMAIN e = EntryFields /\ \A d \in Dirs : HalfOk(e[d])
StoreRight(s) == DOMAIN s = Entries /\ \A i \in Entries : EntryOk(s[i])

\* The headset of a stream is still linked, or has not been freed.
StreamLinked(s, L, l) == \A t \in L :
    s[t[1]].addr # NoAddr /\ \E c \in Conns : l[c].addr = s[t[1]].addr /\ l[c].st \in Attached

\* The link of a stream's headset is closing.
Down(s, l, t) == \E c \in Conns : l[c].addr = s[t[1]].addr /\ l[c].st \in {"closing", "gone"}

\* A start has yet to begin none that runs.
Unbegun(e, p) == p.kind = "start" => \A t \in p.todo : e[t] # "streaming"

\* The application will be in the paused state when it has read its messages.
Pausing(q, x) == \E n \in 0..Len(q) :
    /\ IF n = 0 THEN x = "paused" ELSE q[n].event = "NOT_STREAMING"
    /\ \A m \in n + 1 .. Len(q) : q[m].event # "STREAMING"

\* It will be if no stream runs, and only if the first channels that do lose their link.
Told(s, e, l, q, x) ==
    /\ (\A t \in Streams : e[t] # "streaming") => Pausing(q, x)
    /\ Pausing(q, x) => \A t \in Streams : e[t] = "streaming" /\ t[3] = 1 => Down(s, l, t)

StreamTypes(e, p, G, q, x) ==
    /\ e \in [Streams -> EpStates] /\ p \in Procs /\ p.todo \subseteq p.all /\ G \subseteq Streams
    /\ IsSeq(q) /\ x \in {"paused", "streaming"}

Sound(s, e, p, G, l, q, x) ==
    /\ StreamTypes(e, p, G, q, x)
    /\ StreamLinked(s, Live(e, p), l) /\ Unbegun(e, p) /\ Told(s, e, l, q, x)

LEMMA StreamIs ==
  ASSUME NEW t \in Streams
  PROVE  t[1] \in Entries /\ t[2] \in Dirs /\ t[3] \in 1..MaxEps /\ t = <<t[1], t[2], t[3]>>
  BY DEF Streams

-----------------------------------------------------------------------------
(* The messages.                                                           *)

\* A message of a stream that runs or of the last one that ends, and any other.
LEMMA MessageAdded ==
  ASSUME NEW q, IsSeq(q), NEW x, NEW m
  PROVE  /\ m.event = "STREAMING" => ~ Pausing(Append(q, m), x)
         /\ m.event = "NOT_STREAMING" => Pausing(Append(q, m), x)
         /\ m.event \notin {"STREAMING", "NOT_STREAMING"} => (Pausing(Append(q, m), x) <=> Pausing(q, x))
<1>1. PICK r : r = Append(q, m)
  OBVIOUS
<1>2. /\ Len(q) \in Nat /\ Len(r) = Len(q) + 1
      /\ r[Len(q) + 1] = m /\ \A n \in 1..Len(q) : r[n] = q[n]
  BY <1>1, Appended
<1>3. PICK k \in Nat : k = Len(q)
  BY <1>2
<1>4. ASSUME m.event = "STREAMING" PROVE ~ Pausing(r, x)
  BY <1>2, <1>3, <1>4 DEF Pausing
<1>5. ASSUME m.event = "NOT_STREAMING" PROVE Pausing(r, x)
  BY <1>2, <1>3, <1>5 DEF Pausing
<1>6. ASSUME m.event \notin {"STREAMING", "NOT_STREAMING"} PROVE Pausing(r, x) <=> Pausing(q, x)
  <2>1. ASSUME Pausing(r, x) PROVE Pausing(q, x)
    <3>1. PICK n \in 0..k + 1 : /\ IF n = 0 THEN x = "paused" ELSE r[n].event = "NOT_STREAMING"
                                /\ \A j \in n + 1 .. k + 1 : r[j].event # "STREAMING"
      BY <1>2, <1>3, <2>1 DEF Pausing
    <3>2. n # k + 1
      BY <1>2, <1>3, <1>6, <3>1
    <3>3. n \in 0..k /\ (IF n = 0 THEN x = "paused" ELSE q[n].event = "NOT_STREAMING")
      BY <1>2, <1>3, <3>1, <3>2
    <3>4. \A j \in n + 1 .. k : q[j].event # "STREAMING"
      BY <1>2, <1>3, <3>1, <3>3
    <3>5. QED
      BY <1>3, <3>3, <3>4 DEF Pausing
  <2>2. ASSUME Pausing(q, x) PROVE Pausing(r, x)
    <3>1. PICK n \in 0..k : /\ IF n = 0 THEN x = "paused" ELSE q[n].event = "NOT_STREAMING"
                            /\ \A j \in n + 1 .. k : q[j].event # "STREAMING"
      BY <1>3, <2>2 DEF Pausing
    <3>2. IF n = 0 THEN x = "paused" ELSE r[n].event = "NOT_STREAMING"
      BY <1>2, <1>3, <3>1
    <3>3. \A j \in n + 1 .. k + 1 : r[j].event # "STREAMING"
      BY <1>2, <1>3, <1>6, <3>1
    <3>4. QED
      BY <1>2, <1>3, <3>1, <3>2, <3>3 DEF Pausing
  <2>3. QED
    BY <2>1, <2>2
<1>7. QED
  BY <1>1, <1>4, <1>5, <1>6

\* The state the application is in when it has read a message.
After(m, x) == IF m.event = "STREAMING" THEN "streaming" ELSE IF m.event = "NOT_STREAMING" THEN "paused" ELSE x

LEMMA MessageRead ==
  ASSUME NEW q, IsSeq(q), q # <<>>, NEW x PROVE Pausing(Tail(q), After(Head(q), x)) <=> Pausing(q, x)
<1>1. PICK r : r = Tail(q)
  OBVIOUS
<1>2. PICK k \in Nat : k = Len(q)
  BY TailRead
<1>3. k # 0 /\ Head(q) = q[1] /\ Len(r) = k - 1 /\ \A n \in 1 .. k - 1 : r[n] = q[n + 1]
  BY <1>1, <1>2, TailRead
<1>4. PICK y : y = After(q[1], x)
  OBVIOUS
<1>5. ASSUME Pausing(r, y) PROVE Pausing(q, x)
  <2>1. PICK n \in 0..k - 1 : /\ IF n = 0 THEN y = "paused" ELSE r[n].event = "NOT_STREAMING"
                              /\ \A j \in n + 1 .. k - 1 : r[j].event # "STREAMING"
    BY <1>3, <1>5 DEF Pausing
  <2>2. \A j \in n + 2 .. k : q[j].event # "STREAMING"
    <3>1. SUFFICES ASSUME NEW j \in n + 2 .. k PROVE q[j].event # "STREAMING"
      OBVIOUS
    <3>2. j - 1 \in n + 1 .. k - 1 /\ j - 1 \in 1..k - 1 /\ (j - 1) + 1 = j
      BY <2>1, <3>1, <1>2
    <3>3. r[j - 1] = q[j]
      BY <1>3, <3>2
    <3>4. QED
      BY <2>1, <3>2, <3>3
  <2>3. CASE n # 0
    <3>1. n + 1 \in 0..k /\ n + 1 # 0 /\ q[n + 1].event = "NOT_STREAMING" /\ (n + 1) + 1 = n + 2
      BY <1>2, <1>3, <2>1, <2>3
    <3>2. QED
      BY <1>2, <2>2, <3>1 DEF Pausing
  <2>4. CASE n = 0 /\ q[1].event = "NOT_STREAMING"
    <3>1. 1 \in 0..k /\ 1 + 1 = n + 2
      BY <1>2, <1>3, <2>4
    <3>2. QED
      BY <1>2, <2>2, <2>4, <3>1 DEF Pausing
  <2>5. CASE n = 0 /\ q[1].event # "NOT_STREAMING"
    <3>1. q[1].event # "STREAMING" /\ x = "paused"
      BY <1>4, <2>1, <2>5 DEF After
    <3>2. \A j \in 0 + 1 .. k : q[j].event # "STREAMING"
      BY <1>2, <2>2, <2>5, <3>1
    <3>3. 0 \in 0..k
      BY <1>2
    <3>4. QED
      BY <1>2, <3>1, <3>2, <3>3 DEF Pausing
  <2>6. QED
    BY <2>3, <2>4, <2>5
<1>6. ASSUME Pausing(q, x) PROVE Pausing(r, y)
  <2>1. PICK n \in 0..k : /\ IF n = 0 THEN x = "paused" ELSE q[n].event = "NOT_STREAMING"
                          /\ \A j \in n + 1 .. k : q[j].event # "STREAMING"
    BY <1>2, <1>6 DEF Pausing
  <2>2. CASE n >= 2
    <3>1. n - 1 \in 0..k - 1 /\ n - 1 # 0 /\ r[n - 1].event = "NOT_STREAMING"
      BY <1>2, <1>3, <2>1, <2>2
    <3>2. \A j \in (n - 1) + 1 .. k - 1 : r[j].event # "STREAMING"
      BY <1>2, <1>3, <2>1, <2>2
    <3>3. QED
      BY <1>3, <3>1, <3>2 DEF Pausing
  <2>3. CASE n < 2
    <3>1. y = "paused"
      <4>1. CASE n = 0
        <5>1. q[1].event # "STREAMING"
          BY <1>2, <1>3, <2>1, <4>1
        <5>2. QED
          BY <1>4, <2>1, <4>1, <5>1 DEF After
      <4>2. CASE n = 1
        BY <1>4, <2>1, <4>2 DEF After
      <4>3. QED
        BY <2>1, <2>3, <4>1, <4>2
    <3>2. \A j \in 0 + 1 .. k - 1 : r[j].event # "STREAMING"
      BY <1>2, <1>3, <2>1, <2>3
    <3>3. 0 \in 0..k - 1
      BY <1>2, <1>3
    <3>4. QED
      BY <1>3, <3>1, <3>2, <3>3 DEF Pausing
  <2>4. QED
    BY <2>1, <2>2, <2>3
<1>7. QED
  BY <1>1, <1>3, <1>4, <1>5, <1>6

-----------------------------------------------------------------------------
(* What a callback, a procedure or a link does to streams and messages.    *)

\* A stream changes its state and no other one does.
Moved(e, f, t, st) == f \in [Streams -> EpStates] /\ f[t] = st /\ \A r \in Streams : r # t => f[r] = e[r]

\* stream_configured_cb, of a stream that its start begins.
LEMMA ConfigSound ==
  ASSUME NEW s, NEW e, NEW p, NEW G, NEW l, NEW q, NEW x, Sound(s, e, p, G, l, q, x),
         p.kind = "start", NEW t \in p.todo, NEW f, Moved(e, f, t, "codec"),
         NEW r, r \in Procs, r.kind = "start", r.all = p.all, r.todo = p.todo \ {t}
  PROVE  Sound(s, f, r, G, l, q, x)
<1>1. StreamTypes(e, p, G, q, x) /\ StreamLinked(s, Live(e, p), l) /\ Unbegun(e, p) /\ Told(s, e, l, q, x)
  BY DEF Sound
<1>2. t \in Streams /\ t \in p.all /\ e[t] # "streaming" /\ p.todo \subseteq Streams
  BY <1>1 DEF StreamTypes, Procs, Unbegun
<1>3. Live(f, r) = Live(e, p)
  BY <1>2 DEF Live, Moved
<1>4. StreamTypes(f, r, G, q, x)
  BY <1>1 DEF StreamTypes, Moved
<1>5. \A u \in Streams : f[u] = "streaming" <=> e[u] = "streaming"
  BY <1>2 DEF Moved
<1>6. Unbegun(f, r) /\ Told(s, f, l, q, x)
  BY <1>1, <1>2, <1>5 DEF Unbegun, Told
<1>7. QED
  BY <1>1, <1>3, <1>4, <1>6 DEF Sound

\* stream_started_cb
LEMMA StartSound ==
  ASSUME NEW s, NEW e, NEW p, NEW G, NEW l, NEW q, NEW x, Sound(s, e, p, G, l, q, x),
         p.kind = "start", p.todo = {}, NEW t \in p.all, NEW f, Moved(e, f, t, "streaming"),
         NEW m, m.event = "STREAMING"
  PROVE  Sound(s, f, p, G, l, Append(q, m), x)
<1>1. StreamTypes(e, p, G, q, x) /\ StreamLinked(s, Live(e, p), l)
  BY DEF Sound
<1>2. t \in Streams /\ IsSeq(q)
  BY <1>1 DEF StreamTypes, Procs
<1>3. Live(f, p) = Live(e, p)
  BY <1>2 DEF Live, Moved
<1>4. StreamTypes(f, p, G, Append(q, m), x)
  BY <1>1, Appended DEF StreamTypes, Moved
<1>5. ~ Pausing(Append(q, m), x)
  BY <1>2, MessageAdded
<1>6. Told(s, f, l, Append(q, m), x)
  BY <1>2, <1>5 DEF Told, Moved
<1>7. QED
  BY <1>1, <1>3, <1>4, <1>6 DEF Sound, Unbegun

\* stream_stopped_cb: another stream runs, or the application is told and the first
\* channels that run lose their link.
LEMMA StopSound ==
  ASSUME NEW s, NEW e, NEW p, NEW G, NEW l, NEW q, NEW x, Sound(s, e, p, G, l, q, x),
         NEW t \in Streams, e[t] = "streaming", NEW f, Moved(e, f, t, "disabled"), NEW r,
         \/ r = q /\ \E u \in Streams : f[u] = "streaming"
         \/ /\ \E m : m.event = "NOT_STREAMING" /\ r = Append(q, m)
            /\ \A u \in Streams : f[u] = "streaming" /\ u[3] = 1 => Down(s, l, u)
  PROVE  Sound(s, f, p, G, l, r, x)
<1>1. StreamTypes(e, p, G, q, x) /\ StreamLinked(s, Live(e, p), l) /\ Unbegun(e, p) /\ Told(s, e, l, q, x)
  BY DEF Sound
<1>2. Live(f, p) = Live(e, p)
  BY DEF Live, Moved
<1>3. \A u \in Streams : f[u] = "streaming" => e[u] = "streaming"
  BY DEF Moved
<1>4. StreamTypes(f, p, G, r, x)
  <2>1. IsSeq(q)
    BY <1>1 DEF StreamTypes
  <2>2. \A m : IsSeq(Append(q, m))
    BY <2>1, Appended
  <2>3. IsSeq(r)
    BY <2>1, <2>2
  <2>4. QED
    BY <1>1, <2>3 DEF StreamTypes, Moved
<1>5. Unbegun(f, p)
  BY <1>1, <1>3 DEF Unbegun, StreamTypes, Procs
<1>6. Told(s, f, l, r, x)
  BY <1>1, <1>3, MessageAdded DEF Told, StreamTypes
<1>7. QED
  BY <1>1, <1>2, <1>4, <1>5, <1>6 DEF Sound

\* stream_released_cb, with or without the deletion of the group.
LEMMA ReleaseSound ==
  ASSUME NEW s, NEW e, NEW p, NEW G, NEW l, NEW q, NEW x, Sound(s, e, p, G, l, q, x),
         NEW t \in Streams, e[t] # "streaming", NEW f, Moved(e, f, t, "none")
  PROVE  Sound(s, f, p, G, l, q, x) /\ Sound(s, f, p, {}, l, q, x)
<1>1. StreamTypes(e, p, G, q, x) /\ StreamLinked(s, Live(e, p), l) /\ Unbegun(e, p) /\ Told(s, e, l, q, x)
  BY DEF Sound
<1>2. Live(f, p) \subseteq Live(e, p)
  BY DEF Live, Moved
<1>3. \A u \in Streams : f[u] = "streaming" <=> e[u] = "streaming"
  BY DEF Moved
<1>4. StreamTypes(f, p, G, q, x) /\ StreamTypes(f, p, {}, q, x)
  BY <1>1 DEF StreamTypes, Moved
<1>5. StreamLinked(s, Live(f, p), l)
  BY <1>1, <1>2 DEF StreamLinked
<1>6. Unbegun(f, p)
  BY <1>1, <1>3 DEF Unbegun, StreamTypes, Procs
<1>7. Told(s, f, l, q, x)
  BY <1>1, <1>3 DEF Told
<1>8. QED
  BY <1>4, <1>5, <1>6, <1>7 DEF Sound

\* A procedure ends, a stop begins, or a start has one stream less to begin.
LEMMA ProcSound ==
  ASSUME NEW s, NEW e, NEW p, NEW G, NEW l, NEW q, NEW x, Sound(s, e, p, G, l, q, x),
         NEW r, r \in Procs, r.todo \subseteq r.all,
         \/ r.kind # "start"
         \/ p.kind = "start" /\ r.kind = "start" /\ r.all = p.all /\ r.todo \subseteq p.todo
  PROVE  Sound(s, e, r, G, l, q, x)
<1>1. StreamTypes(e, p, G, q, x) /\ StreamLinked(s, Live(e, p), l) /\ Unbegun(e, p) /\ Told(s, e, l, q, x)
  BY DEF Sound
<1>2. Live(e, r) \subseteq Live(e, p)
  BY DEF Live
<1>3. StreamLinked(s, Live(e, r), l) /\ Unbegun(e, r)
  BY <1>1, <1>2 DEF StreamLinked, Unbegun
<1>4. QED
  BY <1>1, <1>3 DEF Sound, StreamTypes

\* A start of streams of linked headsets that do not run.
LEMMA BegunSound ==
  ASSUME NEW s, NEW e, NEW p, NEW G, NEW l, NEW q, NEW x, Sound(s, e, p, G, l, q, x),
         NEW S \in SUBSET Streams, \A t \in S : e[t] # "streaming", StreamLinked(s, S, l),
         NEW r, r = [kind |-> "start", all |-> S, todo |-> S]
  PROVE  Sound(s, e, r, G, l, q, x)
<1>1. StreamTypes(e, p, G, q, x) /\ StreamLinked(s, Live(e, p), l) /\ Told(s, e, l, q, x)
  BY DEF Sound
<1>2. r \in Procs /\ r.todo \subseteq r.all
  BY DEF Procs
<1>3. Live(e, r) \subseteq Live(e, p) \cup S
  BY DEF Live
<1>4. StreamLinked(s, Live(e, r), l)
  BY <1>1, <1>3 DEF StreamLinked
<1>5. QED
  BY <1>1, <1>2, <1>4 DEF Sound, StreamTypes, Unbegun

\* A message is read.
LEMMA ReadSound ==
  ASSUME NEW s, NEW e, NEW p, NEW G, NEW l, NEW q, NEW x, Sound(s, e, p, G, l, q, x), q # <<>>,
         NEW y, y = After(Head(q), x)
  PROVE  Sound(s, e, p, G, l, Tail(q), y)
<1>1. IsSeq(q) /\ x \in {"paused", "streaming"}
  BY DEF Sound, StreamTypes
<1>2. IsSeq(Tail(q)) /\ (Pausing(Tail(q), y) <=> Pausing(q, x)) /\ y \in {"paused", "streaming"}
  BY <1>1, TailRead, MessageRead DEF After
<1>3. QED
  BY <1>2 DEF Sound, StreamTypes, Told

\* A link that is not yet secured carries no stream, one that is stays or begins to
\* close, and one that is free has ended all its streams.
Carries(s, e, p, l, m) == \A t \in Streams, c \in Conns :
    t \in Live(e, p) /\ l[c].addr = s[t[1]].addr /\ s[t[1]].addr # NoAddr /\ l[c].st \in Attached
    => \/ m[c] = l[c]
       \/ m[c].addr = l[c].addr /\ m[c].st \in {"closing", "gone"}

LEMMA LinkSound ==
  ASSUME NEW s, NEW e, NEW p, NEW G, NEW l, NEW q, NEW x, Sound(s, e, p, G, l, q, x), NEW m, Carries(s, e, p, l, m)
  PROVE  Sound(s, e, p, G, m, q, x)
<1>1. StreamTypes(e, p, G, q, x) /\ StreamLinked(s, Live(e, p), l) /\ Unbegun(e, p) /\ Told(s, e, l, q, x)
  BY DEF Sound
<1>2. \A t \in Live(e, p) : t \in Streams /\ s[t[1]].addr # NoAddr
  BY <1>1 DEF StreamLinked, Live
<1>3. StreamLinked(s, Live(e, p), m)
  BY <1>1, <1>2 DEF StreamLinked, Carries, Attached
<1>4. \A t \in Live(e, p) : Down(s, l, t) => Down(s, m, t)
  BY <1>2 DEF Down, Carries, Attached
<1>5. \A t \in Streams : e[t] = "streaming" => t \in Live(e, p)
  BY DEF Live
<1>6. Told(s, e, m, q, x)
  BY <1>1, <1>4, <1>5 DEF Told
<1>7. QED
  BY <1>1, <1>3, <1>6 DEF Sound

\* The headsets keep their places.
Placed(s, r) == \A i \in Entries : s[i].addr # NoAddr => r[i].addr = s[i].addr

\* The store and the messages may change where streams see nothing of it.
LEMMA StoreSound ==
  ASSUME NEW s, NEW e, NEW p, NEW G, NEW l, NEW q, NEW x, Sound(s, e, p, G, l, q, x),
         NEW r, Placed(s, r), NEW k, IsSeq(k), Pausing(k, x) <=> Pausing(q, x)
  PROVE  Sound(r, e, p, G, l, k, x)
<1>1. StreamTypes(e, p, G, q, x) /\ StreamLinked(s, Live(e, p), l) /\ Unbegun(e, p) /\ Told(s, e, l, q, x)
  BY DEF Sound
<1>2. \A t \in Live(e, p) : t \in Streams /\ t[1] \in Entries /\ r[t[1]].addr = s[t[1]].addr
  BY <1>1, StreamIs DEF StreamLinked, Live, Placed
<1>3. StreamLinked(r, Live(e, p), l)
  BY <1>1, <1>2 DEF StreamLinked
<1>4. \A t \in Streams : e[t] = "streaming" => (Down(s, l, t) <=> Down(r, l, t))
  BY <1>2 DEF Down, Live
<1>5. Told(r, e, l, k, x)
  BY <1>1, <1>4 DEF Told
<1>6. QED
  BY <1>1, <1>3, <1>5 DEF Sound, StreamTypes

-----------------------------------------------------------------------------
(* The streams of a group, in the order of the code's loops.               *)

LEMMA LeastOfTwo ==
  ASSUME NEW a \in Nat, NEW b \in Nat PROVE Least({a, b}) = IF a <= b THEN a ELSE b
<1>1. {a, b} \in SUBSET Nat /\ {a, b} # {}
  OBVIOUS
<1>2. PICK n : n = Least({a, b})
  OBVIOUS
<1>3. n \in {a, b} /\ \A y \in {a, b} : n <= y
  <2>1. \E k \in {a, b} : \A y \in {a, b} : k <= y
    OBVIOUS
  <2>2. QED
    BY <1>2, <2>1 DEF Least
<1>4. QED
  BY <1>2, <1>3

\* The channels of a direction: two only for a sink with both sides.
LEMMA UsedIs ==
  ASSUME NEW h, h.eps \in Nat, h.locations \subseteq Sides
  PROVE  /\ Used(h) \subseteq {1, 2} /\ (1 \in Used(h) <=> h.eps # 0)
         /\ 2 \in Used(h) <=> h.eps >= 2 /\ h.locations = Sides
         /\ \A k \in Used(h) : \A j \in 1..k : j \in Used(h)
<1>1. PICK n \in Nat : n = h.eps
  OBVIOUS
<1>2. Channels(h) \in {1, 2} /\ (Channels(h) = 2 <=> h.locations = Sides)
  <2>1. CASE h.locations = {}
    BY <2>1 DEF Channels, Sides
  <2>2. CASE h.locations = Sides
    <3>1. Cardinality({"left", "right"}) = 2
      <4>1. "left" # "right"
        OBVIOUS
      <4>2. QED
        <5>1. {"left", "right"} = {"left"} \cup {"right"} /\ "right" \notin {"left"}
          BY <4>1
        <5>2. IsFiniteSet({"left"}) /\ Cardinality({"left"}) = 1
          BY FS_Singleton
        <5>3. PICK T : T = {"left"}
          OBVIOUS
        <5>4. Cardinality(T \cup {"right"}) = Cardinality(T) + 1
          BY <5>1, <5>2, <5>3, FS_AddElement
        <5>5. QED
          BY <5>1, <5>2, <5>3, <5>4
    <3>2. QED
      BY <2>2, <3>1 DEF Channels, Sides
  <2>3. CASE h.locations # {} /\ h.locations # Sides
    <3>1. h.locations = {"left"} \/ h.locations = {"right"}
      BY <2>3 DEF Sides
    <3>2. Cardinality({"left"}) = 1 /\ Cardinality({"right"}) = 1
      BY FS_Singleton
    <3>3. QED
      BY <2>3, <3>1, <3>2 DEF Channels
  <2>4. QED
    BY <2>1, <2>2, <2>3
<1>3. PICK m \in {1, 2} : m = Channels(h)
  BY <1>2
<1>4. Least({n, m}) = IF n <= m THEN n ELSE m
  BY LeastOfTwo
<1>5. Used(h) = 1 .. (IF n <= m THEN n ELSE m)
  BY <1>1, <1>3, <1>4 DEF Used
<1>6. QED
  BY <1>1, <1>2, <1>3, <1>5

IsJoined(C, A, B, R) ==
    /\ C \in Seq(R) /\ Len(C) = Len(A) + Len(B)
    /\ \A n \in 1..Len(A) : C[n] = A[n]
    /\ \A n \in 1..Len(B) : C[Len(A) + n] = B[n]

LEMMA Joined == ASSUME NEW R, NEW A \in Seq(R), NEW B \in Seq(R) PROVE IsJoined(A \o B, A, B, R)
  BY DEF IsJoined

LEMMA StreamsFinite == IsFiniteSet(Streams)
<1>1. IsFiniteSet(Entries) /\ IsFiniteSet(1..MaxEps)
  BY FS_Interval, StoreAssumption DEF Entries
<1>2. IsFiniteSet(Dirs)
  <2>1. IsFiniteSet({"sink"})
    BY FS_Singleton
  <2>2. Dirs = {"sink"} \cup {"source"}
    BY DEF Dirs
  <2>3. QED
    BY <2>1, <2>2, FS_AddElement
<1>3. IsFiniteSet(Entries \X Dirs)
  BY <1>1, <1>2, FS_Product
<1>4. PICK S : S = (Entries \X Dirs) \X (1..MaxEps)
  OBVIOUS
<1>5. IsFiniteSet(S)
  BY <1>1, <1>3, <1>4, FS_Product
<1>6. PICK f : f = [p \in S |-> <<p[1][1], p[1][2], p[2]>>]
  OBVIOUS
<1>7. f \in Surjection(S, Streams)
  <2>1. f \in [S -> Streams]
    BY <1>4, <1>6 DEF Streams
  <2>2. \A t \in Streams : \E p \in S : f[p] = t
    <3>1. SUFFICES ASSUME NEW t \in Streams PROVE \E p \in S : f[p] = t
      OBVIOUS
    <3>2. <<<<t[1], t[2]>>, t[3]>> \in S
      BY <1>4 DEF Streams
    <3>3. f[<<<<t[1], t[2]>>, t[3]>>] = t
      BY <1>6, <3>2 DEF Streams
    <3>4. QED
      BY <3>2, <3>3
  <2>3. QED
    BY <2>1, <2>2 DEF Surjection
<1>8. QED
  BY <1>5, <1>7, FS_Surjection

\* Streams of at most two channels.
Narrow == {t \in Streams : t[3] = 1 \/ t[3] = 2}

LEMMA RankTells ==
  ASSUME NEW t \in Narrow, NEW r \in Narrow PROVE Rank(t) \in Int /\ (Rank(t) = Rank(r) => t = r)
<1>1. t \in Streams /\ r \in Streams /\ t[1] \in Int /\ r[1] \in Int /\ t[2] \in Dirs /\ r[2] \in Dirs
  BY StoreAssumption DEF Narrow, Streams, Entries
<1>2. t[3] \in {1, 2} /\ r[3] \in {1, 2}
  BY DEF Narrow
<1>3. Rank(t) \in Int
  BY <1>1, <1>2 DEF Rank
<1>4. ASSUME Rank(t) = Rank(r) PROVE t = r
  <2>1. PICK a \in {0, 50} : a = IF t[2] = "sink" THEN 0 ELSE 50
    OBVIOUS
  <2>2. PICK b \in {0, 50} : b = IF r[2] = "sink" THEN 0 ELSE 50
    OBVIOUS
  <2>3. t[1] * 100 + a + t[3] = r[1] * 100 + b + r[3]
    BY <1>4, <2>1, <2>2 DEF Rank
  <2>4. t[1] = r[1] /\ a = b /\ t[3] = r[3]
    BY <1>1, <1>2, <2>3
  <2>5. t[2] = r[2]
    BY <1>1, <2>1, <2>2, <2>4 DEF Dirs
  <2>6. t = <<t[1], t[2], t[3]>> /\ r = <<r[1], r[2], r[3]>>
    BY <1>1 DEF Streams
  <2>7. QED
    BY <2>4, <2>5, <2>6
<1>5. QED
  BY <1>3, <1>4

Place(S, t) == Cardinality({r \in S : Rank(r) <= Rank(t)})

LEMMA Places ==
  ASSUME NEW S \in SUBSET Narrow
  PROVE  /\ Cardinality(S) \in Nat
         /\ \A t \in S : Place(S, t) \in 1..Cardinality(S)
         /\ \A t, r \in S : Place(S, t) = Place(S, r) => t = r
         /\ \A k \in 1..Cardinality(S) : \E t \in S : Place(S, t) = k
<1>1. IsFiniteSet(S)
  BY StreamsFinite, FS_Subset DEF Narrow
<1>2. PICK n \in Nat : n = Cardinality(S)
  BY <1>1, FS_CardinalityType
<1>3. \A t \in S : Rank(t) \in Int
  BY RankTells
<1> DEFINE Below(t) == {r \in S : Rank(r) <= Rank(t)}
<1>4. \A t \in S : /\ Below(t) \in SUBSET S /\ t \in Below(t) /\ IsFiniteSet(Below(t))
                   /\ Cardinality(Below(t)) \in 1..n /\ Place(S, t) = Cardinality(Below(t))
  <2>1. SUFFICES ASSUME NEW t \in S
                 PROVE  /\ Below(t) \in SUBSET S /\ t \in Below(t) /\ IsFiniteSet(Below(t))
                        /\ Cardinality(Below(t)) \in 1..n
    BY DEF Place
  <2>2. PICK B : B = Below(t)
    OBVIOUS
  <2>3. B \in SUBSET S /\ t \in B
    BY <1>3, <2>2
  <2>4. IsFiniteSet(B) /\ Cardinality(B) <= n
    BY <1>1, <1>2, <2>3, FS_Subset
  <2>5. Cardinality(B) \in Nat /\ Cardinality(B) # 0
    BY <2>3, <2>4, FS_CardinalityType, FS_EmptySet
  <2>6. QED
    BY <1>2, <2>2, <2>3, <2>4, <2>5
<1>5. ASSUME NEW t \in S, NEW r \in S, Rank(t) < Rank(r) PROVE Place(S, t) # Place(S, r)
  <2>1. Below(t) \in SUBSET Below(r) /\ r \notin Below(t) /\ r \in Below(r)
    BY <1>3, <1>5
  <2>2. PICK A : A = Below(t)
    OBVIOUS
  <2>3. PICK B : B = Below(r)
    OBVIOUS
  <2>4. IsFiniteSet(B) /\ A \in SUBSET B /\ A # B /\ Place(S, t) = Cardinality(A) /\ Place(S, r) = Cardinality(B)
    BY <1>4, <2>1, <2>2, <2>3
  <2>5. QED
    BY <2>4, FS_Subset
<1>6. \A t, r \in S : Place(S, t) = Place(S, r) => t = r
  <2>1. SUFFICES ASSUME NEW t \in S, NEW r \in S, t # r PROVE Place(S, t) # Place(S, r)
    OBVIOUS
  <2>2. Rank(t) # Rank(r)
    BY <2>1, RankTells
  <2>3. Rank(t) < Rank(r) \/ Rank(r) < Rank(t)
    BY <1>3, <2>2
  <2>4. QED
    BY <1>5, <2>3
<1>7. \A t \in S : Place(S, t) \in 1..n
  BY <1>4
<1>8. \A k \in 1..n : \E t \in S : Place(S, t) = k
  <2>1. SUFFICES ASSUME NEW k \in 1..n, \A t \in S : Place(S, t) # k PROVE FALSE
    OBVIOUS
  <2>2. PICK T : T = (1..n) \ {k}
    OBVIOUS
  <2>3. IsFiniteSet(1..n) /\ Cardinality(1..n) = n
    BY <1>2, FS_Interval
  <2>4. IsFiniteSet(T) /\ Cardinality(T) = n - 1
    <3>1. PICK N : N = 1..n
      OBVIOUS
    <3>2. IsFiniteSet(N \ {k}) /\ Cardinality(N \ {k}) = Cardinality(N) - 1
      BY <2>1, <2>3, <3>1, FS_RemoveElement
    <3>3. QED
      BY <2>2, <2>3, <3>1, <3>2
  <2>5. PICK f : f = [t \in S |-> Place(S, t)]
    OBVIOUS
  <2>6. f \in [S -> T]
    BY <1>7, <2>1, <2>2, <2>5
  <2>7. Cardinality(T) < Cardinality(S)
    BY <1>2, <2>4
  <2>8. \E t, r \in S : t # r /\ f[t] = f[r]
    BY <1>1, <2>4, <2>6, <2>7, FS_PigeonHole
  <2>9. QED
    BY <1>6, <2>5, <2>8
<1>9. QED
  BY <1>2, <1>6, <1>7, <1>8

LEMMA Ordered ==
  ASSUME NEW S \in SUBSET Narrow
  PROVE  /\ DOMAIN InOrder(S) = 1..Cardinality(S) /\ Cardinality(S) \in Nat
         /\ \A k \in 1..Cardinality(S) : InOrder(S)[k] \in S
         /\ \A t \in S : \E k \in 1..Cardinality(S) : InOrder(S)[k] = t
<1>1. PICK n \in Nat : n = Cardinality(S)
  BY Places
<1>2. InOrder(S) = [k \in 1..n |-> CHOOSE t \in S : Place(S, t) = k]
  BY <1>1 DEF InOrder, Place
<1>3. PICK f : f = InOrder(S)
  OBVIOUS
<1>4. DOMAIN f = 1..n /\ \A k \in 1..n : f[k] = CHOOSE t \in S : Place(S, t) = k
  BY <1>2, <1>3
<1>5. \A k \in 1..n : f[k] \in S /\ Place(S, f[k]) = k
  <2>1. SUFFICES ASSUME NEW k \in 1..n PROVE f[k] \in S /\ Place(S, f[k]) = k
    OBVIOUS
  <2>2. \E t \in S : Place(S, t) = k
    BY <1>1, Places
  <2>3. QED
    BY <1>4, <2>2
<1>6. \A t \in S : \E k \in 1..n : f[k] = t
  <2>1. SUFFICES ASSUME NEW t \in S PROVE f[Place(S, t)] = t /\ Place(S, t) \in 1..n
    OBVIOUS
  <2>2. Place(S, t) \in 1..n
    BY <1>1, Places
  <2>3. QED
    BY <1>5, <2>2, Places
<1>7. QED
  BY <1>1, <1>3, <1>4, <1>5, <1>6

\* The streams of a group that is a sequence of pairs.
GroupOf(g) == (UNION {{p.tx, p.rx} : p \in {g[k] : k \in DOMAIN g}}) \ {NoStream}

LEMMA InGroup ==
  ASSUME NEW g, NEW t PROVE t \in GroupOf(g) <=> t # NoStream /\ \E k \in DOMAIN g : t = g[k].tx \/ t = g[k].rx
<1>1. t \in GroupOf(g) <=> t # NoStream /\ \E z \in {{p.tx, p.rx} : p \in {g[k] : k \in DOMAIN g}} : t \in z
  <2>1. PICK Z : Z = {{p.tx, p.rx} : p \in {g[k] : k \in DOMAIN g}}
    OBVIOUS
  <2>2. GroupOf(g) = (UNION Z) \ {NoStream}
    BY <2>1 DEF GroupOf
  <2>3. t \in UNION Z <=> \E z \in Z : t \in z
    OBVIOUS
  <2>4. t \in GroupOf(g) <=> t # NoStream /\ t \in UNION Z
    BY <2>2
  <2>5. QED
    BY <2>1, <2>3, <2>4, Zenon
<1>2. (\E z \in {{p.tx, p.rx} : p \in {g[k] : k \in DOMAIN g}} : t \in z) <=> \E k \in DOMAIN g : t \in {g[k].tx, g[k].rx}
  OBVIOUS
<1>3. QED
  BY <1>1, <1>2

\* unicast_group_create: the pairs have no stream that is not populated.
LEMMA PairsHold ==
  ASSUME NEW u, NEW A, A = Populated(u, "sink"), NEW B, B = Populated(u, "source"), A \subseteq Narrow, B \subseteq Narrow
  PROVE  GroupOf(Pairs(u)) \subseteq A \cup B
<1> DEFINE sinks == InOrder(A)
           sources == InOrder(B)
           same(k) == {j \in DOMAIN sources : j >= k /\ sources[j][1] = sinks[k][1]}
           pair(k) == [tx |-> sinks[k], rx |-> IF same(k) = {} THEN NoStream ELSE sources[Least(same(k))]]
           paired == [k \in DOMAIN sinks |-> pair(k)]
           alone == {sources[j] : j \in DOMAIN sources} \ {paired[k].rx : k \in DOMAIN paired}
           rest == [k \in 1..Cardinality(alone) |-> [tx |-> NoStream, rx |-> InOrder(alone)[k]]]
<1>1. Pairs(u) = paired \o rest
  BY DEF Pairs
<1>2. PICK R : R = [tx : A \cup {NoStream}, rx : B \cup {NoStream}]
  OBVIOUS
<1>3. DOMAIN sinks = 1..Cardinality(A) /\ Cardinality(A) \in Nat /\ \A k \in 1..Cardinality(A) : sinks[k] \in A
  BY Ordered
<1>4. DOMAIN sources = 1..Cardinality(B) /\ Cardinality(B) \in Nat /\ \A k \in 1..Cardinality(B) : sources[k] \in B
  BY Ordered
<1>5. \A k \in DOMAIN sinks : pair(k) \in R /\ pair(k).tx = sinks[k]
  <2>1. SUFFICES ASSUME NEW k \in DOMAIN sinks PROVE pair(k) \in R
    OBVIOUS
  <2>2. sinks[k] \in A
    BY <1>3
  <2>3. same(k) # {} => sources[Least(same(k))] \in B
    <3>1. PICK T : T = same(k)
      OBVIOUS
    <3>2. T \subseteq DOMAIN sources /\ T \in SUBSET Nat
      BY <1>4, <3>1
    <3>3. T # {} => Least(T) \in T
      BY <3>2, LeastIsOne
    <3>4. QED
      BY <1>4, <3>1, <3>2, <3>3
  <2>4. PICK y : y = IF same(k) = {} THEN NoStream ELSE sources[Least(same(k))]
    OBVIOUS
  <2>5. y \in B \cup {NoStream}
    BY <2>3, <2>4
  <2>6. QED
    BY <1>2, <2>2, <2>4, <2>5
<1> HIDE DEF pair
<1>6. paired \in Seq(R)
  BY <1>3, <1>5
<1>7. alone \subseteq B
  BY <1>4
<1> HIDE DEF paired, sinks, sources
<1>8. PICK C : C = alone
  OBVIOUS
<1>9. PICK m : m = Cardinality(C)
  OBVIOUS
<1>10. m \in Nat /\ \A k \in 1..m : InOrder(C)[k] \in C
  BY <1>7, <1>8, <1>9, Ordered
<1> HIDE DEF alone
<1>11. rest = [k \in 1..m |-> [tx |-> NoStream, rx |-> InOrder(C)[k]]]
  BY <1>8, <1>9
<1> HIDE DEF rest
<1>12. rest \in Seq(R)
  <2>1. \A k \in 1..m : [tx |-> NoStream, rx |-> InOrder(C)[k]] \in R
    BY <1>2, <1>7, <1>8, <1>10
  <2>2. QED
    BY <1>10, <1>11, <2>1
<1>13. PICK g : g = Pairs(u)
  OBVIOUS
<1>14. g \in Seq(R)
  <2>1. IsJoined(g, paired, rest, R)
    BY <1>1, <1>6, <1>12, <1>13, Joined
  <2>2. QED
    BY <2>1 DEF IsJoined
<1>15. \A k \in DOMAIN g : g[k].tx \in A \cup {NoStream} /\ g[k].rx \in B \cup {NoStream}
  <2>1. \A k \in DOMAIN g : g[k] \in R
    BY <1>14
  <2>2. QED
    BY <1>2, <2>1
<1>16. QED
  BY <1>13, <1>15, InGroup

\* No direction has more than two channels.
LEMMA PopulatedNarrow ==
  ASSUME NEW u, StoreRight(u.servers), NEW d \in Dirs PROVE Populated(u, d) \subseteq Narrow
<1>1. SUFFICES ASSUME NEW t \in Populated(u, d) PROVE t \in Narrow
  OBVIOUS
<1>2. t \in Streams /\ t[3] \in Used(u.servers[t[1]][d]) /\ t[1] \in Entries
  BY StreamIs DEF Populated
<1>3. PICK h : h = u.servers[t[1]][d]
  OBVIOUS
<1>4. h.eps \in Nat /\ h.locations \subseteq Sides
  BY <1>2, <1>3, StoreAssumption DEF StoreRight, EntryOk, HalfOk
<1>5. Used(h) \subseteq {1, 2}
  BY <1>4, UsedIs
<1>6. QED
  BY <1>2, <1>3, <1>5 DEF Narrow

LEMMA NewGroup == ASSUME NEW u, StoreRight(u.servers) PROVE GroupOf(Pairs(u)) \subseteq Streams
<1>1. Populated(u, "sink") \subseteq Narrow /\ Populated(u, "source") \subseteq Narrow
  BY PopulatedNarrow DEF Dirs
<1>2. GroupOf(Pairs(u)) \subseteq Populated(u, "sink") \cup Populated(u, "source")
  BY <1>1, PairsHold
<1>3. QED
  BY <1>1, <1>2 DEF Narrow

-----------------------------------------------------------------------------
(* The store, by its entries.                                              *)

LEMMA HalfChanged ==
  ASSUME NEW g, HalfOk(g), NEW f \in {"waiting", "presets", "caps"}, NEW e PROVE HalfOk([g EXCEPT ![f] = e])
<1>1. "eps" # f /\ "locations" # f /\ "eps" \in HalfFields /\ "locations" \in HalfFields
  BY DEF HalfFields
<1>2. QED
  BY <1>1 DEF HalfOk

LEMMA HalfMeasured ==
  ASSUME NEW g, HalfOk(g), NEW e
  PROVE  /\ e \in 0..MaxEps => HalfOk([g EXCEPT !.eps = e])
         /\ e \subseteq Sides => HalfOk([g EXCEPT !.locations = e])
  BY DEF HalfOk, HalfFields

\* A field of an entry changes that is not its address.
LEMMA PartRight ==
  ASSUME NEW s, StoreRight(s), NEW i, NEW d \in {"none", "sink", "source", "member", "conn"}, NEW h,
         i \in Entries /\ d \in Dirs => HalfOk(h), NEW t, t = [s EXCEPT ![i] = [s[i] EXCEPT ![d] = h]]
  PROVE  StoreRight(t) /\ Placed(s, t)
<1>1. PICK e : e = [s[i] EXCEPT ![d] = h]
  OBVIOUS
<1>2. DOMAIN s = Entries /\ DOMAIN t = Entries /\ \A j \in Entries : t[j] = IF j = i THEN e ELSE s[j]
  BY <1>1 DEF StoreRight
<1>3. CASE i \notin Entries
  <2>1. \A j \in Entries : t[j] = s[j]
    BY <1>2, <1>3
  <2>2. QED
    BY <1>2, <2>1 DEF StoreRight, Placed
<1>4. CASE i \in Entries
  <2>1. PICK f : f = s[i]
    OBVIOUS
  <2>2. EntryOk(f) /\ DOMAIN f = EntryFields
    BY <1>4, <2>1 DEF StoreRight, EntryOk
  <2>3. e = [f EXCEPT ![d] = h] /\ "addr" # d /\ "addr" \in EntryFields
    BY <1>1, <2>1 DEF EntryFields
  <2>4. DOMAIN e = EntryFields /\ e.addr = f.addr
    BY <2>2, <2>3
  <2>5. ASSUME NEW c \in Dirs PROVE HalfOk(e[c])
    <3>1. c \in EntryFields
      BY DEF Dirs, EntryFields
    <3>2. e[c] = IF c = d THEN h ELSE f[c]
      BY <2>2, <2>3, <3>1
    <3>3. QED
      BY <1>4, <2>2, <3>2 DEF EntryOk
  <2>6. EntryOk(e)
    BY <2>4, <2>5 DEF EntryOk
  <2>7. QED
    BY <1>2, <2>1, <2>4, <2>6 DEF StoreRight, Placed
<1>5. QED
  BY <1>3, <1>4

\* Presets are given a delay.
LEMMA NewPresDlyRight ==
  ASSUME NEW s, StoreRight(s), NEW S, NEW pd PROVE StoreRight(NewPresDlySet(s, S, pd)) /\ Placed(s, NewPresDlySet(s, S, pd))
<1>1. PICK r : r = NewPresDlySet(s, S, pd)
  OBVIOUS
<1> DEFINE preset(i, d, k) == IF <<i, d, k>> \in S
                              THEN [rate |-> s[i][d].presets[k].rate, octets |-> s[i][d].presets[k].octets, pd |-> pd]
                              ELSE s[i][d].presets[k]
           half(i, d) == [s[i][d] EXCEPT !.presets = [k \in 1..MaxEps |-> preset(i, d, k)]]
           entry(i) == [d \in DOMAIN s[i] |-> IF d \notin Dirs THEN s[i][d] ELSE half(i, d)]
<1>2. r = [i \in Entries |-> entry(i)]
  BY <1>1 DEF NewPresDlySet
<1> HIDE DEF preset
<1>3. \A i \in Entries, d \in Dirs : HalfOk(half(i, d))
  BY HalfChanged DEF StoreRight, EntryOk
<1> HIDE DEF half
<1>4. "addr" \in EntryFields \ Dirs /\ Dirs \subseteq EntryFields
  BY DEF Dirs, EntryFields
<1>5. \A i \in Entries : DOMAIN s[i] = EntryFields
  BY DEF StoreRight, EntryOk
<1>6. \A i \in Entries : /\ DOMAIN entry(i) = EntryFields /\ entry(i).addr = s[i].addr
                         /\ \A d \in Dirs : entry(i)[d] = half(i, d)
  BY <1>4, <1>5
<1> HIDE DEF entry
<1>7. DOMAIN r = Entries /\ \A i \in Entries : r[i] = entry(i)
  BY <1>2
<1>8. \A i \in Entries : EntryOk(r[i])
  BY <1>3, <1>6, <1>7 DEF EntryOk
<1>9. QED
  BY <1>1, <1>6, <1>7, <1>8 DEF StoreRight, Placed

\* A new entry, and one that is cleared.
LEMMA EmptyEntry ==
  ASSUME NEW a, NEW c, NEW e, e = [NoServer EXCEPT !.addr = a, !.conn = c] \/ e = [NoServer EXCEPT !.addr = a]
  PROVE  EntryOk(e) /\ e.addr = a
<1>1. PICK h : h = EmptyHalf
  OBVIOUS
<1>2. HalfOk(h)
  BY <1>1, StoreAssumption DEF EmptyHalf, HalfOk, HalfFields, Sides
<1>3. DOMAIN e = EntryFields /\ e.addr = a /\ e.sink = h /\ e.source = h
  BY <1>1 DEF NoServer, EntryFields
<1>4. QED
  BY <1>2, <1>3 DEF EntryOk, Dirs

LEMMA EntryReplaced ==
  ASSUME NEW s, StoreRight(s), NEW i \in Entries, NEW e, EntryOk(e), s[i].addr = NoAddr \/ s[i].addr = e.addr,
         NEW t, t = [s EXCEPT ![i] = e]
  PROVE  StoreRight(t) /\ Placed(s, t)
  BY DEF StoreRight, Placed

LEMMA PlacedItself == ASSUME NEW s PROVE Placed(s, s)
  BY DEF Placed

LEMMA AddByConnRight ==
  ASSUME NEW s, StoreRight(s), NEW c, NEW a, NEW t, t = AddByConn(s, c, a).servers PROVE StoreRight(t) /\ Placed(s, t)
<1>1. PICK e : e = [NoServer EXCEPT !.addr = a, !.conn = c]
  OBVIOUS
<1>2. PICK i : i = FromAddr(s, NoAddr)
  OBVIOUS
<1>3. t = s \/ (i # 0 /\ t = [s EXCEPT ![i] = e])
  BY <1>1, <1>2 DEF AddByConn, ServerAdd, Result
<1>4. i # 0 => i \in Entries /\ s[i].addr = NoAddr
  BY <1>2, SearchFinds
<1>5. EntryOk(e) /\ e.addr = a
  BY <1>1, EmptyEntry
<1>6. CASE t = s
  BY <1>6, PlacedItself
<1>7. CASE i # 0 /\ t = [s EXCEPT ![i] = e]
  <2>1. i \in Entries /\ (s[i].addr = NoAddr \/ s[i].addr = e.addr)
    BY <1>4, <1>5, <1>7
  <2>2. QED
    BY <1>5, <1>7, <2>1, EntryReplaced
<1>8. QED
  BY <1>3, <1>6, <1>7

LEMMA ConnUpdateRight ==
  ASSUME NEW s, StoreRight(s), NEW c, NEW a, NEW t, t = ConnUpdate(s, c, a).servers PROVE StoreRight(t) /\ Placed(s, t)
<1>1. PICK i : i = FromAddr(s, a)
  OBVIOUS
<1>2. PICK d \in {"none", "sink", "source", "member", "conn"} : d = "conn"
  OBVIOUS
<1>3. t = s \/ t = [s EXCEPT ![i] = [s[i] EXCEPT ![d] = c]]
  BY <1>1, <1>2 DEF ConnUpdate, Result
<1>4. d \notin Dirs
  BY <1>2 DEF Dirs
<1>5. CASE t = s
  BY <1>5, PlacedItself
<1>6. CASE t = [s EXCEPT ![i] = [s[i] EXCEPT ![d] = c]]
  BY <1>2, <1>4, <1>6, PartRight
<1>7. QED
  BY <1>3, <1>5, <1>6

LEMMA ClearByConnRight ==
  ASSUME NEW s, StoreRight(s), NEW c, NEW a, NEW t, t = ClearByConn(s, c, a) PROVE StoreRight(t) /\ Placed(s, t)
<1>1. PICK e : e = [NoServer EXCEPT !.addr = a]
  OBVIOUS
<1>2. PICK i : i = FromAddr(s, a)
  OBVIOUS
<1>3. t = s \/ (i # 0 /\ t = [s EXCEPT ![i] = e])
  BY <1>1, <1>2 DEF ClearByConn
<1>4. i # 0 => i \in Entries /\ s[i].addr = a
  BY <1>2, SearchFinds
<1>5. EntryOk(e) /\ e.addr = a
  BY <1>1, EmptyEntry
<1>6. CASE t = s
  BY <1>6, PlacedItself
<1>7. CASE i # 0 /\ t = [s EXCEPT ![i] = e]
  <2>1. i \in Entries /\ (s[i].addr = NoAddr \/ s[i].addr = e.addr)
    BY <1>4, <1>5, <1>7
  <2>2. QED
    BY <1>5, <1>7, <2>1, EntryReplaced
<1>8. QED
  BY <1>3, <1>6, <1>7

-----------------------------------------------------------------------------
(* unicast_client.c: what holds of what is played, and the operators that  *)
(* disturb none of it.                                                     *)

Heard(u, l, x) ==
    /\ Sound(u.servers, u.ep, u.proc, GroupStreams(u), l, u.audioQ, x)
    /\ StoreRight(u.servers)

\* The messages say the same.
SameTold(q, k) == IsSeq(q) => IsSeq(k) /\ \A x : Pausing(k, x) <=> Pausing(q, x)

\* The streams, the procedure and the group stay, the store and the messages change only
\* where the streams see nothing of it.
Quiet(u, v) ==
    /\ v.ep = u.ep /\ v.proc = u.proc /\ v.group = u.group
    /\ StoreRight(u.servers) => StoreRight(v.servers) /\ Placed(u.servers, v.servers)
    /\ SameTold(u.audioQ, v.audioQ)

LEMMA QuietHeard == ASSUME NEW u, NEW v, Quiet(u, v), NEW l, NEW x, Heard(u, l, x) PROVE Heard(v, l, x)
<1>1. PICK G : G = GroupStreams(u)
  OBVIOUS
<1>2. GroupStreams(v) = G
  BY <1>1 DEF Quiet, GroupStreams
<1>3. Sound(u.servers, u.ep, u.proc, G, l, u.audioQ, x) /\ StoreRight(u.servers)
  BY <1>1 DEF Heard
<1>4. IsSeq(u.audioQ)
  BY <1>3 DEF Sound, StreamTypes
<1>5. /\ v.ep = u.ep /\ v.proc = u.proc /\ StoreRight(v.servers) /\ Placed(u.servers, v.servers)
      /\ IsSeq(v.audioQ) /\ (Pausing(v.audioQ, x) <=> Pausing(u.audioQ, x))
  BY <1>3, <1>4 DEF Quiet, SameTold
<1>6. Sound(v.servers, u.ep, u.proc, G, l, v.audioQ, x)
  BY <1>3, <1>5, StoreSound
<1>7. QED
  BY <1>2, <1>5, <1>6 DEF Heard

LEMMA QuietItself == ASSUME NEW u PROVE Quiet(u, u)
  BY PlacedItself DEF Quiet, SameTold

LEMMA QuietOn == ASSUME NEW u, NEW v, NEW w, Quiet(u, v), Quiet(v, w) PROVE Quiet(u, w)
<1>1. SameTold(u.audioQ, w.audioQ)
  BY DEF Quiet, SameTold
<1>2. ASSUME StoreRight(u.servers) PROVE StoreRight(w.servers) /\ Placed(u.servers, w.servers)
  BY <1>2 DEF Quiet, Placed
<1>3. QED
  BY <1>1, <1>2 DEF Quiet

LEMMA FieldSet ==
  ASSUME NEW u, Client(u), NEW f \in ClientFields, NEW e, NEW v, v = [u EXCEPT ![f] = e]
  PROVE  DOMAIN v = ClientFields /\ v[f] = e /\ \A g \in ClientFields : g # f => v[g] = u[g]
  BY DEF Client

\* The fields that are not seen.
LEMMA UnseenField ==
  ASSUME NEW u, Client(u), NEW f \in {"sem", "capQ", "created", "playing", "startWork", "cas", "disc", "kept"}, NEW e
  PROVE  Quiet(u, [u EXCEPT ![f] = e])
<1>1. PICK v : v = [u EXCEPT ![f] = e]
  OBVIOUS
<1>2. f \in ClientFields /\ {"servers", "ep", "proc", "group", "audioQ"} \subseteq ClientFields
  BY DEF ClientFields
<1>3. \A g \in ClientFields : g # f => v[g] = u[g]
  BY <1>1, <1>2, FieldSet
<1>4. v.servers = u.servers /\ v.ep = u.ep /\ v.proc = u.proc /\ v.group = u.group /\ v.audioQ = u.audioQ
  BY <1>2, <1>3
<1>5. QED
  BY <1>1, <1>4, PlacedItself DEF Quiet, SameTold

LEMMA DiscQuiet == ASSUME NEW u, Client(u), NEW c, NEW d PROVE Quiet(u, [u EXCEPT !.disc[c] = d])
<1>1. [u EXCEPT !.disc[c] = d] = [u EXCEPT !["disc"] = [u.disc EXCEPT ![c] = d]]
  OBVIOUS
<1>2. QED
  BY <1>1, UnseenField

LEMMA ServersQuiet ==
  ASSUME NEW u, Client(u), NEW t, StoreRight(u.servers) => StoreRight(t) /\ Placed(u.servers, t)
  PROVE  Quiet(u, [u EXCEPT !.servers = t])
<1>1. PICK v : v = [u EXCEPT !.servers = t]
  OBVIOUS
<1>2. v.servers = t /\ v.ep = u.ep /\ v.proc = u.proc /\ v.group = u.group /\ v.audioQ = u.audioQ
  BY <1>1, Fields
<1>3. QED
  BY <1>1, <1>2 DEF Quiet, SameTold

LEMMA PartQuiet ==
  ASSUME NEW u, Client(u), NEW i, NEW d \in {"none", "sink", "source", "member"}, NEW h,
         StoreRight(u.servers) /\ i \in Entries /\ d \in Dirs => HalfOk(h),
         NEW t, t = [u.servers EXCEPT ![i] = [u.servers[i] EXCEPT ![d] = h]]
  PROVE  Quiet(u, [u EXCEPT !.servers = t])
<1>1. ASSUME StoreRight(u.servers) PROVE StoreRight(t) /\ Placed(u.servers, t)
  BY <1>1, PartRight
<1>2. QED
  BY <1>1, ServersQuiet

\* A message that says nothing of whether a stream runs.
LEMMA PublishQuiet ==
  ASSUME NEW u, Client(u), NEW event, event \notin {"STREAMING", "NOT_STREAMING"}, NEW c, NEW d
  PROVE  Quiet(u, Publish(u, event, c, d))
<1>1. PICK m : m = [event |-> event, conn |-> c, dir |-> d]
  OBVIOUS
<1>2. PICK v : v = Publish(u, event, c, d)
  OBVIOUS
<1>3. v.servers = u.servers /\ v.ep = u.ep /\ v.proc = u.proc /\ v.group = u.group /\ v.audioQ = Append(u.audioQ, m)
  BY <1>1, <1>2, Fields DEF Publish
<1>4. m.event = event
  BY <1>1
<1>5. ASSUME IsSeq(u.audioQ) PROVE IsSeq(Append(u.audioQ, m)) /\ \A x : Pausing(Append(u.audioQ, m), x) <=> Pausing(u.audioQ, x)
  BY <1>4, <1>5, Appended, MessageAdded
<1>6. QED
  BY <1>2, <1>3, <1>5, PlacedItself DEF Quiet, SameTold

\* The discovery of a headset.
LEMMA DiscoverQuiet == ASSUME NEW u, Client(u), NEW i PROVE Quiet(u, Discover(u, i))
<1> DEFINE D == {"none", "sink", "source", "member"}
<1>0. PICK snk \in D, src \in D : snk = "sink" /\ src = "source"
  OBVIOUS
<1>1. PICK c : c = u.servers[i].conn
  OBVIOUS
<1>2. PICK h1 : h1 = [u.servers[i][snk] EXCEPT !.waiting = TRUE]
  OBVIOUS
<1>3. PICK t1 : t1 = [u.servers EXCEPT ![i] = [u.servers[i] EXCEPT ![snk] = h1]]
  OBVIOUS
<1>4. PICK v1 : v1 = [u EXCEPT !.servers = t1]
  OBVIOUS
<1>5. PICK h2 : h2 = [v1.servers[i][src] EXCEPT !.waiting = Bidirectional]
  OBVIOUS
<1>6. PICK t2 : t2 = [v1.servers EXCEPT ![i] = [v1.servers[i] EXCEPT ![src] = h2]]
  OBVIOUS
<1>7. PICK v2 : v2 = [v1 EXCEPT !.servers = t2]
  OBVIOUS
<1>8. PICK v3 : v3 = [v2 EXCEPT !.cas[c] = TRUE]
  OBVIOUS
<1>9. ASSUME NEW g, HalfOk(g), NEW e PROVE HalfOk([g EXCEPT !.waiting = e])
  BY <1>9, HalfChanged
<1>10. Quiet(u, v1) /\ Kept(u, v1) /\ Client(v1)
  <2>1. StoreRight(u.servers) /\ i \in Entries /\ snk \in Dirs => HalfOk(h1)
    BY <1>2, <1>9 DEF StoreRight, EntryOk
  <2>2. Kept(u, v1)
    BY <1>0, <1>3, <1>4, PartKept
  <2>3. QED
    BY <1>0, <1>3, <1>4, <2>1, <2>2, PartQuiet DEF Kept
<1>11. Quiet(v1, v2) /\ Client(v2)
  <2>1. StoreRight(v1.servers) /\ i \in Entries /\ src \in Dirs => HalfOk(h2)
    BY <1>5, <1>9 DEF StoreRight, EntryOk
  <2>2. Kept(v1, v2)
    BY <1>0, <1>6, <1>7, <1>10, PartKept
  <2>3. QED
    BY <1>0, <1>6, <1>7, <1>10, <2>1, <2>2, PartQuiet DEF Kept
<1>12. Quiet(v2, v3) /\ Client(v3)
  <2>1. v3 = [v2 EXCEPT !["cas"] = [v2.cas EXCEPT ![c] = TRUE]]
    BY <1>8
  <2>2. QED
    BY <1>11, <2>1, OtherField, UnseenField DEF Kept
<1>13. Quiet(v3, [v3 EXCEPT !.disc[c] = [dir |-> "sink", next |-> 1]])
  BY <1>12, DiscQuiet
<1>14. v1 = [u EXCEPT !.servers[i].sink.waiting = TRUE]
  BY <1>0, <1>2, <1>3, <1>4
<1>15. v2 = [v1 EXCEPT !.servers[i].source.waiting = Bidirectional]
  BY <1>0, <1>5, <1>6, <1>7
<1>16. Discover(u, i) = [v3 EXCEPT !.disc[c] = [dir |-> "sink", next |-> 1]]
  BY <1>1, <1>8, <1>14, <1>15 DEF Discover
<1>17. Quiet(u, v3)
  BY <1>10, <1>11, <1>12, QuietOn
<1>18. QED
  BY <1>13, <1>16, <1>17, QuietOn

LEMMA LocationQuiet ==
  ASSUME NEW u, Client(u), NEW i, NEW conn, NEW d \in DiscDirs, NEW loc PROVE Quiet(u, Location(u, i, conn, d, loc))
<1>1. ASSUME NEW l \in SUBSET Sides PROVE Quiet(u, [u EXCEPT !.servers = LocationSet(@, i, d, l)])
  <2>1. PICK h : h = [u.servers[i][d] EXCEPT !.locations = l]
    OBVIOUS
  <2>2. PICK t : t = [u.servers EXCEPT ![i] = [u.servers[i] EXCEPT ![d] = h]]
    OBVIOUS
  <2>3. t = LocationSet(u.servers, i, d, l)
    BY <2>1, <2>2 DEF LocationSet
  <2>4. StoreRight(u.servers) /\ i \in Entries /\ d \in Dirs => HalfOk(h)
    BY <2>1, HalfMeasured DEF StoreRight, EntryOk
  <2>5. Quiet(u, [u EXCEPT !.servers = t])
    BY <2>2, <2>4, PartQuiet DEF DiscDirs
  <2>6. QED
    BY <2>3, <2>5
<1>2. Quiet(u, Publish(u, "NO_VALID_CFG", conn, d))
  BY PublishQuiet
<1>3. {"left", "right"} \in SUBSET Sides /\ {"left"} \in SUBSET Sides /\ {"right"} \in SUBSET Sides
  BY DEF Sides
<1>4. QED
  BY <1>1, <1>2, <1>3, Zenon DEF Location

LEMMA EndpointQuiet ==
  ASSUME NEW u, Client(u), NEW i, NEW d \in DiscDirs PROVE Quiet(u, Endpoint(u, i, d))
<1>1. PICK n : n = IF u.servers[i][d].eps < MaxEps THEN u.servers[i][d].eps + 1 ELSE u.servers[i][d].eps
  OBVIOUS
<1>2. PICK h : h = [u.servers[i][d] EXCEPT !.eps = n]
  OBVIOUS
<1>3. PICK t : t = [u.servers EXCEPT ![i] = [u.servers[i] EXCEPT ![d] = h]]
  OBVIOUS
<1>4. Endpoint(u, i, d) = [u EXCEPT !.servers = t]
  BY <1>1, <1>2, <1>3 DEF Endpoint
<1>5. ASSUME StoreRight(u.servers), i \in Entries, d \in Dirs PROVE HalfOk(h)
  <2>1. PICK g : g = u.servers[i][d]
    OBVIOUS
  <2>2. HalfOk(g)
    BY <1>5, <2>1 DEF StoreRight, EntryOk
  <2>3. n \in 0..MaxEps
    BY <1>1, <2>1, <2>2, StoreAssumption DEF HalfOk
  <2>4. QED
    BY <1>2, <2>1, <2>2, <2>3, HalfMeasured
<1>6. StoreRight(u.servers) /\ i \in Entries /\ d \in Dirs => HalfOk(h)
  BY <1>5
<1>7. Quiet(u, [u EXCEPT !.servers = t])
  BY <1>3, <1>6, PartQuiet DEF DiscDirs
<1>8. QED
  BY <1>4, <1>7

LEMMA CodecCapQuiet ==
  ASSUME NEW u, Client(u), NEW i, NEW d \in DiscDirs, NEW cap
  PROVE  Quiet(u, [u EXCEPT !.servers = CodecCapSet(@, i, d, cap)])
<1>1. PICK t : t = CodecCapSet(u.servers, i, d, cap)
  OBVIOUS
<1>2. PICK h : h = [u.servers[i][d] EXCEPT !.caps = Append(@, cap)]
  OBVIOUS
<1>3. t = u.servers \/ t = [u.servers EXCEPT ![i] = [u.servers[i] EXCEPT ![d] = h]]
  BY <1>1, <1>2 DEF CodecCapSet
<1>4. ASSUME StoreRight(u.servers), i \in Entries, d \in Dirs PROVE HalfOk(h)
  <2>1. HalfOk(u.servers[i][d])
    BY <1>4 DEF StoreRight, EntryOk
  <2>2. QED
    BY <1>2, <2>1, HalfChanged
<1>5. CASE t = u.servers
  BY <1>1, <1>5, ServersQuiet, PlacedItself
<1>6. CASE t = [u.servers EXCEPT ![i] = [u.servers[i] EXCEPT ![d] = h]]
  <2>1. Quiet(u, [u EXCEPT !.servers = t])
    BY <1>4, <1>6, PartQuiet DEF DiscDirs
  <2>2. QED
    BY <1>1, <2>1
<1>7. QED
  BY <1>3, <1>5, <1>6

LEMMA DiscoveredQuiet ==
  ASSUME NEW u, Client(u), NEW i, NEW conn, NEW d \in DiscDirs PROVE Quiet(u, Discovered(u, i, conn, d))
<1> DEFINE use(k) == [u EXCEPT !.servers[i][d].presets =
                         [j \in 1..MaxEps |-> IF j <= k THEN BestPreset(u.servers[i][d]) ELSE @[j]]]
<1>1. ASSUME NEW k PROVE Quiet(u, use(k)) /\ Client(use(k))
  <2>1. PICK p : p = [j \in 1..MaxEps |-> IF j <= k THEN BestPreset(u.servers[i][d])
                                           ELSE u.servers[i][d].presets[j]]
    OBVIOUS
  <2>2. PICK h : h = [u.servers[i][d] EXCEPT !.presets = p]
    OBVIOUS
  <2>3. PICK t : t = [u.servers EXCEPT ![i] = [u.servers[i] EXCEPT ![d] = h]]
    OBVIOUS
  <2>4. use(k) = [u EXCEPT !.servers = t]
    BY <2>1, <2>2, <2>3
  <2>5. ASSUME StoreRight(u.servers), i \in Entries, d \in Dirs PROVE HalfOk(h)
    <3>1. HalfOk(u.servers[i][d])
      BY <2>5 DEF StoreRight, EntryOk
    <3>2. QED
      BY <2>2, <3>1, HalfChanged
  <2>6. Kept(u, use(k))
    BY <2>3, <2>4, PartKept DEF DiscDirs
  <2>7. Quiet(u, use(k))
    <3>1. StoreRight(u.servers) /\ i \in Entries /\ d \in Dirs => HalfOk(h)
      BY <2>5
    <3>2. Quiet(u, [u EXCEPT !.servers = t])
      BY <2>3, <3>1, PartQuiet DEF DiscDirs
    <3>3. QED
      BY <2>4, <3>2
  <2>8. QED
    BY <2>6, <2>7 DEF Kept
<1>2. \/ Discovered(u, i, conn, d) = u
      \/ \E k : Discovered(u, i, conn, d) = use(k)
      \/ Discovered(u, i, conn, d) = Publish(use(1), "NO_VALID_CFG", conn, d)
  BY Zenon DEF Discovered
<1> HIDE DEF use
<1>3. Quiet(u, Publish(use(1), "NO_VALID_CFG", conn, d))
  <2>1. PICK v : v = use(1)
    OBVIOUS
  <2>2. Quiet(v, Publish(v, "NO_VALID_CFG", conn, d)) /\ Quiet(u, v)
    BY <1>1, <2>1, PublishQuiet
  <2>3. Quiet(u, Publish(v, "NO_VALID_CFG", conn, d))
    BY <2>2, QuietOn
  <2>4. QED
    BY <2>1, <2>3
<1>4. QED
  BY <1>1, <1>2, <1>3, QuietItself

LEMMA DiscoverEndsQuiet ==
  ASSUME NEW u, Client(u), NEW i, NEW c, NEW d \in DiscDirs, NEW err, NEW still
  PROVE  Quiet(u, DiscoverEnds(u, i, c, d, err, still))
<1>1. PICK h : h = [u.servers[i][d] EXCEPT !.waiting = FALSE]
  OBVIOUS
<1>2. PICK t : t = [u.servers EXCEPT ![i] = [u.servers[i] EXCEPT ![d] = h]]
  OBVIOUS
<1>3. PICK w : w = [u EXCEPT !.servers = t]
  OBVIOUS
<1>4. PICK told : told = [w EXCEPT !.disc[c] = NotDiscovering]
  OBVIOUS
<1>5. told = [u EXCEPT !.servers[i][d].waiting = FALSE, !.disc[c] = NotDiscovering]
  BY <1>1, <1>2, <1>3, <1>4
<1>6. Quiet(u, w) /\ Client(w)
  <2>1. Kept(u, w)
    BY <1>2, <1>3, PartKept DEF DiscDirs
  <2>2. ASSUME StoreRight(u.servers), i \in Entries, d \in Dirs PROVE HalfOk(h)
    <3>1. HalfOk(u.servers[i][d])
      BY <2>2 DEF StoreRight, EntryOk
    <3>2. QED
      BY <1>1, <3>1, HalfChanged
  <2>3. Quiet(u, w)
    BY <1>2, <1>3, <2>2, PartQuiet DEF DiscDirs
  <2>4. QED
    BY <2>1, <2>3 DEF Kept
<1>7. Quiet(w, told) /\ Client(told)
  <2>1. Kept(w, told)
    BY <1>4, <1>6, DiscField DEF NotDiscovering
  <2>2. QED
    BY <1>4, <1>6, <2>1, DiscQuiet DEF Kept
<1>8. Quiet(u, told)
  BY <1>6, <1>7, QuietOn
<1>9. PICK v : v = IF err THEN told ELSE Discovered(told, i, c, d)
  OBVIOUS
<1>10. Quiet(u, v) /\ Client(v)
  BY <1>7, <1>8, <1>9, DiscoveredKept, DiscoveredQuiet, QuietOn DEF Kept
<1>11. Quiet(u, [v EXCEPT !.disc[c] = [dir |-> "source", next |-> 1]])
  BY <1>10, DiscQuiet, QuietOn
<1>12. Quiet(u, [v EXCEPT !.startWork = @ \/ v.playing])
  BY <1>10, UnseenField, QuietOn
<1>13. DiscoverEnds(u, i, c, d, err, still) =
         IF v.servers[i].source.waiting
         THEN IF still THEN [v EXCEPT !.disc[c] = [dir |-> "source", next |-> 1]] ELSE v
         ELSE [v EXCEPT !.startWork = @ \/ v.playing]
  BY <1>5, <1>9 DEF DiscoverEnds
<1>14. QED
  BY <1>10, <1>11, <1>12, <1>13

LEMMA DiscoveryStepQuiet ==
  ASSUME NEW u, Client(u), NEW c \in Conns, NEW a, NEW still PROVE Quiet(u, DiscoveryStep(u, c, a, still))
<1>1. PICK at : at = u.disc[c]
  OBVIOUS
<1>2. PICK i : i = FromConn(u.servers, c, a)
  OBVIOUS
<1>3. PICK s : s = Script(a, at.dir)[at.next]
  OBVIOUS
<1>4. PICK e : e = [at EXCEPT !.next = @ + 1]
  OBVIOUS
<1>5. PICK v : v = [u EXCEPT !.disc[c] = e]
  OBVIOUS
<1>6. at \in [dir : DiscDirs, next : Nat]
  BY <1>1 DEF Client, Discoveries, DiscDirs
<1>7. e \in [dir : DiscDirs, next : Nat] /\ at.dir \in DiscDirs
  BY <1>4, <1>6
<1>8. Quiet(u, v) /\ Client(v)
  BY <1>5, <1>7, DiscField, DiscQuiet DEF Kept, DiscDirs
<1>9. Quiet(u, [u EXCEPT !.disc[c] = NotDiscovering])
  BY DiscQuiet
<1>10. Quiet(u, DiscoverEnds(u, i, c, at.dir, ~still, still))
  BY <1>7, DiscoverEndsQuiet, Zenon
<1>11. Quiet(u, [v EXCEPT !.servers = CodecCapSet(@, i, at.dir, s.cap)])
  BY <1>7, <1>8, CodecCapQuiet, QuietOn
<1>12. Quiet(u, Location(v, i, c, at.dir, s.loc))
  BY <1>7, <1>8, LocationQuiet, QuietOn
<1>13. Quiet(u, Endpoint(v, i, at.dir))
  BY <1>7, <1>8, EndpointQuiet, QuietOn
<1>14. v = [u EXCEPT !.disc[c].next = @ + 1]
  BY <1>1, <1>4, <1>5
<1>15. QED
  BY <1>1, <1>2, <1>3, <1>8, <1>9, <1>10, <1>11, <1>12, <1>13, <1>14, Zenon DEF DiscoveryStep

LEMMA CasDiscoveredQuiet ==
  ASSUME NEW u, Client(u), NEW c, NEW a, NEW m PROVE Quiet(u, CasDiscovered(u, c, a, m))
<1>1. PICK i : i = FromConn(u.servers, c, a)
  OBVIOUS
<1>2. PICK v : v = [u EXCEPT !.cas[c] = FALSE]
  OBVIOUS
<1>3. Quiet(u, v) /\ Client(v)
  <2>1. v = [u EXCEPT !["cas"] = [u.cas EXCEPT ![c] = FALSE]]
    BY <1>2
  <2>2. QED
    BY <2>1, OtherField, UnseenField DEF Kept
<1>4. PICK h : h = (v.servers[i].member \/ m)
  OBVIOUS
<1>5. PICK t : t = [v.servers EXCEPT ![i] = [v.servers[i] EXCEPT !["member"] = h]]
  OBVIOUS
<1>6. PICK w : w = [v EXCEPT !.servers = t]
  OBVIOUS
<1>7. Quiet(v, w) /\ Client(w)
  <2>1. Kept(v, w)
    BY <1>3, <1>5, <1>6, PartKept
  <2>2. "member" \notin Dirs
    BY DEF Dirs
  <2>3. Quiet(v, w)
    BY <1>3, <1>5, <1>6, <2>2, PartQuiet
  <2>4. QED
    BY <2>1, <2>3 DEF Kept
<1>8. w = [v EXCEPT !.servers[i].member = @ \/ m]
  BY <1>4, <1>5, <1>6
<1>9. PICK d : d = IF m THEN "set" ELSE "none"
  OBVIOUS
<1>10. Quiet(w, Publish(w, "COORD_SET_DISCOVERED", c, d))
  BY <1>7, PublishQuiet
<1>11. Quiet(u, Publish(w, "COORD_SET_DISCOVERED", c, d))
  BY <1>3, <1>7, <1>10, QuietOn
<1>12. CasDiscovered(u, c, a, m) = IF i = 0 THEN v ELSE Publish(w, "COORD_SET_DISCOVERED", c, d)
  <2>1. CasDiscovered(u, c, a, m) =
          IF i = 0 THEN v ELSE Publish([v EXCEPT !.servers[i].member = @ \/ m], "COORD_SET_DISCOVERED", c, d)
    BY <1>1, <1>2, <1>9 DEF CasDiscovered
  <2>2. QED
    BY <1>8, <2>1
<1>13. QED
  BY <1>3, <1>11, <1>12

LEMMA EnqueueQuiet == ASSUME NEW u, Client(u), NEW kind PROVE Quiet(u, EnqueueProc(u, kind))
<1>1. Quiet(u, [u EXCEPT !.capQ = Append(@, kind)])
  BY UnseenField
<1>2. QED
  BY <1>1, QuietItself DEF EnqueueProc

LEMMA StartTimesOutQuiet == ASSUME NEW u, Client(u) PROVE Quiet(u, StartTimesOut(u))
<1>1. PICK v : v = StartTimesOut(u)
  OBVIOUS
<1>2. v.servers = u.servers /\ v.ep = u.ep /\ v.proc = u.proc /\ v.group = u.group /\ v.audioQ = u.audioQ
  BY <1>1, Fields DEF StartTimesOut
<1>3. QED
  BY <1>1, <1>2, PlacedItself DEF Quiet, SameTold

LEMMA DiscoveringQuiet == ASSUME NEW u, Client(u), NEW c, NEW a PROVE Quiet(u, Discovering(u, c, a))
  BY DiscoverQuiet, QuietItself DEF Discovering

\* A new store, and the discovery it begins.
LEMMA NewStoreQuiet ==
  ASSUME NEW u, Client(u), NEW t, Store(t), StoreRight(u.servers) => StoreRight(t) /\ Placed(u.servers, t), NEW c, NEW a
  PROVE  Quiet(u, [u EXCEPT !.servers = t]) /\ Quiet(u, Discovering([u EXCEPT !.servers = t], c, a))
<1>1. PICK v : v = [u EXCEPT !.servers = t]
  OBVIOUS
<1>2. Quiet(u, v)
  BY <1>1, ServersQuiet
<1>3. DOMAIN v = DOMAIN u /\ v.servers = t /\ v.disc = u.disc /\ v.kept = u.kept
  BY <1>1, Fields
<1>4. Client(v)
  BY <1>3 DEF Client
<1>5. Quiet(v, Discovering(v, c, a))
  BY <1>4, DiscoveringQuiet
<1>6. QED
  BY <1>1, <1>2, <1>5, QuietOn

-----------------------------------------------------------------------------
(* unicast_client.c: the procedures and the group.                         *)

\* An entry's connection is one to its headset, and it is or was secured.
Reach(s, l) == \A i \in Entries : s[i].conn # NoConn =>
    s[i].addr # NoAddr /\ s[i].conn \in Conns /\ l[s[i].conn].addr = s[i].addr /\ l[s[i].conn].st \in {"secured", "closing"}

LEMMA SoundHeard ==
  ASSUME NEW u, NEW v, NEW l, NEW x, NEW y, StoreRight(u.servers), v.servers = u.servers,
         Sound(u.servers, v.ep, v.proc, GroupStreams(v), l, v.audioQ, y)
  PROVE  Heard(v, l, y)
  BY DEF Heard

LEMMA BegunSeen ==
  ASSUME NEW u, Client(u), NEW kind, NEW S, NEW v, v = Begun(u, kind, S)
  PROVE  /\ v.servers = u.servers /\ v.ep = u.ep /\ v.group = u.group /\ v.audioQ = u.audioQ
         /\ v.proc = [kind |-> kind, all |-> S, todo |-> S]
<1>1. PICK p : p = [kind |-> kind, all |-> S, todo |-> S]
  OBVIOUS
<1>2. v = [u EXCEPT !.sem = 0, !.proc = p]
  BY <1>1 DEF Begun
<1>3. v.servers = u.servers /\ v.ep = u.ep /\ v.group = u.group /\ v.audioQ = u.audioQ /\ v.proc = p
  BY <1>2, Fields
<1>4. QED
  BY <1>1, <1>3

LEMMA TakenHeard ==
  ASSUME NEW u, Client(u), NEW l, NEW x, Heard(u, l, x), Reach(u.servers, l), NEW kind PROVE Heard(Taken(u, kind), l, x)
<1>1. Heard([u EXCEPT !.sem = 1], l, x)
  BY UnseenField, QuietHeard
<1>2. PICK G : G = GroupStreams(u)
  OBVIOUS
<1>3. Sound(u.servers, u.ep, u.proc, G, l, u.audioQ, x) /\ StoreRight(u.servers) /\ G \subseteq Streams
  BY <1>2 DEF Heard, Sound, StreamTypes
<1>4. Heard(Begun(u, "start", StartParams(u)), l, x)
  <2>1. PICK S : S = StartParams(u)
    OBVIOUS
  <2>2. S \in SUBSET Streams /\ \A t \in S : u.ep[t] # "streaming" /\ u.servers[t[1]].conn # NoConn /\ t[1] \in Entries
    BY <2>1, StreamIs DEF StartParams, Connected
  <2>3. StreamLinked(u.servers, S, l)
    BY <2>2 DEF StreamLinked, Reach, Attached
  <2>4. PICK v : v = Begun(u, "start", S)
    OBVIOUS
  <2>5. /\ v.servers = u.servers /\ v.ep = u.ep /\ v.group = u.group /\ v.audioQ = u.audioQ
        /\ v.proc = [kind |-> "start", all |-> S, todo |-> S]
    BY <2>4, BegunSeen
  <2>6. Sound(u.servers, u.ep, v.proc, G, l, u.audioQ, x)
    BY <1>3, <2>2, <2>3, <2>5, BegunSound
  <2>7. GroupStreams(v) = G
    BY <1>2, <2>5 DEF GroupStreams
  <2>8. QED
    BY <1>3, <2>1, <2>4, <2>5, <2>6, <2>7, SoundHeard
<1>5. Heard(Begun(u, "stop", {t \in G : u.ep[t] # "none"}), l, x)
  <2>1. PICK S : S = {t \in G : u.ep[t] # "none"}
    OBVIOUS
  <2>2. PICK v : v = Begun(u, "stop", S)
    OBVIOUS
  <2>3. /\ v.servers = u.servers /\ v.ep = u.ep /\ v.group = u.group /\ v.audioQ = u.audioQ
        /\ v.proc = [kind |-> "stop", all |-> S, todo |-> S]
    BY <2>2, BegunSeen
  <2>4. S \subseteq Streams /\ v.proc \in Procs /\ v.proc.kind # "start" /\ v.proc.todo \subseteq v.proc.all
    BY <1>3, <2>1, <2>3 DEF Procs
  <2>5. Sound(u.servers, u.ep, v.proc, G, l, u.audioQ, x)
    BY <1>3, <2>4, ProcSound
  <2>6. GroupStreams(v) = G
    BY <1>2, <2>3 DEF GroupStreams
  <2>7. QED
    BY <1>3, <2>1, <2>2, <2>3, <2>5, <2>6, SoundHeard
<1>6. Heard(StartTaken(u), l, x)
  BY <1>1, <1>4 DEF StartTaken
<1>7. Heard(StopTaken(u), l, x)
  BY <1>1, <1>2, <1>5 DEF StopTaken
<1>8. QED
  BY <1>6, <1>7 DEF Taken

LEMMA RequestHeard ==
  ASSUME NEW u, Client(u), NEW l, NEW x, Heard(u, l, x), Reach(u.servers, l), NEW kind PROVE Heard(Request(u, kind), l, x)
  BY EnqueueQuiet, QuietHeard, TakenHeard DEF Request

\* A procedure ends, and one that waits may begin or not get the store's lock.
LEMMA ProcEndsHeard ==
  ASSUME NEW u, Client(u), Exclusive(u), u.proc.kind # "none", NEW l, NEW x, Heard(u, l, x)
  PROVE  Heard(ProcEnds(u), l, x) /\ ProcEnds(u).servers = u.servers /\ Client(ProcEnds(u))
<1>1. PICK v : v = ProcEnds(u)
  OBVIOUS
<1>2. v.servers = u.servers /\ v.proc = NoProc /\ v.ep = u.ep /\ v.group = u.group /\ v.audioQ = u.audioQ
  BY <1>1, Fields DEF ProcEnds
<1>3. PICK G : G = GroupStreams(u)
  OBVIOUS
<1>4. Sound(u.servers, u.ep, u.proc, G, l, u.audioQ, x) /\ StoreRight(u.servers)
  BY <1>3 DEF Heard
<1>5. NoProc \in Procs /\ NoProc.kind # "start" /\ NoProc.todo \subseteq NoProc.all
  BY DEF NoProc, Procs
<1>6. Sound(u.servers, u.ep, NoProc, G, l, u.audioQ, x)
  BY <1>4, <1>5, ProcSound
<1>7. GroupStreams(v) = G
  BY <1>2, <1>3 DEF GroupStreams
<1>8. Heard(v, l, x)
  BY <1>2, <1>4, <1>6, <1>7, SoundHeard
<1>9. QED
  BY <1>1, <1>2, <1>8, ProcEndsAsked

LEMMA ProcCompleteHeard ==
  ASSUME NEW u, Client(u), Exclusive(u), u.proc.kind # "none", NEW l, NEW x, Heard(u, l, x), Reach(u.servers, l)
  PROVE  /\ Heard(ProcComplete(u), l, x)
         /\ u.capQ # <<>> => Heard(StartTimesOut([ProcEnds(u) EXCEPT !.capQ = Tail(@)]), l, x)
<1>1. PICK v : v = ProcEnds(u)
  OBVIOUS
<1>2. Heard(v, l, x) /\ v.servers = u.servers /\ Client(v) /\ Exclusive(v)
  BY <1>1, ProcEndsHeard, ProcEndsAsked
<1>3. PICK w : w = [v EXCEPT !.capQ = Tail(@)]
  OBVIOUS
<1>4. Heard(w, l, x) /\ w.servers = u.servers
  <2>1. Quiet(v, w)
    BY <1>2, <1>3, UnseenField
  <2>2. w.servers = v.servers
    BY <1>2, <1>3, Fields
  <2>3. QED
    BY <1>2, <2>1, <2>2, QuietHeard
<1>5. v.capQ # <<>> => Client(w)
  BY <1>2, <1>3, ReadAsked
<1>6. v.capQ # <<>> => Heard(Request(w, Head(v.capQ)), l, x)
  BY <1>4, <1>5, RequestHeard
<1>7. Heard(WaitingCheck(v), l, x)
  BY <1>2, <1>3, <1>6 DEF WaitingCheck
<1>8. v.capQ = u.capQ
  BY <1>1, Fields DEF ProcEnds
<1>9. u.capQ # <<>> => Heard(StartTimesOut(w), l, x)
  BY <1>4, <1>5, <1>8, StartTimesOutQuiet, QuietHeard
<1>10. QED
  BY <1>1, <1>3, <1>7, <1>9 DEF ProcComplete

LEMMA GroupCreateHeard ==
  ASSUME NEW u, Client(u), NEW l, NEW x, Heard(u, l, x)
  PROVE  Heard(GroupCreate(u), l, x) /\ GroupCreate(u).servers = u.servers
<1>1. PICK v : v = [u EXCEPT !.group = Pairs(u), !.created = TRUE]
  OBVIOUS
<1>2. v.servers = u.servers /\ v.ep = u.ep /\ v.proc = u.proc /\ v.audioQ = u.audioQ /\ v.group = Pairs(u)
  BY <1>1, Fields
<1>3. PICK G : G = GroupStreams(v)
  OBVIOUS
<1>4. StoreRight(u.servers) /\ Sound(u.servers, u.ep, u.proc, GroupStreams(u), l, u.audioQ, x)
  BY DEF Heard
<1>5. G \subseteq Streams
  <2>1. G = GroupOf(Pairs(u))
    BY <1>2, <1>3 DEF GroupStreams, GroupOf
  <2>2. QED
    BY <1>4, <2>1, NewGroup
<1>6. Sound(u.servers, u.ep, u.proc, G, l, u.audioQ, x)
  BY <1>4, <1>5 DEF Sound, StreamTypes
<1>7. Heard(v, l, x)
  BY <1>2, <1>3, <1>4, <1>6, SoundHeard
<1>8. QED
  BY <1>1, <1>2, <1>7 DEF GroupCreate

LEMMA StartWorkerHeard ==
  ASSUME NEW u, Client(u), Exclusive(u), NEW l, NEW x, Heard(u, l, x), Reach(u.servers, l), NEW connected
  PROVE  /\ Heard(StartWorker(u, connected), l, x)
         /\ \A w \in StartWorkerTimeouts(u, connected) : Heard(w, l, x)
<1> DEFINE v == [u EXCEPT !.startWork = FALSE]
<1>1. Kept(u, v) /\ Client(v) /\ Quiet(u, v) /\ v.servers = u.servers
  BY OtherField, UnseenField, Fields DEF Kept
<1>2. \A w \in StartWorkerTimeouts(u, connected) :
         w = v \/ w = Request(v, "start") \/ w = StartTimesOut(v) \/ w = StartTimesOut(GroupCreate(v))
  BY DEF StartWorkerTimeouts
<1> HIDE DEF v
<1>3. Exclusive(v) /\ Heard(v, l, x)
  BY <1>1, QuietHeard DEF Kept, Exclusive
<1>4. Heard(Request(v, "start"), l, x) /\ Heard(Request(v, "stop"), l, x)
  BY <1>1, <1>3, RequestHeard
<1>5. PICK g : g = GroupCreate(v)
  OBVIOUS
<1>6. Client(g) /\ Heard(g, l, x) /\ g.servers = u.servers
  BY <1>1, <1>3, <1>5, GroupCreateKept, GroupCreateHeard DEF Kept
<1>7. Heard(Request(g, "start"), l, x)
  BY <1>6, RequestHeard
<1>8. Heard([Request(v, "stop") EXCEPT !.created = FALSE], l, x)
  <2>1. PICK r : r = Request(v, "stop")
    OBVIOUS
  <2>2. Client(r)
    BY <1>1, <1>3, <2>1, RequestAsked DEF Asked, Client
  <2>3. QED
    BY <1>4, <2>1, <2>2, UnseenField, QuietHeard
<1>9. Heard(StartTimesOut(v), l, x) /\ Heard(StartTimesOut(g), l, x)
  BY <1>1, <1>3, <1>6, StartTimesOutQuiet, QuietHeard
<1>10. \A w \in StartWorkerTimeouts(u, connected) : Heard(w, l, x)
  BY <1>2, <1>3, <1>4, <1>5, <1>9
<1>11. StartWorker(u, connected) = Request(g, "start") \/ StartWorker(u, connected) = Request(v, "start")
       \/ StartWorker(u, connected) = [Request(v, "stop") EXCEPT !.created = FALSE]
  BY <1>5 DEF StartWorker, v
<1>12. QED
  BY <1>4, <1>7, <1>8, <1>10, <1>11

-----------------------------------------------------------------------------
(* unicast_client.c: the callbacks of a stream.                            *)

LEMMA HeardTypes ==
  ASSUME NEW u, NEW l, NEW x, Heard(u, l, x)
  PROVE  /\ u.ep \in [Streams -> EpStates] /\ u.proc \in Procs /\ u.proc.todo \subseteq u.proc.all
         /\ u.proc.all \subseteq Streams /\ GroupStreams(u) \subseteq Streams
  BY DEF Heard, Sound, StreamTypes, Procs

EndpointIs(u, v, t, st) ==
    /\ Client(v) /\ v.servers = u.servers /\ v.proc = u.proc /\ v.audioQ = u.audioQ
    /\ Moved(u.ep, v.ep, t, st) /\ GroupStreams(v) = GroupStreams(u)

LEMMA EndpointSeen ==
  ASSUME NEW u, Client(u), u.ep \in [Streams -> EpStates], NEW t \in Streams, NEW st, st \in EpStates,
         NEW v, v = [u EXCEPT !.ep[t] = st]
  PROVE  EndpointIs(u, v, t, st)
<1>1. Client(v)
  BY EndpointKept DEF Kept
<1>2. /\ v.servers = u.servers /\ v.proc = u.proc /\ v.group = u.group
      /\ v.audioQ = u.audioQ /\ v.ep = [u.ep EXCEPT ![t] = st]
  BY Fields
<1>3. Moved(u.ep, v.ep, t, st)
  BY <1>2 DEF Moved
<1>4. GroupStreams(v) = GroupStreams(u)
  BY <1>2 DEF GroupStreams
<1>5. QED
  BY <1>1, <1>2, <1>3, <1>4 DEF EndpointIs

LEMMA PublishSeen ==
  ASSUME NEW u, Client(u), NEW event, NEW conn, NEW dir, NEW v, v = Publish(u, event, conn, dir)
  PROVE  /\ v.servers = u.servers /\ v.ep = u.ep /\ v.proc = u.proc /\ GroupStreams(v) = GroupStreams(u)
         /\ \E m : m.event = event /\ v.audioQ = Append(u.audioQ, m)
<1>1. PICK m : m = [event |-> event, conn |-> conn, dir |-> dir]
  OBVIOUS
<1>2. v = [u EXCEPT !.audioQ = Append(@, m)] /\ m.event = event
  BY <1>1 DEF Publish
<1>3. v.servers = u.servers /\ v.ep = u.ep /\ v.proc = u.proc /\ v.group = u.group /\ v.audioQ = Append(u.audioQ, m)
  BY <1>2, Fields
<1>4. GroupStreams(v) = GroupStreams(u)
  BY <1>3 DEF GroupStreams
<1>5. QED
  BY <1>2, <1>3, <1>4

LEMMA StreamReleasedHeard ==
  ASSUME NEW u, Client(u), NEW l, NEW x, Heard(u, l, x), NEW t \in Streams, u.ep[t] # "streaming"
  PROVE  Heard(StreamReleased(u, t), l, x)
<1>1. PICK v : v = [u EXCEPT !.ep[t] = "none"]
  OBVIOUS
<1>2. /\ Client(v) /\ v.servers = u.servers /\ v.proc = u.proc
      /\ v.audioQ = u.audioQ /\ Moved(u.ep, v.ep, t, "none") /\ GroupStreams(v) = GroupStreams(u)
  <2>1. u.ep \in [Streams -> EpStates] /\ "none" \in EpStates
    BY HeardTypes DEF EpStates
  <2>2. EndpointIs(u, v, t, "none")
    BY <1>1, <2>1, EndpointSeen, Zenon
  <2>3. QED
    BY <2>2 DEF EndpointIs
<1>3. /\ Sound(u.servers, v.ep, u.proc, GroupStreams(u), l, u.audioQ, x)
      /\ Sound(u.servers, v.ep, u.proc, {}, l, u.audioQ, x) /\ StoreRight(u.servers)
  BY <1>2, ReleaseSound DEF Heard
<1>4. Heard(v, l, x)
  BY <1>2, <1>3, SoundHeard
<1>5. PICK w : w = [v EXCEPT !.group = <<>>, !.startWork = TRUE]
  OBVIOUS
<1>6. w.servers = v.servers /\ w.ep = v.ep /\ w.proc = v.proc /\ w.audioQ = v.audioQ /\ w.group = <<>>
  BY <1>2, <1>5, Fields
<1>7. GroupStreams(w) = {}
  <2>1. DOMAIN w.group = {}
    BY <1>6
  <2>2. GroupOf(w.group) = {}
    BY <2>1, InGroup
  <2>3. QED
    BY <2>2 DEF GroupStreams, GroupOf
<1>8. Heard(w, l, x)
  BY <1>2, <1>3, <1>6, <1>7, SoundHeard
<1>9. QED
  BY <1>1, <1>4, <1>5, <1>8 DEF StreamReleased

LEMMA StreamStartedHeard ==
  ASSUME NEW u, Client(u), NEW l, NEW x, Heard(u, l, x), u.proc.kind = "start", u.proc.todo = {}, NEW t \in u.proc.all
  PROVE  Heard(StreamStarted(u, t), l, x)
<1>1. PICK v : v = [u EXCEPT !.ep[t] = "streaming"]
  OBVIOUS
<1>2. t \in Streams
  BY HeardTypes
<1>3. /\ Client(v) /\ v.servers = u.servers /\ v.proc = u.proc
      /\ v.audioQ = u.audioQ /\ Moved(u.ep, v.ep, t, "streaming") /\ GroupStreams(v) = GroupStreams(u)
  <2>1. u.ep \in [Streams -> EpStates] /\ "streaming" \in EpStates
    BY HeardTypes DEF EpStates
  <2>2. EndpointIs(u, v, t, "streaming")
    BY <1>1, <1>2, <2>1, EndpointSeen, Zenon
  <2>3. QED
    BY <2>2 DEF EndpointIs
<1>4. PICK w : w = StreamStarted(u, t)
  OBVIOUS
<1>5. w = Publish(v, "STREAMING", u.servers[t[1]].conn, t[2])
  BY <1>1, <1>4 DEF StreamStarted
<1>6. PICK m : m.event = "STREAMING" /\ w.audioQ = Append(v.audioQ, m)
  BY <1>3, <1>5, PublishSeen
<1>7. w.servers = v.servers /\ w.ep = v.ep /\ w.proc = v.proc /\ GroupStreams(w) = GroupStreams(v)
  BY <1>3, <1>5, PublishSeen
<1>8. Sound(u.servers, v.ep, u.proc, GroupStreams(u), l, Append(u.audioQ, m), x) /\ StoreRight(u.servers)
  BY <1>3, <1>6, StartSound DEF Heard
<1>9. QED
  BY <1>3, <1>4, <1>6, <1>7, <1>8, SoundHeard

\* A headset with a secured connection has it in its entry.
Secured(s, l) == \A i \in Entries, c \in Conns :
    s[i].addr # NoAddr /\ l[c].addr = s[i].addr /\ l[c].st = "secured" => s[i].conn # NoConn

\* Of a headset that is connected the first channel is counted.
LEMMA StreamStoppedHeard ==
  ASSUME NEW u, Client(u), NEW l, NEW x, Heard(u, l, x), Secured(u.servers, l), NEW t \in Streams, u.ep[t] = "streaming"
  PROVE  Heard(StreamStopped(u, t), l, x)
<1>1. PICK v : v = [u EXCEPT !.ep[t] = "disabled"]
  OBVIOUS
<1>2. /\ Client(v) /\ v.servers = u.servers /\ v.proc = u.proc
      /\ v.audioQ = u.audioQ /\ Moved(u.ep, v.ep, t, "disabled") /\ GroupStreams(v) = GroupStreams(u)
  <2>1. u.ep \in [Streams -> EpStates] /\ "disabled" \in EpStates
    BY HeardTypes DEF EpStates
  <2>2. EndpointIs(u, v, t, "disabled")
    BY <1>1, <2>1, EndpointSeen, Zenon
  <2>3. QED
    BY <2>2 DEF EndpointIs
<1>3. PICK s : s = u.servers
  OBVIOUS
<1>4. Sound(s, u.ep, u.proc, GroupStreams(u), l, u.audioQ, x) /\ StoreRight(s)
  BY <1>3 DEF Heard
<1>5. CASE StreamingCounted(v) # {}
  <2>1. \E r \in Streams : v.ep[r] = "streaming"
    BY <1>5 DEF StreamingCounted
  <2>2. Sound(s, v.ep, u.proc, GroupStreams(u), l, u.audioQ, x)
    BY <1>2, <1>4, <2>1, StopSound
  <2>3. QED
    BY <1>1, <1>2, <1>3, <1>4, <1>5, <2>2, SoundHeard DEF StreamStopped
<1>6. CASE StreamingCounted(v) = {}
  <2>1. ASSUME NEW r \in Streams, v.ep[r] = "streaming", r[3] = 1 PROVE Down(s, l, r)
    <3>1. u.ep[r] = "streaming" /\ r \in Live(u.ep, u.proc) /\ r[1] \in Entries
      BY <1>2, <2>1, StreamIs DEF Moved, Live
    <3>2. PICK c \in Conns : s[r[1]].addr # NoAddr /\ l[c].addr = s[r[1]].addr /\ l[c].st \in Attached
      BY <1>4, <3>1 DEF Sound, StreamLinked
    <3>3. \A k \in 1 .. r[3] - 1 : HasEp(v, <<r[1], r[2], k>>)
      BY <2>1
    <3>4. s[r[1]].conn = NoConn
      BY <1>2, <1>3, <1>6, <2>1, <3>1, <3>3 DEF StreamingCounted, Connected
    <3>5. l[c].st # "secured"
      BY <1>3, <3>1, <3>2, <3>4 DEF Secured
    <3>6. QED
      BY <3>2, <3>5 DEF Down, Attached
  <2>2. PICK w : w = Publish(v, "NOT_STREAMING", v.servers[t[1]].conn, t[2])
    OBVIOUS
  <2>3. PICK m : m.event = "NOT_STREAMING" /\ w.audioQ = Append(v.audioQ, m)
    BY <1>2, <2>2, PublishSeen
  <2>4. w.servers = v.servers /\ w.ep = v.ep /\ w.proc = v.proc /\ GroupStreams(w) = GroupStreams(v)
    BY <1>2, <2>2, PublishSeen
  <2>5. PICK r : r = Append(u.audioQ, m)
    OBVIOUS
  <2>6. Sound(s, v.ep, u.proc, GroupStreams(u), l, r, x)
    <3>1. \E n : n.event = "NOT_STREAMING" /\ r = Append(u.audioQ, n)
      BY <2>3, <2>5
    <3>2. \A y \in Streams : v.ep[y] = "streaming" /\ y[3] = 1 => Down(s, l, y)
      BY <2>1
    <3>3. QED
      BY <1>2, <1>4, <3>1, <3>2, StopSound
  <2>7. Heard(w, l, x)
    BY <1>2, <1>3, <1>4, <2>3, <2>4, <2>5, <2>6, SoundHeard
  <2>8. QED
    BY <1>1, <1>6, <2>2, <2>7 DEF StreamStopped
<1>7. QED
  BY <1>5, <1>6

LEMMA StreamConfiguredHeard ==
  ASSUME NEW u, Client(u), Exclusive(u), NEW l, NEW x, Heard(u, l, x), u.proc.kind = "start", NEW t \in u.proc.todo
  PROVE  Heard(StreamConfigured(Less(u, t), t), l, x)
<1>1. t \in Streams /\ u.proc \in Procs /\ u.ep \in [Streams -> EpStates]
  BY HeardTypes
<1>2. PICK p : p = [u.proc EXCEPT !.todo = @ \ {t}]
  OBVIOUS
<1>3. p \in Procs /\ p.kind = "start" /\ p.all = u.proc.all /\ p.todo = u.proc.todo \ {t}
  BY <1>1, <1>2 DEF Procs
<1>4. PICK w : w = Less(u, t)
  OBVIOUS
<1>5. Client(w) /\ w.servers = u.servers /\ w.ep = u.ep /\ w.proc = p /\ w.group = u.group /\ w.audioQ = u.audioQ
  BY <1>2, <1>4, Fields, LessToDo DEF Less
<1>6. PICK v : v = [w EXCEPT !.ep[t] = "codec"]
  OBVIOUS
<1>7. /\ Client(v) /\ v.servers = u.servers /\ v.proc = p /\ v.audioQ = u.audioQ
      /\ Moved(u.ep, v.ep, t, "codec") /\ GroupStreams(v) = GroupStreams(u)
  <2>1. "codec" \in EpStates /\ w.ep \in [Streams -> EpStates]
    BY <1>1, <1>5 DEF EpStates
  <2>2. EndpointIs(w, v, t, "codec")
    BY <1>1, <1>5, <1>6, <2>1, EndpointSeen, Zenon
  <2>3. QED
    BY <1>5, <2>2 DEF EndpointIs, GroupStreams
<1>8. Sound(u.servers, v.ep, p, GroupStreams(u), l, u.audioQ, x) /\ StoreRight(u.servers)
  BY <1>3, <1>7, ConfigSound DEF Heard
<1>9. Heard(v, l, x)
  BY <1>7, <1>8, SoundHeard
<1>10. ASSUME NEW r, r = v.servers \/ \E S, pd : r = NewPresDlySet(v.servers, S, pd), NEW conn, NEW dir
       PROVE  Heard(Publish([v EXCEPT !.servers = r], "CONFIG_RECEIVED", conn, dir), l, x)
  <2>1. PICK z : z = [v EXCEPT !.servers = r]
    OBVIOUS
  <2>2. SameEntries(v.servers, r)
    BY <1>7, <1>10, NewPresDlyKept DEF Client, SameEntries
  <2>3. Client(z)
    BY <1>7, <2>1, <2>2, ServersField DEF Kept
  <2>4. StoreRight(v.servers) => StoreRight(r) /\ Placed(v.servers, r)
    BY <1>10, NewPresDlyRight, PlacedItself
  <2>5. Heard(z, l, x)
    BY <1>7, <1>9, <2>1, <2>4, ServersQuiet, QuietHeard
  <2>6. Heard(Publish(z, "CONFIG_RECEIVED", conn, dir), l, x)
    BY <2>3, <2>5, PublishQuiet, QuietHeard
  <2>7. QED
    BY <2>1, <2>6
<1>11. \/ StreamConfigured(w, t) = v
       \/ \E r, conn, dir : /\ r = v.servers \/ \E S, pd : r = NewPresDlySet(v.servers, S, pd)
                            /\ StreamConfigured(w, t) = Publish([v EXCEPT !.servers = r], "CONFIG_RECEIVED", conn, dir)
  BY <1>6, Zenon DEF StreamConfigured
<1>12. QED
  BY <1>4, <1>9, <1>10, <1>11

\* A headset releases a stream, which a start does not begin any more.
LEMMA PeerReleasedHeard ==
  ASSUME NEW u, Client(u), Exclusive(u), NEW l, NEW x, Heard(u, l, x), NEW t \in Streams, u.ep[t] # "streaming"
  PROVE  Heard(StreamReleased(Less(u, t), t), l, x)
<1>1. u.proc \in Procs /\ u.proc.todo \subseteq u.proc.all
  BY HeardTypes
<1>2. PICK p : p = [u.proc EXCEPT !.todo = @ \ {t}]
  OBVIOUS
<1>3. p \in Procs /\ p.kind = u.proc.kind /\ p.all = u.proc.all /\ p.todo = u.proc.todo \ {t}
  BY <1>1, <1>2 DEF Procs
<1>4. PICK w : w = Less(u, t)
  OBVIOUS
<1>5. Client(w) /\ w.servers = u.servers /\ w.ep = u.ep /\ w.proc = p /\ w.group = u.group /\ w.audioQ = u.audioQ
  BY <1>2, <1>4, Fields, LessToDo DEF Less
<1>6. p.todo \subseteq p.all /\ (p.kind # "start" \/ (u.proc.kind = "start" /\ p.kind = "start" /\ p.todo \subseteq u.proc.todo))
  BY <1>1, <1>3
<1>7. Sound(u.servers, u.ep, p, GroupStreams(u), l, u.audioQ, x) /\ StoreRight(u.servers)
  BY <1>3, <1>6, ProcSound DEF Heard
<1>8. GroupStreams(w) = GroupStreams(u)
  BY <1>5 DEF GroupStreams
<1>9. Heard(w, l, x)
  BY <1>5, <1>7, <1>8, SoundHeard
<1>10. QED
  BY <1>4, <1>5, <1>9, StreamReleasedHeard


-----------------------------------------------------------------------------
(* The invariant of the streams, and the actions one by one.               *)

AudioInv == GatewayInv /\ Heard(client, link, strm)

LEMMA ReachHolds ==
  ASSUME GatewayInv PROVE Reach(client.servers, link) /\ Secured(client.servers, link)
<1>1. /\ StoreOf(client.servers, bonded) /\ Links(link, bonded) /\ Mirrors(client.servers, link)
  BY DEF GatewayInv
<1>2. Reach(client.servers, link)
  <2>1. SUFFICES ASSUME NEW i \in Entries, client.servers[i].conn # NoConn
                 PROVE  LET c == client.servers[i].conn
                        IN /\ client.servers[i].addr # NoAddr /\ c \in Conns /\ link[c].addr = client.servers[i].addr
                           /\ link[c].st \in {"secured", "closing"}
    BY DEF Reach
  <2>2. PICK c : c = client.servers[i].conn
    OBVIOUS
  <2>3. c \in Conns /\ link[c].addr = client.servers[i].addr /\ link[c].st \in {"pairing", "secured", "closing"}
    BY <1>1, <2>1, <2>2 DEF Mirrors, Served
  <2>4. link[c].addr # NoAddr
    BY <1>1, <2>3 DEF Links
  <2>5. link[c].addr \in bonded
    BY <1>1, <2>3, <2>4 DEF StoreOf
  <2>6. link[c].st # "pairing"
    BY <1>1, <2>3, <2>5 DEF Links
  <2>7. QED
    BY <2>2, <2>3, <2>4, <2>6
<1>3. Secured(client.servers, link)
  <2>1. SUFFICES ASSUME NEW i \in Entries, NEW c \in Conns, client.servers[i].addr # NoAddr,
                        link[c].addr = client.servers[i].addr, link[c].st = "secured"
                 PROVE  client.servers[i].conn # NoConn
    BY DEF Secured
  <2>2. PICK j \in Entries : client.servers[j].addr = link[c].addr /\ client.servers[j].conn = c
    BY <1>1, <2>1 DEF Mirrors
  <2>3. j = i
    BY <1>1, <2>1, <2>2 DEF StoreOf
  <2>4. QED
    BY <2>2, <2>3 DEF Conns, NoConn
<1>4. QED
  BY <1>2, <1>3

LEMMA AudioFacts ==
  ASSUME AudioInv
  PROVE  /\ Client(client) /\ Exclusive(client) /\ Heard(client, link, strm)
         /\ Reach(client.servers, link) /\ Secured(client.servers, link) /\ Links(link, bonded)
         /\ StoreRight(client.servers)
         /\ Proc.all \subseteq Streams /\ Proc.todo \subseteq Proc.all
<1>1. GatewayInv /\ Heard(client, link, strm)
  BY DEF AudioInv
<1>2. Reach(client.servers, link) /\ Secured(client.servers, link)
  BY <1>1, ReachHolds
<1>3. Proc.all \subseteq Streams /\ Proc.todo \subseteq Proc.all
  BY <1>1, HeardTypes DEF Proc
<1>4. QED
  BY <1>1, <1>2, <1>3 DEF GatewayInv, Heard

\* One connection changes that is not secured yet, begins to close or carries no stream.
LEMMA LinkHeard ==
  ASSUME NEW u, NEW l, NEW x, Heard(u, l, x), NEW c \in Conns, NEW m, OnlyMoved(l, m, c),
         \/ l[c].st \notin Attached
         \/ m[c].addr = l[c].addr /\ m[c].st \in {"closing", "gone"}
         \/ \A t \in Live(u.ep, u.proc) : u.servers[t[1]].addr # l[c].addr
  PROVE  Heard(u, m, x)
<1>1. Carries(u.servers, u.ep, u.proc, l, m)
  <2>1. SUFFICES ASSUME NEW t \in Streams, NEW d \in Conns, t \in Live(u.ep, u.proc),
                        l[d].addr = u.servers[t[1]].addr, l[d].st \in Attached
                 PROVE  m[d] = l[d] \/ (m[d].addr = l[d].addr /\ m[d].st \in {"closing", "gone"})
    BY DEF Carries
  <2>2. CASE d = c
    BY <2>1, <2>2
  <2>3. CASE d # c
    BY <2>3 DEF OnlyMoved
  <2>4. QED
    BY <2>2, <2>3
<1>2. QED
  BY <1>1, LinkSound DEF Heard

\* A new store, and the discovery it begins.
LEMMA NewStoreHeard ==
  ASSUME NEW u, Client(u), NEW l, NEW x, Heard(u, l, x), NEW t, StoreRight(t) /\ Placed(u.servers, t), NEW c, NEW a
  PROVE  Heard([u EXCEPT !.servers = t], l, x) /\ Heard(Discovering([u EXCEPT !.servers = t], c, a), l, x)
<1>1. Store(t)
  BY DEF StoreRight, EntryOk, EntryFields, Store
<1>2. Quiet(u, [u EXCEPT !.servers = t]) /\ Quiet(u, Discovering([u EXCEPT !.servers = t], c, a))
  BY <1>1, NewStoreQuiet
<1>3. QED
  BY <1>2, QuietHeard

LEMMA SecurityChangedHeard ==
  ASSUME AudioInv, NEW c \in Conns, SecurityChanged(c) PROVE Heard(client', link', strm')
<1>1. PICK a : a = link[c].addr
  OBVIOUS
<1>2. PICK t : t = ConnUpdate(client.servers, c, a).servers
  OBVIOUS
<1>3. PICK m : m = link'
  OBVIOUS
<1>4. /\ link[c].st = "connected" /\ strm' = strm
      /\ client' = client \/ client' = Discovering([client EXCEPT !.servers = t], c, a)
  BY <1>1, <1>2 DEF SecurityChanged, appVars
<1>5. OnlyMoved(link, m, c)
  <2>1. DOMAIN link = Conns
    BY AudioFacts DEF Links
  <2>2. \E st : m = [link EXCEPT ![c].st = st]
    BY <1>3 DEF SecurityChanged
  <2>3. QED
    BY <2>1, <2>2 DEF OnlyMoved
<1>6. Heard(client, m, strm)
  BY <1>4, <1>5, AudioFacts, LinkHeard DEF Attached
<1>7. StoreRight(t) /\ Placed(client.servers, t)
  BY <1>2, AudioFacts, ConnUpdateRight
<1>8. Heard(Discovering([client EXCEPT !.servers = t], c, a), m, strm)
  BY <1>6, <1>7, AudioFacts, NewStoreHeard
<1>9. QED
  BY <1>3, <1>4, <1>6, <1>8

LEMMA PairingCompleteHeard ==
  ASSUME AudioInv, NEW c \in Conns, PairingComplete(c) PROVE Heard(client', link', strm')
<1>1. PICK a : a = link[c].addr
  OBVIOUS
<1>2. PICK t : t = AddByConn(client.servers, c, a).servers
  OBVIOUS
<1>3. PICK m : m = link'
  OBVIOUS
<1>4. /\ link[c].st = "pairing" /\ strm' = strm /\ m = [link EXCEPT ![c].st = "secured"]
      /\ client' = client \/ client' = Discovering([client EXCEPT !.servers = t], c, a)
  BY <1>1, <1>2, <1>3 DEF PairingComplete, appVars
<1>5. OnlyMoved(link, m, c)
  BY <1>4, AudioFacts DEF OnlyMoved, Links
<1>6. Heard(client, m, strm)
  BY <1>4, <1>5, AudioFacts, LinkHeard DEF Attached
<1>7. StoreRight(t) /\ Placed(client.servers, t)
  BY <1>2, AudioFacts, AddByConnRight
<1>8. Heard(Discovering([client EXCEPT !.servers = t], c, a), m, strm)
  BY <1>6, <1>7, AudioFacts, NewStoreHeard
<1>9. QED
  BY <1>3, <1>4, <1>6, <1>8

\* A connection gets another state, or is free.
LEMMA MovedLink ==
  ASSUME AudioInv, NEW c \in Conns, NEW x
  PROVE  /\ link' = [link EXCEPT ![c].st = x] => OnlyMoved(link, link', c) /\ link'[c].addr = link[c].addr /\ link'[c].st = x
         /\ link' = [link EXCEPT ![c] = NoLink] => OnlyMoved(link, link', c)
<1>1. PICK R : R = [addr : Addrs \cup {NoAddr}, st : LinkStates]
  OBVIOUS
<1>2. link \in [Conns -> R]
  BY <1>1 DEF AudioInv, GatewayInv, Links
<1>3. PICK e : e = [link[c] EXCEPT !.st = x]
  OBVIOUS
<1>4. e.addr = link[c].addr /\ e.st = x
  <2>1. link[c] \in [addr : Addrs \cup {NoAddr}, st : LinkStates]
    BY <1>1, <1>2
  <2>2. QED
    BY <1>3, <2>1
<1>5. [link EXCEPT ![c].st = x] = [link EXCEPT ![c] = e]
  BY <1>3
<1>6. ASSUME link' = [link EXCEPT ![c].st = x]
      PROVE  OnlyMoved(link, link', c) /\ link'[c].addr = link[c].addr /\ link'[c].st = x
  BY <1>2, <1>4, <1>5, <1>6 DEF OnlyMoved
<1>7. ASSUME link' = [link EXCEPT ![c] = NoLink] PROVE OnlyMoved(link, link', c)
  BY <1>2, <1>7 DEF OnlyMoved
<1>8. QED
  BY <1>6, <1>7

LEMMA DisconnectedHeard ==
  ASSUME AudioInv, NEW c \in Conns, Disconnected(c) PROVE Heard(client', link', strm')
<1>1. PICK a : a = link[c].addr
  OBVIOUS
<1>2. PICK t : t = ClearByConn(client.servers, c, a)
  OBVIOUS
<1>3. PICK m : m = link'
  OBVIOUS
<1>4. link' = [link EXCEPT ![c].st = "gone"] /\ strm' = strm /\ client' = [client EXCEPT !.servers = t]
  BY <1>1, <1>2 DEF Disconnected, ConnDisconnected, appVars
<1>5. OnlyMoved(link, m, c) /\ m[c].addr = link[c].addr /\ m[c].st = "gone"
  BY <1>3, <1>4, MovedLink
<1>6. Heard(client, m, strm)
  BY <1>5, AudioFacts, LinkHeard
<1>7. StoreRight(t) /\ Placed(client.servers, t)
  BY <1>2, AudioFacts, ClearByConnRight
<1>8. Heard([client EXCEPT !.servers = t], m, strm)
  BY <1>6, <1>7, AudioFacts, NewStoreHeard
<1>9. QED
  BY <1>3, <1>4, <1>8

\* Where the client is as it was and one connection is not.
LEMMA ConnHeard ==
  ASSUME AudioInv, client' = client, strm' = strm, NEW c \in Conns, OnlyMoved(link, link', c),
         \/ link[c].st \notin Attached
         \/ link'[c].addr = link[c].addr /\ link'[c].st \in {"closing", "gone"}
         \/ \A t \in Live(client.ep, client.proc) : client.servers[t[1]].addr # link[c].addr
  PROVE  Heard(client', link', strm')
<1>1. PICK m : m = link'
  OBVIOUS
<1>2. Heard(client, m, strm)
  BY <1>1, AudioFacts, LinkHeard
<1>3. QED
  BY <1>1, <1>2

LEMMA StillHeard ==
  ASSUME AudioInv, client' = client, strm' = strm, link' = link PROVE Heard(client', link', strm')
  BY DEF AudioInv

LEMMA ScanRecvHeard ==
  ASSUME AudioInv, NEW a \in Addrs, NEW by \in {"bond", "name", "set"}, ScanRecv(a, by)
  PROVE  Heard(client', link', strm')
<1>1. client' = client /\ strm' = strm
  BY DEF ScanRecv, appVars
<1>2. PICK s : ConnectTo(a, s)
  <2>1. CASE by = "bond"
    BY <2>1 DEF ScanRecv
  <2>2. CASE by = "name"
    BY <2>2 DEF ScanRecv
  <2>3. CASE by = "set"
    BY <2>3 DEF ScanRecv
  <2>4. QED
    BY <2>1, <2>2, <2>3
<1>3. CASE link' = link
  BY <1>1, <1>3, StillHeard
<1>4. CASE link' # link
  <2>1. PICK free : free = {d \in Conns : link[d].st = "free"}
    OBVIOUS
  <2>2. PICK c : c = Least(free)
    OBVIOUS
  <2>3. free # {} /\ link' = LinkAt(link, c, a, "connecting")
    BY <1>2, <1>4, <2>1, <2>2 DEF ConnectTo, LinkAt
  <2>4. c \in free
    BY <2>1, <2>2, <2>3, LeastIsOne DEF Conns
  <2>5. c \in Conns /\ link[c].st = "free"
    BY <2>1, <2>4
  <2>6. OnlyMoved(link, link', c)
    <3>1. DOMAIN link = Conns
      BY DEF AudioInv, GatewayInv, Links
    <3>2. QED
      BY <2>3, <2>5, <3>1 DEF OnlyMoved, LinkAt
  <2>7. link[c].st \notin Attached
    BY <2>5 DEF Attached
  <2>8. QED
    BY <1>1, <2>5, <2>6, <2>7, ConnHeard
<1>5. QED
  BY <1>3, <1>4

LEMMA ConnectFailedHeard == ASSUME AudioInv, NEW c \in Conns, ConnectFailed(c) PROVE Heard(client', link', strm')
<1>1. link[c].st = "connecting" /\ link' = [link EXCEPT ![c] = NoLink] /\ client' = client /\ strm' = strm
  BY DEF ConnectFailed, appVars
<1>2. OnlyMoved(link, link', c)
  BY <1>1, MovedLink
<1>3. link[c].st \notin Attached
  BY <1>1 DEF Attached
<1>4. QED
  BY <1>1, <1>2, <1>3, ConnHeard

LEMMA ConnectedHeard == ASSUME AudioInv, NEW c \in Conns, Connected_(c) PROVE Heard(client', link', strm')
<1>1. link[c].st = "connecting" /\ link' = [link EXCEPT ![c].st = "connected"] /\ client' = client /\ strm' = strm
  BY DEF Connected_, appVars
<1>2. OnlyMoved(link, link', c)
  BY <1>1, MovedLink
<1>3. link[c].st \notin Attached
  BY <1>1 DEF Attached
<1>4. QED
  BY <1>1, <1>2, <1>3, ConnHeard

LEMMA ClosesHeard == ASSUME AudioInv, NEW c \in Conns, Closes(c) PROVE Heard(client', link', strm')
<1>1. link' = [link EXCEPT ![c].st = "closing"] /\ client' = client /\ strm' = strm
  BY DEF Closes, appVars
<1>2. OnlyMoved(link, link', c) /\ link'[c].addr = link[c].addr /\ link'[c].st = "closing"
  BY <1>1, MovedLink
<1>3. QED
  BY <1>1, <1>2, ConnHeard

LEMMA FreedHeard == ASSUME AudioInv, NEW c \in Conns, Freed(c) PROVE Heard(client', link', strm')
<1>1. /\ link' = [link EXCEPT ![c] = NoLink] /\ client' = client /\ strm' = strm
      /\ LinkStreams(c) = {}
      /\ client.proc.kind = "start" => \A t \in client.proc.all : client.servers[t[1]].addr # link[c].addr
  BY DEF Freed, appVars
<1>2. OnlyMoved(link, link', c)
  BY <1>1, MovedLink
<1>3. \A t \in Live(client.ep, client.proc) : client.servers[t[1]].addr # link[c].addr
  BY <1>1 DEF Live, LinkStreams
<1>4. QED
  BY <1>1, <1>2, <1>3, ConnHeard

\* le_audio_msg_sub_thread
LEMMA AudioMessageHeard == ASSUME AudioInv, AudioMessage PROVE Heard(client', link', strm')
<1>1. PICK q, m : q = client.audioQ /\ m = Head(q)
  OBVIOUS
<1>2. PICK c : c = m.conn
  OBVIOUS
<1>3. /\ q # <<>> /\ client' = [client EXCEPT !.audioQ = Tail(@)]
      /\ strm' = CASE m.event = "STREAMING" -> "streaming" [] m.event = "NOT_STREAMING" -> "paused" [] OTHER -> strm
      /\ link' = link \/ (Up(c) /\ link' = [link EXCEPT ![c].st = "closing"])
  BY <1>1, <1>2 DEF AudioMessage
<1>4. Client(client) /\ Heard(client, link, strm)
  BY DEF AudioInv, GatewayInv
<1>5. PICK k, y : k = link' /\ y = strm'
  OBVIOUS
<1>6. Heard(client, k, strm)
  <2>1. CASE link' = link
    BY <1>4, <1>5, <2>1
  <2>2. CASE link' # link
    <3>1. link' = [link EXCEPT ![c].st = "closing"]
      BY <1>3, <2>2
    <3>2. c \in Conns
      <4>1. SUFFICES ASSUME c \notin Conns PROVE FALSE
        OBVIOUS
      <4>2. PICK R : R = [addr : Addrs \cup {NoAddr}, st : LinkStates]
        OBVIOUS
      <4>3. link \in [Conns -> R]
        BY <4>2 DEF AudioInv, GatewayInv, Links
      <4>4. PICK e : e = [link[c] EXCEPT !.st = "closing"]
        OBVIOUS
      <4>5. link' = [link EXCEPT ![c] = e]
        BY <3>1, <4>4
      <4>6. [link EXCEPT ![c] = e] = link
        BY <4>1, <4>3
      <4>7. QED
        BY <2>2, <4>5, <4>6
    <3>3. OnlyMoved(link, link', c) /\ link'[c].addr = link[c].addr /\ link'[c].st = "closing"
      BY <3>1, <3>2, MovedLink
    <3>4. OnlyMoved(link, k, c) /\ k[c].addr = link[c].addr /\ k[c].st = "closing"
      BY <1>5, <3>3
    <3>5. QED
      BY <1>4, <3>2, <3>4, LinkHeard
  <2>3. QED
    BY <2>1, <2>2
<1>7. y = After(m, strm)
  BY <1>3, <1>5 DEF After
<1>8. PICK v, r : v = [client EXCEPT !["audioQ"] = r] /\ r = Tail(q)
  OBVIOUS
<1>9. DOMAIN v = ClientFields /\ v["audioQ"] = r /\ \A g \in ClientFields : g # "audioQ" => v[g] = client[g]
  <2>1. DOMAIN client = ClientFields /\ "audioQ" \in ClientFields
    BY <1>4 DEF Client, ClientFields
  <2>2. v = [client EXCEPT !["audioQ"] = r]
    BY <1>8
  <2>3. DOMAIN v = DOMAIN client /\ v["audioQ"] = r /\ \A g \in DOMAIN client : g # "audioQ" => v[g] = client[g]
    BY <2>1, <2>2
  <2>4. QED
    BY <2>1, <2>3
<1>10. /\ v.audioQ = r /\ v.servers = client.servers /\ v.ep = client.ep /\ v.proc = client.proc
       /\ v.group = client.group
  BY <1>9 DEF ClientFields
<1>11. GroupStreams(v) = GroupStreams(client)
  BY <1>10 DEF GroupStreams
<1>12. Sound(client.servers, client.ep, client.proc, GroupStreams(client), k, r, y)
  <2>1. Sound(client.servers, client.ep, client.proc, GroupStreams(client), k, q, strm)
    BY <1>1, <1>6 DEF Heard
  <2>2. QED
    BY <1>1, <1>3, <1>7, <1>8, <2>1, ReadSound
<1>13. Heard(v, k, y)
  BY <1>10, <1>11, <1>12, AudioFacts, SoundHeard
<1>14. client' = v
  BY <1>1, <1>3, <1>8
<1>15. QED
  BY <1>5, <1>13, <1>14

\* Streams are taken in order: the first one is one of them.
LEMMA EarliestIsOne == ASSUME NEW S \in SUBSET Streams, S # {} PROVE Earliest(S) \in S
<1>1. \A t \in S : Rank(t) \in Nat
  <2>1. SUFFICES ASSUME NEW t \in S PROVE Rank(t) \in Nat
    OBVIOUS
  <2>2. PICK i \in Entries, k \in 1..MaxEps : t[1] = i /\ t[3] = k
    BY StreamIs
  <2>3. i \in Nat /\ k \in Nat
    BY StoreAssumption DEF Entries
  <2>4. i * 100 \in Nat
    BY <2>3
  <2>5. QED
    BY <2>2, <2>3, <2>4 DEF Rank
<1>2. PICK T : T = {Rank(t) : t \in S}
  OBVIOUS
<1>3. T \in SUBSET Nat /\ T # {}
  BY <1>1, <1>2
<1>4. PICK n \in T : \A m \in T : n <= m
  BY <1>3, LeastExists
<1>5. PICK t \in S : n = Rank(t)
  BY <1>2, <1>4
<1>6. \A r \in S : Rank(t) <= Rank(r)
  BY <1>2, <1>4, <1>5
<1>7. QED
  BY <1>5, <1>6 DEF Earliest

\* What a report of the stack and a step of the work queue leave alone.
LEMMA StackHeard ==
  ASSUME AudioInv, NEW u, Reported(u), Heard(u, link, strm) PROVE Heard(client', link', strm')
  BY DEF Reported, appVars

LEMMA ConfiguredHeard == ASSUME AudioInv, Configured PROVE Heard(client', link', strm')
<1>1. PICK t : t = Earliest(Proc.todo)
  OBVIOUS
<1>2. Proc.kind = "start" /\ Proc.todo # {} /\ Reported(StreamConfigured(Less(client, t), t))
  BY <1>1 DEF Configured, StackStep, Less
<1>3. t \in Proc.todo
  BY <1>1, <1>2, AudioFacts, EarliestIsOne
<1>4. Heard(StreamConfigured(Less(client, t), t), link, strm)
  BY <1>2, <1>3, AudioFacts, StreamConfiguredHeard DEF Proc
<1>5. QED
  BY <1>2, <1>4, StackHeard

LEMMA StartedHeard == ASSUME AudioInv, Started PROVE Heard(client', link', strm')
<1>1. PICK left : left = {s \in Proc.all : client.ep[s] # "streaming"}
  OBVIOUS
<1>2. PICK t : t = Earliest(left)
  OBVIOUS
<1>3. Proc.kind = "start" /\ Proc.todo = {} /\ left # {} /\ Reported(StreamStarted(client, t))
  BY <1>1, <1>2 DEF Started, StackStep
<1>4. left \in SUBSET Streams
  BY <1>1, AudioFacts
<1>5. t \in Proc.all
  BY <1>1, <1>2, <1>3, <1>4, EarliestIsOne
<1>6. Heard(StreamStarted(client, t), link, strm)
  BY <1>3, <1>5, AudioFacts, StreamStartedHeard DEF Proc
<1>7. QED
  BY <1>3, <1>6, StackHeard

LEMMA EndingHeard ==
  ASSUME AudioInv, NEW S \in SUBSET Streams, S # {}, Ending(S) PROVE Heard(client', link', strm')
<1>1. PICK t : t = Earliest(S)
  OBVIOUS
<1>2. t \in S /\ t \in Streams
  BY <1>1, EarliestIsOne
<1>3. CASE client.ep[t] = "streaming"
  <2>1. Reported(StreamStopped(client, t))
    BY <1>1, <1>3 DEF Ending, StackStep
  <2>2. Heard(StreamStopped(client, t), link, strm)
    BY <1>2, <1>3, AudioFacts, StreamStoppedHeard
  <2>3. QED
    BY <2>1, <2>2, StackHeard
<1>4. CASE client.ep[t] # "streaming"
  <2>1. Reported(StreamReleased(client, t))
    BY <1>1, <1>4 DEF Ending, StackStep
  <2>2. Heard(StreamReleased(client, t), link, strm)
    BY <1>2, <1>4, AudioFacts, StreamReleasedHeard
  <2>3. QED
    BY <2>1, <2>2, StackHeard
<1>5. QED
  BY <1>3, <1>4

LEMMA StopReleasesHeard == ASSUME AudioInv, StopReleases PROVE Heard(client', link', strm')
<1>1. PICK left : left = {s \in Proc.all : client.ep[s] # "none"}
  OBVIOUS
<1>2. left # {} /\ Ending(left)
  BY <1>1 DEF StopReleases
<1>3. left \in SUBSET Streams
  BY <1>1, AudioFacts
<1>4. QED
  BY <1>2, <1>3, EndingHeard

LEMMA LinkReleasesHeard == ASSUME AudioInv, NEW c \in Conns, LinkReleases(c) PROVE Heard(client', link', strm')
  BY EndingHeard DEF LinkReleases, LinkStreams

\* The headset ends or releases a stream.
LEMMA PeerHeard ==
  ASSUME AudioInv, NEW t \in Streams, PeerStops(t) \/ PeerReleases(t) PROVE Heard(client', link', strm')
<1>1. CASE PeerStops(t)
  <2>1. client.ep[t] = "streaming" /\ Reported(StreamStopped(client, t))
    BY <1>1 DEF PeerStops
  <2>2. Heard(StreamStopped(client, t), link, strm)
    BY <2>1, AudioFacts, StreamStoppedHeard
  <2>3. QED
    BY <2>1, <2>2, StackHeard
<1>2. CASE PeerReleases(t)
  <2>1. client.ep[t] # "streaming" /\ Reported(StreamReleased(Less(client, t), t))
    BY <1>2 DEF PeerReleases, Less
  <2>2. Heard(StreamReleased(Less(client, t), t), link, strm)
    BY <2>1, AudioFacts, PeerReleasedHeard
  <2>3. QED
    BY <2>1, <2>2, StackHeard
<1>3. QED
  BY <1>1, <1>2

LEMMA CompletesHeard ==
  ASSUME AudioInv, StartComplete \/ StopComplete \/ StartFails \/ CompleteTimesOut PROVE Heard(client', link', strm')
<1>1. /\ Proc.kind # "none"
      /\ \/ Reported(ProcComplete(client))
         \/ client.capQ # <<>> /\ Reported(StartTimesOut([ProcEnds(client) EXCEPT !.capQ = Tail(@)]))
  BY DEF StartComplete, StopComplete, StartFails, CompleteTimesOut, StartEnded, StopEnded, StackStep
<1>2. /\ Heard(ProcComplete(client), link, strm)
      /\ client.capQ # <<>> => Heard(StartTimesOut([ProcEnds(client) EXCEPT !.capQ = Tail(@)]), link, strm)
  BY <1>1, AudioFacts, ProcCompleteHeard DEF Proc
<1>3. QED
  BY <1>1, <1>2, StackHeard

LEMMA WorkerHeard == ASSUME AudioInv, Worker \/ WorkerTimesOut PROVE Heard(client', link', strm')
<1>1. PICK u : u = up
  OBVIOUS
<1>2. PICK v : Reported(v) /\ (v = StartWorker(client, u) \/ v \in StartWorkerTimeouts(client, u))
  BY <1>1 DEF Worker, WorkerTimesOut, StackStep
<1>3. Heard(v, link, strm)
  BY <1>2, AudioFacts, StartWorkerHeard
<1>4. QED
  BY <1>2, <1>3, StackHeard

\* What the stack reports is of the client's next state: a quiet one is heard.
LEMMA QuietReport ==
  ASSUME AudioInv, NEW u, Quiet(client, u), Reported(u) PROVE Heard(client', link', strm')
  BY AudioFacts, QuietHeard, StackHeard

LEMMA CallbacksHeard ==
  ASSUME AudioInv, NEW c \in Conns, DiscoveryCallback(c) \/ CasCallback(c) \/ CasFails(c)
  PROVE  Heard(client', link', strm')
<1>1. CASE DiscoveryCallback(c)
  <2>1. PICK b : b = Up(c)
    OBVIOUS
  <2>2. Reported(DiscoveryStep(client, c, link[c].addr, Up(c)))
    BY <1>1 DEF DiscoveryCallback, StackStep
  <2>3. Reported(DiscoveryStep(client, c, link[c].addr, b))
    BY <2>1, <2>2, Zenon
  <2>4. Quiet(client, DiscoveryStep(client, c, link[c].addr, b))
    BY AudioFacts, DiscoveryStepQuiet
  <2>5. QED
    BY <2>3, <2>4, QuietReport
<1>2. CASE CasCallback(c)
  <2>1. PICK b : b = (Up(c) /\ SetOf[link[c].addr] # NoSet)
    OBVIOUS
  <2>2. Reported(CasDiscovered(client, c, link[c].addr, Up(c) /\ SetOf[link[c].addr] # NoSet))
    BY <1>2 DEF CasCallback, StackStep
  <2>3. Reported(CasDiscovered(client, c, link[c].addr, b))
    BY <2>1, <2>2, Zenon
  <2>4. Quiet(client, CasDiscovered(client, c, link[c].addr, b))
    BY AudioFacts, CasDiscoveredQuiet
  <2>5. QED
    BY <2>3, <2>4, QuietReport
<1>3. CASE CasFails(c)
  <2>1. Reported(CasDiscovered(client, c, link[c].addr, FALSE))
    BY <1>3 DEF CasFails
  <2>2. Quiet(client, CasDiscovered(client, c, link[c].addr, FALSE))
    BY AudioFacts, CasDiscoveredQuiet
  <2>3. QED
    BY <2>1, <2>2, QuietReport
<1>4. QED
  BY <1>1, <1>2, <1>3

LEMMA ContentHeard ==
  ASSUME AudioInv, ContentTake \/ ContentTakeTimesOut \/ ContentPut PROVE Heard(client', link', strm')
<1>1. link' = link /\ strm' = strm
  BY DEF ContentTake, ContentTakeTimesOut, ContentPut
<1>2. CASE ContentTake
  <2>1. client' = client \/ client' = Taken(client, content.last)
    BY <1>2 DEF ContentTake
  <2>2. Heard(Taken(client, content.last), link, strm)
    BY AudioFacts, TakenHeard
  <2>3. QED
    BY <1>1, <2>1, <2>2, AudioFacts
<1>3. CASE ContentTakeTimesOut
  <2>1. client' = StartTimesOut(client)
    BY <1>3 DEF ContentTakeTimesOut
  <2>2. Heard(StartTimesOut(client), link, strm)
    BY AudioFacts, StartTimesOutQuiet, QuietHeard
  <2>3. QED
    BY <1>1, <2>1, <2>2
<1>4. CASE ContentPut
  <2>1. client' = EnqueueProc(client, content.busy)
    BY <1>4 DEF ContentPut
  <2>2. Heard(EnqueueProc(client, content.busy), link, strm)
    BY AudioFacts, EnqueueQuiet, QuietHeard
  <2>3. QED
    BY <1>1, <2>1, <2>2
<1>5. QED
  BY <1>2, <1>3, <1>4

LEMMA StackActionHeard == ASSUME AudioInv, NEW c \in Conns, Stack(c) PROVE Heard(client', link', strm')
  BY SecurityChangedHeard, PairingCompleteHeard, DisconnectedHeard, FreedHeard, CallbacksHeard, LinkReleasesHeard,
     ConnectedHeard DEF Stack

LEMMA AudioNext == AudioInv /\ [Next]_vars => AudioInv'
<1> SUFFICES ASSUME AudioInv, [Next]_vars PROVE AudioInv'
  OBVIOUS
<1>1. GatewayInv'
  BY GatewayNext DEF AudioInv
<1>2. Heard(client', link', strm')
  <2>1. CASE UNCHANGED vars
    BY <2>1, StillHeard DEF vars
  <2>2. CASE \E a \in Addrs, by \in {"bond", "name", "set"} : ScanRecv(a, by)
    BY <2>2, ScanRecvHeard
  <2>3. CASE \E c \in Conns : Stack(c) \/ ConnectFailed(c) \/ Closes(c)
    BY <2>3, StackActionHeard, ConnectFailedHeard, ClosesHeard
  <2>4. CASE Configured \/ Started \/ StartComplete \/ StartFails \/ StopReleases \/ StopComplete
    BY <2>4, ConfiguredHeard, StartedHeard, CompletesHeard, StopReleasesHeard
  <2>5. CASE \E t \in Streams : PeerStops(t) \/ PeerReleases(t)
    BY <2>5, PeerHeard
  <2>6. CASE CompleteTimesOut \/ Worker \/ WorkerTimesOut
    BY <2>6, CompletesHeard, WorkerHeard
  <2>7. CASE ContentTake \/ ContentTakeTimesOut \/ ContentPut \/ AudioMessage
    BY <2>7, ContentHeard, AudioMessageHeard
  <2>8. CASE CoordSet \/ PlayPause
    BY <2>8, StillHeard DEF CoordSet, PlayPause
  <2>9. QED
    BY <2>1, <2>2, <2>3, <2>4, <2>5, <2>6, <2>7, <2>8 DEF Next
<1>3. QED
  BY <1>1, <1>2 DEF AudioInv

LEMMA AudioInit == Init => AudioInv
<1> SUFFICES ASSUME Init PROVE AudioInv
  OBVIOUS
<1>1. PICK s : s = Filled[bonded]
  OBVIOUS
<1>2. bonded \subseteq Addrs /\ Cardinality(bonded) <= MaxPaired
  BY DEF Init
<1>3. StoreOf(s, bonded) /\ \A i \in Entries : Fresh(s[i])
  BY <1>1, <1>2, FilledRight DEF FilledFor
<1>4. client = ClientInit(s) /\ strm = "paused"
  BY <1>1 DEF Init
<1>5. PICK u : u = client
  OBVIOUS
<1>6. /\ u.servers = s /\ u.proc = NoProc /\ u.audioQ = <<>> /\ u.group = <<>>
      /\ u.ep = [t \in Streams |-> "none"]
  BY <1>4, <1>5 DEF ClientInit
<1>7. StoreRight(s)
  <2>1. PICK h : h = EmptyHalf
    OBVIOUS
  <2>2. HalfOk(h)
    BY <2>1, StoreAssumption DEF EmptyHalf, HalfOk, HalfFields, Sides
  <2>3. DOMAIN NoServer = EntryFields
    BY DEF NoServer, EntryFields
  <2>4. \A i \in Entries : EntryOk(s[i])
    BY <1>3, <2>1, <2>2, <2>3 DEF Fresh, EntryOk, Dirs
  <2>5. QED
    BY <1>3, <2>4 DEF StoreRight, StoreOf, Store
<1>8. GroupStreams(u) = {}
  BY <1>6 DEF GroupStreams
<1>9. PICK p, e : p = NoProc /\ e = u.ep
  OBVIOUS
<1>10. p.kind = "none" /\ p.all = {} /\ p.todo = {} /\ p \in Procs
  BY <1>9 DEF NoProc, Procs
<1>11. e \in [Streams -> EpStates] /\ \A t \in Streams : e[t] = "none"
  BY <1>6, <1>9 DEF EpStates
<1>12. Live(e, p) = {}
  BY <1>10, <1>11 DEF Live
<1>13. StreamTypes(e, p, {}, <<>>, strm)
  BY <1>4, <1>10, <1>11, EmptyIsSeq DEF StreamTypes
<1>14. Told(s, e, link, <<>>, strm)
  <2>1. Pausing(<<>>, strm)
    <3>1. 0 \in 0..Len(<<>>) /\ \A m \in 0 + 1 .. Len(<<>>) : FALSE
      OBVIOUS
    <3>2. QED
      BY <1>4, <3>1 DEF Pausing
  <2>2. QED
    BY <1>11, <2>1 DEF Told
<1>15. Sound(s, e, p, {}, link, <<>>, strm)
  BY <1>10, <1>12, <1>13, <1>14 DEF Sound, StreamLinked, Unbegun
<1>16. Heard(u, link, strm)
  BY <1>6, <1>7, <1>8, <1>9, <1>15 DEF Heard
<1>17. QED
  BY <1>5, <1>16, GatewayInit DEF AudioInv

\* With nothing under way, the invariant says what the application's state is.
LEMMA SettledFollows == AudioInv => AudioFollowsStreams
<1> SUFFICES ASSUME AudioInv, Idle
             PROVE  /\ strm = "streaming" => \E t \in Streams : client.ep[t] = "streaming"
                    /\ \A t \in Streams : client.ep[t] = "streaming" /\ t[3] = 1 => strm = "streaming"
  BY DEF AudioFollowsStreams
<1>1. PICK u, l : u = client /\ l = link
  OBVIOUS
<1>2. Told(u.servers, u.ep, l, u.audioQ, strm) /\ strm \in {"paused", "streaming"}
  BY <1>1 DEF AudioInv, Heard, Sound, StreamTypes
<1>3. u.audioQ = <<>> /\ \A c \in Conns : l[c].st \in {"free", "secured"}
  BY <1>1 DEF Idle
<1>4. Pausing(<<>>, strm) <=> strm = "paused"
  <2>1. 0..Len(<<>>) = {0} /\ \A m \in 0 + 1 .. Len(<<>>) : FALSE
    OBVIOUS
  <2>2. QED
    BY <2>1 DEF Pausing
<1>5. \A t \in Streams : ~ Down(u.servers, l, t)
  BY <1>3 DEF Down
<1>6. QED
  BY <1>1, <1>2, <1>3, <1>4, <1>5 DEF Told

\* Through starts, stops, releases by the gateway or a headset and connections lost, each
\* told of by messages that are read one by one and late: with nothing left under way the
\* application is in the streaming state only if a stream runs, and it is if the first
\* channel of a direction does, so that the button's next press does what it says
\* (stream_started_cb, stream_stopped_cb, le_audio_msg_sub_thread).  Of a later channel
\* this is not true: the count that stream_stopped_cb asks for ends at the first channel
\* if a headset has released it (srv_store_all_ep_state_count).
THEOREM ApplicationFollowsStreams == Spec => []AudioFollowsStreams
<1>1. Spec => []AudioInv
  BY AudioInit, AudioNext, PTL DEF Spec
<1>2. QED
  BY <1>1, SettledFollows, PTL

-----------------------------------------------------------------------------
(* The types, of the scan, the application and the button as well.         *)

ScanOk(s) == DOMAIN s = {"on", "bonds", "sirk"} /\ s.on \in BOOLEAN /\ s.bonds \in 0..MaxPaired

\* No more notifications are pending than the button was pressed.
ContentOk(k, n) ==
    /\ DOMAIN k = {"pending", "last", "busy"}
    /\ k.pending \in 0..n /\ k.last \in {"start", "stop"} /\ k.busy \in {"idle", "start", "stop"}

AppTypes == ScanOk(scan) /\ media \in {"paused", "playing"} /\ presses \in 0..MaxPresses /\ ContentOk(content, presses)

LEMMA ScanMoves ==
  ASSUME NEW s, ScanOk(s), NEW x
  PROVE  /\ ScanOk([s EXCEPT !.sirk = x])
         /\ ScanOk([s EXCEPT !.on = FALSE])
         /\ Cardinality(bonded) \in 0..MaxPaired => ScanOk(ScanStarted(s))
<1>1. ScanOk([s EXCEPT !.sirk = x])
  <2>1. PICK t : t = [s EXCEPT !.sirk = x]
    OBVIOUS
  <2>2. DOMAIN t = DOMAIN s /\ t.on = s.on /\ t.bonds = s.bonds
    BY <2>1 DEF ScanOk
  <2>3. QED
    BY <2>1, <2>2 DEF ScanOk
<1>2. ASSUME NEW b \in BOOLEAN, NEW n \in 0..MaxPaired PROVE ScanOk([s EXCEPT !.on = b, !.bonds = n])
  <2>1. PICK t : t = [s EXCEPT !.on = b, !.bonds = n]
    OBVIOUS
  <2>2. DOMAIN t = DOMAIN s /\ t.on = b /\ t.bonds = n
    BY <2>1 DEF ScanOk
  <2>3. QED
    BY <1>2, <2>1, <2>2 DEF ScanOk
<1>3. ScanOk([s EXCEPT !.on = FALSE])
  <2>1. PICK t : t = [s EXCEPT !.on = FALSE]
    OBVIOUS
  <2>2. DOMAIN t = DOMAIN s /\ t.on = FALSE /\ t.bonds = s.bonds
    BY <2>1 DEF ScanOk
  <2>3. QED
    BY <2>1, <2>2 DEF ScanOk
<1>4. QED
  BY <1>1, <1>2, <1>3 DEF ScanStarted

\* A step is one of these or a report of what becomes of streams and procedures.
LEMMA Reports ==
  ASSUME [Next]_vars
  PROVE  \/ \E a \in Addrs, by \in {"bond", "name", "set"} : ScanRecv(a, by)
         \/ \E c \in Conns : Stack(c) \/ ConnectFailed(c) \/ Closes(c)
         \/ ContentTake \/ ContentTakeTimesOut \/ ContentPut \/ AudioMessage \/ CoordSet \/ PlayPause
         \/ UNCHANGED vars
         \/ \E u : Reported(u)
<1>1. ASSUME NEW S, Ending(S) PROVE \E u : Reported(u)
  BY <1>1 DEF Ending, StackStep
<1>2. CASE Configured \/ Started \/ StartComplete \/ StartFails \/ StopComplete \/ CompleteTimesOut
  BY <1>2 DEF Configured, Started, StartComplete, StartFails, StopComplete, CompleteTimesOut, StackStep
<1>3. CASE StopReleases
  BY <1>1, <1>3 DEF StopReleases
<1>4. CASE Worker \/ WorkerTimesOut
  BY <1>4 DEF Worker, WorkerTimesOut, StackStep
<1>5. CASE \E s \in Streams : PeerStops(s) \/ PeerReleases(s)
  BY <1>5 DEF PeerStops, PeerReleases
<1>6. QED
  BY <1>2, <1>3, <1>4, <1>5 DEF Next

\* scan_recv_cb, connected_cb, disconnected_cb and the coordinated set's messages.
LEMMA ScanStays == ASSUME GatewayInv, ScanOk(scan), [Next]_vars PROVE ScanOk(scan')
<1>1. Cardinality(bonded) \in 0..MaxPaired
  BY BondsFinite, GatewayAssumption DEF GatewayInv
<1>2. ASSUME NEW a \in Addrs, NEW by \in {"bond", "name", "set"}, ScanRecv(a, by) PROVE ScanOk(scan')
  <2>1. PICK s : ScanOk(s) /\ ConnectTo(a, s)
    <3>1. PICK t : t = [scan EXCEPT !.sirk = NoSet]
      OBVIOUS
    <3>2. ScanOk(t)
      BY <3>1, ScanMoves
    <3>3. ConnectTo(a, scan) \/ ConnectTo(a, t)
      BY <1>2, <3>1 DEF ScanRecv
    <3>4. QED
      BY <3>2, <3>3
  <2>2. scan' = ScanStarted(s) \/ scan' = [s EXCEPT !.on = FALSE]
    BY <2>1 DEF ConnectTo
  <2>3. QED
    BY <1>1, <2>1, <2>2, ScanMoves
<1>3. ASSUME NEW c \in Conns, ConnectFailed(c) \/ Disconnected(c) PROVE ScanOk(scan')
  BY <1>1, <1>3, ScanMoves DEF ConnectFailed, Disconnected
<1>4. CASE AudioMessage
  <2>1. scan' = scan \/ \E x : scan' = [scan EXCEPT !.sirk = x]
    BY <1>4 DEF AudioMessage
  <2>2. QED
    BY <2>1, ScanMoves
<1>5. CASE CoordSet
  <2>1. PICK s : /\ s = [scan EXCEPT !.sirk = IF FilledCount = SetSize THEN NoSet ELSE @]
                 /\ scan' = ScanStarted(s) \/ scan' = s
    BY <1>5 DEF CoordSet
  <2>2. ScanOk(s)
    BY <2>1, ScanMoves
  <2>3. QED
    BY <1>1, <2>1, <2>2, ScanMoves
<1>6. CASE scan' = scan
  BY <1>6
<1>7. ASSUME NEW c \in Conns, Stack(c) \/ Closes(c) PROVE ScanOk(scan')
  <2>1. scan' = scan \/ Disconnected(c)
    BY <1>7 DEF Stack, Closes, SecurityChanged, PairingComplete, Freed, DiscoveryCallback, CasCallback, CasFails,
       LinkReleases, Connected_, Ending, StackStep, Reported
  <2>2. QED
    BY <1>3, <1>6, <2>1
<1>8. ASSUME NEW u, Reported(u) PROVE ScanOk(scan')
  BY <1>6, <1>8 DEF Reported
<1>9. CASE ContentTake \/ ContentTakeTimesOut \/ ContentPut \/ PlayPause
  BY <1>6, <1>9 DEF ContentTake, ContentTakeTimesOut, ContentPut, PlayPause
<1>10. CASE UNCHANGED vars
  BY <1>6, <1>10 DEF vars
<1>11. QED
  BY <1>2, <1>3, <1>4, <1>5, <1>7, <1>8, <1>9, <1>10, Reports

\* The button's messages and what the subscriber has taken of them.
LEMMA ButtonStays ==
  ASSUME media \in {"paused", "playing"}, presses \in 0..MaxPresses, ContentOk(content, presses), [Next]_vars
  PROVE  media' \in {"paused", "playing"} /\ presses' \in 0..MaxPresses /\ ContentOk(content', presses')
<1>1. presses \in Nat /\ MaxPresses \in Nat
  BY GatewayAssumption
<1>2. CASE PlayPause
  <2>1. presses' = presses + 1 /\ presses' \in 0..MaxPresses /\ media' \in {"paused", "playing"}
    BY <1>1, <1>2 DEF PlayPause
  <2>2. PICK x \in {"start", "stop"} : content' = content \/ content' = [content EXCEPT !.pending = @ + 1, !.last = x]
    BY <1>2 DEF PlayPause
  <2>3. PICK k : k = content'
    OBVIOUS
  <2>4. /\ DOMAIN k = DOMAIN content /\ k.busy = content.busy
        /\ k.pending \in {content.pending, content.pending + 1} /\ k.last \in {content.last, x}
    BY <2>2, <2>3 DEF ContentOk
  <2>5. ContentOk(k, presses + 1)
    BY <1>1, <2>4 DEF ContentOk
  <2>6. QED
    BY <2>1, <2>3, <2>5
<1>3. CASE ContentTake \/ ContentTakeTimesOut \/ ContentPut
  <2>1. media' = media /\ presses' = presses
    BY <1>3 DEF ContentTake, ContentTakeTimesOut, ContentPut
  <2>2. PICK k : k = content'
    OBVIOUS
  <2>3. /\ DOMAIN k = DOMAIN content /\ k.last = content.last
        /\ k.pending = content.pending \/ (content.pending > 0 /\ k.pending = content.pending - 1)
        /\ k.busy \in {"idle", content.busy, content.last}
    BY <1>3, <2>2 DEF ContentTake, ContentTakeTimesOut, ContentPut, ContentOk
  <2>4. ContentOk(k, presses)
    BY <1>1, <2>3 DEF ContentOk
  <2>5. QED
    BY <2>1, <2>2, <2>4
<1>4. CASE media' = media /\ presses' = presses /\ content' = content
  BY <1>4
<1>5. ASSUME NEW c \in Conns, Stack(c) \/ ConnectFailed(c) \/ Closes(c)
      PROVE  media' = media /\ presses' = presses /\ content' = content
  BY <1>5 DEF Stack, Closes, ConnectFailed, SecurityChanged, PairingComplete, Disconnected, Freed, DiscoveryCallback,
     CasCallback, CasFails, LinkReleases, Connected_, Ending, StackStep, Reported, appVars
<1>6. ASSUME NEW u, Reported(u) PROVE media' = media /\ presses' = presses /\ content' = content
  BY <1>6 DEF Reported, appVars
<1>7. CASE AudioMessage \/ CoordSet
  BY <1>4, <1>7 DEF AudioMessage, CoordSet
<1>8. CASE \E a \in Addrs, by \in {"bond", "name", "set"} : ScanRecv(a, by)
  BY <1>4, <1>8 DEF ScanRecv, appVars
<1>9. CASE UNCHANGED vars
  BY <1>4, <1>9 DEF vars
<1>10. QED
  BY <1>2, <1>3, <1>4, <1>5, <1>6, <1>7, <1>8, <1>9, Reports

LEMMA AppTypesInit == Init => AppTypes
<1> SUFFICES ASSUME Init PROVE AppTypes
  OBVIOUS
<1>1. Cardinality(bonded) \in 0..MaxPaired
  BY GatewayInit, BondsFinite, GatewayAssumption DEF GatewayInv
<1>2. ScanOk(scan)
  BY <1>1 DEF Init, ScanOk
<1>3. media = "playing" /\ presses = 0 /\ ContentOk(content, 0)
  BY DEF Init, ContentOk
<1>4. QED
  BY <1>2, <1>3, GatewayAssumption DEF AppTypes

LEMMA AppTypesNext == GatewayInv /\ AppTypes /\ [Next]_vars => AppTypes'
  BY ScanStays, ButtonStays DEF AppTypes

LEMMA TypesFollow == AudioInv /\ AppTypes => TypeOK
<1> SUFFICES ASSUME AudioInv, AppTypes PROVE TypeOK
  OBVIOUS
<1>1. /\ link \in [Conns -> [addr : Addrs \cup {NoAddr}, st : LinkStates]]
      /\ bonded \subseteq Addrs /\ Cardinality(bonded) <= MaxPaired
      /\ client.sem \in 0..1 /\ Len(client.capQ) <= MaxWaiting
  BY DEF AudioInv, GatewayInv, Links, Waits
<1>2. client.ep \in [Streams -> EpStates] /\ GroupStreams(client) \subseteq Streams /\ strm \in {"paused", "streaming"}
  BY DEF AudioInv, Heard, Sound, StreamTypes
<1>3. \A i \in Entries, d \in Dirs : client.servers[i][d].eps \in 0..MaxEps
  BY DEF AudioInv, Heard, StoreRight, EntryOk, HalfOk, Dirs
<1>4. scan.on \in BOOLEAN /\ scan.bonds \in 0..MaxPaired
  BY DEF AppTypes, ScanOk
<1>5. media \in {"paused", "playing"} /\ content.pending \in 0..MaxPresses /\ content.busy \in {"idle", "start", "stop"}
  BY GatewayAssumption DEF AppTypes, ContentOk
<1>6. QED
  BY <1>1, <1>2, <1>3, <1>4, <1>5 DEF TypeOK

\* For any number of headsets, endpoints, connections and presses: what a headset says it
\* has never makes the store keep more endpoints than there is room for, no more procedures
\* wait than cap_proc_q holds although two threads ask for them, and no more headsets are
\* bonded than the bond store takes (endpoint_cb, unicast_client_start, pairing_complete_cb).
THEOREM GatewayTypeCorrect == Spec => []TypeOK
<1>1. Init => AudioInv /\ AppTypes
  BY AudioInit, AppTypesInit
<1>2. AudioInv /\ AppTypes /\ [Next]_vars => (AudioInv /\ AppTypes)'
  BY AudioNext, AppTypesNext DEF AudioInv
<1>3. QED
  BY <1>1, <1>2, TypesFollow, PTL DEF Spec
=============================================================================
