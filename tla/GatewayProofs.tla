----------------------------- MODULE GatewayProofs -----------------------------
(***************************************************************************)
(* Proofs about the gateway, for every value of its constants: one         *)
(* procedure runs at a time and its semaphore is given back but by a start *)
(* that does not get the store's lock, and the store of headsets agrees    *)
(* with the stack's connections.                                           *)
(***************************************************************************)
EXTENDS Gateway, FiniteSetTheorems, WellFoundedInduction, TLAPS

-----------------------------------------------------------------------------
(* What the CHOOSE of a lowest entry or connection finds.                  *)

LEMMA LessIsWellFounded == \E R : IsWellFoundedOn(R, Nat) /\ \A x, y \in Nat : y < x => <<y, x>> \in R
<1> DEFINE R == OpToRel(<, Nat)
<1>1. IsWellFoundedOn(R, Nat)
  BY NatLessThanWellFounded, Zenon
<1>2. \A x, y \in Nat : y < x => <<y, x>> \in R
  BY DEF OpToRel
<1> HIDE DEF R
<1>3. QED
  BY <1>1, <1>2, Zenon

LEMMA LeastIsOne == ASSUME NEW T \in SUBSET Nat, T # {} PROVE Least(T) \in T
<1>1. PICK R : IsWellFoundedOn(R, Nat) /\ \A x, y \in Nat : y < x => <<y, x>> \in R
  BY LessIsWellFounded
<1>2. PICK x \in T : \A y \in T : ~ (<<y, x>> \in R)
  BY <1>1, WFMin
<1>3. \A y \in T : ~ (y < x)
  BY <1>1, <1>2
<1>4. \A y \in T : x <= y
  BY <1>3
<1>5. QED
  BY <1>2, <1>4 DEF Least

-----------------------------------------------------------------------------
(* The client's state as a record, and what most operators leave alone.    *)

ClientFields == {"servers", "sem", "capQ", "created", "playing", "startWork", "audioQ", "group", "ep", "proc",
                 "disc", "cas", "kept"}

Store(s) == DOMAIN s = Entries /\ \A i \in Entries : {"addr", "conn"} \subseteq DOMAIN s[i]
Discoveries == [Conns -> [dir : {"none", "sink", "source"}, next : Nat]]

\* The shape of the client's state.
Client(u) == DOMAIN u = ClientFields /\ Store(u.servers) /\ u.disc \in Discoveries /\ u.kept \in BOOLEAN

\* The entries have their addresses and connections still.
SameEntries(s, t) == Store(t) /\ \A i \in Entries : t[i].addr = s[i].addr /\ t[i].conn = s[i].conn

\* A step of the client that is none of the store's entries or of a procedure.
Kept(u, v) ==
    /\ Client(v) /\ SameEntries(u.servers, v.servers)
    /\ v.sem = u.sem /\ v.kept = u.kept /\ v.capQ = u.capQ /\ v.proc = u.proc

LEMMA Fields ==
  ASSUME NEW u, Client(u)
  PROVE  /\ "servers" \in DOMAIN u /\ "sem" \in DOMAIN u /\ "capQ" \in DOMAIN u /\ "created" \in DOMAIN u
         /\ "playing" \in DOMAIN u /\ "startWork" \in DOMAIN u /\ "audioQ" \in DOMAIN u /\ "group" \in DOMAIN u
         /\ "ep" \in DOMAIN u /\ "proc" \in DOMAIN u /\ "disc" \in DOMAIN u /\ "cas" \in DOMAIN u
         /\ "kept" \in DOMAIN u
  BY DEF Client, ClientFields

LEMMA KeptItself == ASSUME NEW u, Client(u) PROVE Kept(u, u)
  BY DEF Kept, SameEntries, Client

LEMMA KeptOn == ASSUME NEW u, NEW v, NEW w, Kept(u, v), Kept(v, w) PROVE Kept(u, w)
  BY DEF Kept, SameEntries

\* A field that is none of these.
LEMMA OtherField ==
  ASSUME NEW u, Client(u), NEW e,
         NEW f \in {"created", "playing", "startWork", "audioQ", "group", "ep", "cas"}
  PROVE  Kept(u, [u EXCEPT ![f] = e])
<1> DEFINE v == [u EXCEPT ![f] = e]
<1>1. DOMAIN v = DOMAIN u /\ \A g \in DOMAIN u : g # f => v[g] = u[g]
  OBVIOUS
<1>2. "servers" # f /\ "sem" # f /\ "capQ" # f /\ "proc" # f /\ "disc" # f /\ "kept" # f
  OBVIOUS
<1>3. /\ v.servers = u.servers /\ v.sem = u.sem /\ v.capQ = u.capQ /\ v.proc = u.proc
      /\ v.disc = u.disc /\ v.kept = u.kept
  BY <1>1, <1>2, Fields
<1> HIDE DEF v
<1>4. Kept(u, v)
  BY <1>1, <1>3 DEF Kept, SameEntries, Client
<1>5. QED
  BY <1>4 DEF v

LEMMA ServersField ==
  ASSUME NEW u, Client(u), NEW s, SameEntries(u.servers, s)
  PROVE  Kept(u, [u EXCEPT !.servers = s]) /\ [u EXCEPT !.servers = s].servers = s
<1> DEFINE v == [u EXCEPT !.servers = s]
<1>1. /\ DOMAIN v = DOMAIN u /\ v.servers = s /\ v.sem = u.sem /\ v.capQ = u.capQ /\ v.proc = u.proc
      /\ v.disc = u.disc /\ v.kept = u.kept
  BY Fields
<1> HIDE DEF v
<1>2. Kept(u, v)
  BY <1>1 DEF Kept, SameEntries, Client
<1>3. QED
  BY <1>1, <1>2 DEF v

LEMMA DiscField ==
  ASSUME NEW u, Client(u), NEW c, NEW d \in [dir : {"none", "sink", "source"}, next : Nat]
  PROVE  Kept(u, [u EXCEPT !.disc[c] = d])
<1> DEFINE v == [u EXCEPT !.disc[c] = d]
<1>1. /\ DOMAIN v = DOMAIN u /\ v.servers = u.servers /\ v.sem = u.sem /\ v.capQ = u.capQ /\ v.proc = u.proc
      /\ v.disc = [u.disc EXCEPT ![c] = d] /\ v.kept = u.kept
  BY Fields
<1>2. v.disc \in Discoveries
  <2>1. PICK D : D = [dir : {"none", "sink", "source"}, next : Nat]
    OBVIOUS
  <2>2. u.disc \in [Conns -> D] /\ d \in D
    BY <2>1 DEF Client, Discoveries
  <2>3. [u.disc EXCEPT ![c] = d] \in [Conns -> D]
    BY <2>2
  <2>4. QED
    BY <1>1, <2>1, <2>3 DEF Discoveries
<1> HIDE DEF v
<1>3. Kept(u, v)
  BY <1>1, <1>2 DEF Kept, SameEntries, Client
<1>4. QED
  BY <1>3 DEF v

\* A change inside one direction of an entry.
LEMMA InsideEntry ==
  ASSUME NEW s, Store(s), NEW i, NEW d \in {"none", "sink", "source", "member"}, NEW e
  PROVE  SameEntries(s, [s EXCEPT ![i][d] = e])
<1> DEFINE t == [s EXCEPT ![i][d] = e]
<1>1. DOMAIN t = DOMAIN s /\ \A j \in DOMAIN s : t[j] = IF j = i THEN [s[i] EXCEPT ![d] = e] ELSE s[j]
  OBVIOUS
<1>2. DOMAIN [s[i] EXCEPT ![d] = e] = DOMAIN s[i] /\ \A g \in DOMAIN s[i] : g # d => [s[i] EXCEPT ![d] = e][g] = s[i][g]
  OBVIOUS
<1>3. "addr" # d /\ "conn" # d
  OBVIOUS
<1> HIDE DEF t
<1>4. ASSUME NEW j \in Entries
      PROVE  {"addr", "conn"} \subseteq DOMAIN t[j] /\ t[j].addr = s[j].addr /\ t[j].conn = s[j].conn
  BY <1>1, <1>2, <1>3 DEF Store
<1>5. QED
  BY <1>1, <1>4 DEF SameEntries, Store, t

-----------------------------------------------------------------------------
(* unicast_client.c: the procedures.                                       *)

\* The semaphore is taken exactly while a procedure runs, or once a start has kept it.
Exclusive(u) ==
    /\ "kind" \in DOMAIN u.proc
    /\ u.sem = 0 <=> u.proc.kind # "none" \/ u.kept
    /\ u.kept => u.proc.kind = "none"

\* What the semaphore counts to and what its queue holds stay within their bounds.
IsSeq(q) == \E S : q \in Seq(S)
Waits(n, q) == n \in 0..1 /\ IsSeq(q) /\ Len(q) <= MaxWaiting
StillWaits(u, v) == Waits(u.sem, u.capQ) => Waits(v.sem, v.capQ)

\* What may begin a procedure leaves store and discoveries alone.
Asked(u, v) ==
    /\ DOMAIN v = ClientFields /\ v.servers = u.servers /\ v.disc = u.disc /\ v.kept \in BOOLEAN
    /\ Exclusive(v) /\ StillWaits(u, v)

\* What is to be shown of a client's step that adds or clears no entry.
Stepped(u, v) == Client(v) /\ Exclusive(v) /\ SameEntries(u.servers, v.servers) /\ StillWaits(u, v)

LEMMA KeptSteps == ASSUME NEW u, Exclusive(u), NEW v, Kept(u, v) PROVE Stepped(u, v)
  BY DEF Kept, Stepped, Exclusive, StillWaits

LEMMA AskedSteps == ASSUME NEW u, NEW v, NEW w, Kept(u, v), Asked(v, w) PROVE Stepped(u, w)
  BY DEF Kept, Asked, Stepped, Client, SameEntries, StillWaits

LEMMA SteppedOn == ASSUME NEW u, NEW v, NEW w, Stepped(u, v), Stepped(v, w) PROVE Stepped(u, w)
  BY DEF Stepped, SameEntries, StillWaits

LEMMA PublishKept == ASSUME NEW u, Client(u), NEW e, NEW c, NEW d PROVE Kept(u, Publish(u, e, c, d))
  BY OtherField DEF Publish

LEMMA Appended ==
  ASSUME NEW q, IsSeq(q), NEW m
  PROVE  /\ IsSeq(Append(q, m)) /\ Len(q) \in Nat /\ Len(Append(q, m)) = Len(q) + 1
         /\ Append(q, m)[Len(q) + 1] = m /\ \A n \in 1..Len(q) : Append(q, m)[n] = q[n]
<1>1. PICK S : q \in Seq(S)
  BY DEF IsSeq
<1>2. PICK R : R = S \cup {m}
  OBVIOUS
<1>3. q \in Seq(R) /\ m \in R
  <2>1. \A n \in 1..Len(q) : q[n] \in R
    BY <1>1, <1>2
  <2>2. q = [n \in 1..Len(q) |-> q[n]] /\ Len(q) \in Nat
    BY <1>1
  <2>3. QED
    BY <1>2, <2>1, <2>2
<1>4. Append(q, m) \in Seq(R)
  BY <1>3
<1>5. IsSeq(Append(q, m))
  BY <1>4, Zenon DEF IsSeq
<1>6. QED
  BY <1>3, <1>5

LEMMA TailRead ==
  ASSUME NEW q, IsSeq(q), q # <<>>
  PROVE  /\ IsSeq(Tail(q)) /\ Len(q) \in Nat /\ Len(q) # 0 /\ Head(q) = q[1] /\ Len(Tail(q)) = Len(q) - 1
         /\ \A n \in 1 .. Len(q) - 1 : Tail(q)[n] = q[n + 1]
<1>1. PICK S : q \in Seq(S)
  BY DEF IsSeq
<1>2. Tail(q) \in Seq(S)
  BY <1>1
<1>3. IsSeq(Tail(q))
  BY <1>2, Zenon DEF IsSeq
<1>4. QED
  BY <1>1, <1>3

LEMMA EmptyIsSeq == IsSeq(<<>>) /\ Len(<<>>) = 0
<1>1. <<>> \in Seq({})
  OBVIOUS
<1>2. QED
  BY <1>1, Zenon DEF IsSeq

\* One more waits if there is room.
LEMMA AppendWaits ==
  ASSUME NEW n, NEW q, Waits(n, q), Len(q) < MaxWaiting, NEW m PROVE Waits(n, Append(q, m))
<1>1. IsSeq(Append(q, m)) /\ Len(q) \in Nat /\ Len(Append(q, m)) = Len(q) + 1
  BY Appended DEF Waits
<1>2. QED
  BY <1>1, ClientAssumption DEF Waits

LEMMA TailWaits == ASSUME NEW n, NEW q, Waits(n, q), q # <<>> PROVE Waits(n, Tail(q))
<1>1. IsSeq(Tail(q)) /\ Len(q) \in Nat /\ Len(Tail(q)) = Len(q) - 1
  BY TailRead DEF Waits
<1>2. QED
  BY <1>1, ClientAssumption DEF Waits

LEMMA EnqueueAsked == ASSUME NEW u, Client(u), Exclusive(u), NEW kind PROVE Asked(u, EnqueueProc(u, kind))
<1>1. CASE Len(u.capQ) < MaxWaiting
  <2> DEFINE v == [u EXCEPT !.capQ = Append(@, kind)]
  <2>1. /\ DOMAIN v = DOMAIN u /\ v.servers = u.servers /\ v.sem = u.sem /\ v.capQ = Append(u.capQ, kind)
        /\ v.proc = u.proc /\ v.disc = u.disc /\ v.kept = u.kept
    BY Fields
  <2> HIDE DEF v
  <2>2. StillWaits(u, v)
    BY <1>1, <2>1, AppendWaits DEF StillWaits
  <2>3. Asked(u, v)
    BY <2>1, <2>2 DEF Asked, Exclusive, Client
  <2>4. QED
    BY <1>1, <2>3 DEF EnqueueProc, v
<1>2. CASE ~(Len(u.capQ) < MaxWaiting)
  BY <1>2 DEF EnqueueProc, Asked, Client, StillWaits
<1>3. QED
  BY <1>1, <1>2

LEMMA BegunAsked ==
  ASSUME NEW u, Client(u), ~u.kept, NEW kind, kind # "none", NEW S PROVE Asked(u, Begun(u, kind, S))
<1> DEFINE p == [kind |-> kind, all |-> S, todo |-> S]
           v == [u EXCEPT !.sem = 0, !.proc = p]
<1>1. /\ DOMAIN v = DOMAIN u /\ v.servers = u.servers /\ v.sem = 0 /\ v.capQ = u.capQ /\ v.proc = p /\ v.disc = u.disc
      /\ v.kept = u.kept
  BY Fields
<1>2. "kind" \in DOMAIN p /\ p.kind = kind
  OBVIOUS
<1> HIDE DEF v, p
<1>3. Asked(u, v)
  BY <1>1, <1>2 DEF Asked, Exclusive, Client, StillWaits, Waits
<1>4. QED
  BY <1>3 DEF Begun, v, p

\* A procedure that has nothing to do, or is refused, gives the semaphore back.
LEMMA GivenBackAsked ==
  ASSUME NEW u, Client(u), Exclusive(u), u.sem # 0 PROVE Asked(u, [u EXCEPT !.sem = 1])
<1> DEFINE v == [u EXCEPT !.sem = 1]
<1>1. /\ DOMAIN v = DOMAIN u /\ v.servers = u.servers /\ v.sem = 1 /\ v.capQ = u.capQ /\ v.proc = u.proc
      /\ v.disc = u.disc /\ v.kept = u.kept
  BY Fields
<1> HIDE DEF v
<1>2. Asked(u, v)
  BY <1>1 DEF Asked, Exclusive, Client, StillWaits, Waits
<1>3. QED
  BY <1>2 DEF v

\* A start that does not get the store's lock keeps the semaphore.
LEMMA StartTimesOutAsked ==
  ASSUME NEW u, Client(u), Exclusive(u), u.sem # 0 PROVE Asked(u, StartTimesOut(u))
<1> DEFINE v == [u EXCEPT !.sem = 0, !.kept = TRUE]
<1>1. /\ DOMAIN v = DOMAIN u /\ v.servers = u.servers /\ v.sem = 0 /\ v.capQ = u.capQ /\ v.proc = u.proc
      /\ v.disc = u.disc /\ v.kept = TRUE
  BY Fields
<1> HIDE DEF v
<1>2. "kind" \in DOMAIN u.proc /\ u.proc.kind = "none"
  BY DEF Exclusive
<1>3. Exclusive(v)
  BY <1>1, <1>2 DEF Exclusive
<1>4. StillWaits(u, v)
  BY <1>1 DEF StillWaits, Waits
<1>5. Asked(u, v)
  BY <1>1, <1>3, <1>4 DEF Asked, Client
<1>6. QED
  BY <1>5 DEF StartTimesOut, v

LEMMA TakenAsked == ASSUME NEW u, Client(u), Exclusive(u), u.sem # 0, NEW kind PROVE Asked(u, Taken(u, kind))
<1>0. ~u.kept
  BY DEF Exclusive
<1>1. Asked(u, [u EXCEPT !.sem = 1]) /\ Asked(u, Begun(u, "start", StartParams(u)))
  BY <1>0, GivenBackAsked, BegunAsked
<1>2. Asked(u, StartTaken(u))
  BY <1>1 DEF StartTaken
<1>3. PICK S : S = {s \in GroupStreams(u) : u.ep[s] # "none"}
  OBVIOUS
<1>4. StopTaken(u) = IF S = {} THEN [u EXCEPT !.sem = 1] ELSE Begun(u, "stop", S)
  BY <1>3 DEF StopTaken
<1>5. Asked(u, StopTaken(u))
  BY <1>0, <1>1, <1>4, BegunAsked
<1>6. QED
  BY <1>2, <1>5 DEF Taken

LEMMA RequestAsked == ASSUME NEW u, Client(u), Exclusive(u), NEW kind PROVE Asked(u, Request(u, kind))
<1>1. CASE u.sem = 0
  BY <1>1, EnqueueAsked DEF Request
<1>2. CASE u.sem # 0
  BY <1>2, TakenAsked DEF Request
<1>3. QED
  BY <1>1, <1>2

\* A procedure that ends gives the semaphore back.
LEMMA ProcEndsAsked ==
  ASSUME NEW u, Client(u), Exclusive(u), u.proc.kind # "none"
  PROVE  Asked(u, ProcEnds(u)) /\ Client(ProcEnds(u)) /\ Exclusive(ProcEnds(u)) /\ ProcEnds(u).sem = 1
<1> DEFINE v == [u EXCEPT !.sem = 1, !.proc = NoProc, !.playing = (u.proc.kind = "start")]
<1>1. /\ DOMAIN v = DOMAIN u /\ v.servers = u.servers /\ v.sem = 1 /\ v.capQ = u.capQ /\ v.proc = NoProc
      /\ v.disc = u.disc /\ v.kept = u.kept
  BY Fields
<1>2. "kind" \in DOMAIN NoProc /\ NoProc.kind = "none"
  BY DEF NoProc
<1>3. ~u.kept
  BY DEF Exclusive
<1> HIDE DEF v
<1>4. Asked(u, v) /\ Client(v) /\ Exclusive(v)
  BY <1>1, <1>2, <1>3 DEF Asked, Exclusive, Client, StillWaits, Waits
<1>5. QED
  BY <1>1, <1>4 DEF ProcEnds, v

\* The procedure that waits is read from its queue.
LEMMA ReadAsked ==
  ASSUME NEW u, Client(u), Exclusive(u), u.capQ # <<>>, NEW w, w = [u EXCEPT !.capQ = Tail(@)]
  PROVE  Asked(u, w) /\ Client(w) /\ Exclusive(w) /\ w.sem = u.sem
<1>1. /\ DOMAIN w = DOMAIN u /\ w.servers = u.servers /\ w.sem = u.sem /\ w.capQ = Tail(u.capQ) /\ w.proc = u.proc
      /\ w.disc = u.disc /\ w.kept = u.kept
  BY Fields
<1>2. Client(w) /\ Exclusive(w)
  BY <1>1 DEF Exclusive, Client
<1>3. StillWaits(u, w)
  BY <1>1, TailWaits DEF StillWaits
<1>4. QED
  BY <1>1, <1>2, <1>3 DEF Asked, Client

LEMMA AskedOn == ASSUME NEW u, NEW v, NEW w, Asked(u, v), Asked(v, w) PROVE Asked(u, w)
  BY DEF Asked, StillWaits

\* One that waits may then begin.
LEMMA ProcCompleteAsked ==
  ASSUME NEW u, Client(u), Exclusive(u), u.proc.kind # "none" PROVE Asked(u, ProcComplete(u))
<1>1. PICK v : v = ProcEnds(u)
  OBVIOUS
<1>2. Asked(u, v) /\ Client(v) /\ Exclusive(v)
  BY <1>1, ProcEndsAsked
<1>3. PICK w : w = [v EXCEPT !.capQ = Tail(@)]
  OBVIOUS
<1>4. ASSUME v.capQ # <<>> PROVE Asked(u, Request(w, Head(v.capQ)))
  <2>1. Asked(v, w) /\ Client(w) /\ Exclusive(w)
    BY <1>2, <1>3, <1>4, ReadAsked
  <2>2. Asked(w, Request(w, Head(v.capQ)))
    BY <2>1, RequestAsked
  <2>3. QED
    BY <1>2, <2>1, <2>2, AskedOn
<1>5. Asked(u, WaitingCheck(v))
  BY <1>2, <1>3, <1>4 DEF WaitingCheck
<1>6. QED
  BY <1>1, <1>5 DEF ProcComplete

\* Or, if it is a start, not get the store's lock.
LEMMA CompleteTimesOutAsked ==
  ASSUME NEW u, Client(u), Exclusive(u), u.proc.kind # "none", u.capQ # <<>>
  PROVE  Asked(u, StartTimesOut([ProcEnds(u) EXCEPT !.capQ = Tail(@)]))
<1>1. PICK v : v = ProcEnds(u)
  OBVIOUS
<1>2. Asked(u, v) /\ Client(v) /\ Exclusive(v) /\ v.sem = 1
  BY <1>1, ProcEndsAsked
<1>3. v.capQ = u.capQ
  BY <1>1, Fields DEF ProcEnds
<1>4. PICK w : w = [v EXCEPT !.capQ = Tail(@)]
  OBVIOUS
<1>5. Asked(v, w) /\ Client(w) /\ Exclusive(w) /\ w.sem = 1
  BY <1>2, <1>3, <1>4, ReadAsked
<1>6. Asked(w, StartTimesOut(w))
  BY <1>5, StartTimesOutAsked
<1>7. Asked(u, StartTimesOut(w))
  BY <1>2, <1>5, <1>6, AskedOn
<1>8. QED
  BY <1>1, <1>4, <1>7

-----------------------------------------------------------------------------
(* unicast_client.c: the group, and the callbacks of a stream.             *)

LEMMA GroupCreateKept == ASSUME NEW u, Client(u) PROVE Kept(u, GroupCreate(u))
<1> DEFINE v == [u EXCEPT !.group = Pairs(u)]
<1>1. Kept(u, v) /\ Client(v)
  BY OtherField DEF Kept
<1> HIDE DEF v
<1>2. Kept(v, [v EXCEPT !.created = TRUE])
  BY <1>1, OtherField
<1>3. Kept(u, [v EXCEPT !.created = TRUE])
  BY <1>1, <1>2, KeptOn
<1>4. [u EXCEPT !.group = Pairs(u), !.created = TRUE] = [v EXCEPT !.created = TRUE]
  BY DEF v
<1>5. QED
  BY <1>3, <1>4, KeptItself DEF GroupCreate

LEMMA StartWorkerSteps ==
  ASSUME NEW u, Client(u), Exclusive(u), NEW connected PROVE Stepped(u, StartWorker(u, connected))
<1> DEFINE v == [u EXCEPT !.startWork = FALSE]
<1>1. Kept(u, v) /\ Client(v)
  BY OtherField DEF Kept
<1> HIDE DEF v
<1>2. Exclusive(v)
  BY <1>1 DEF Kept, Exclusive
<1>3. Stepped(u, Request(v, "start")) /\ Stepped(u, Request(v, "stop"))
  BY <1>1, <1>2, RequestAsked, AskedSteps
<1>4. Stepped(u, Request(GroupCreate(v), "start"))
  <2>1. PICK g : g = GroupCreate(v)
    OBVIOUS
  <2>2. Kept(v, g)
    BY <1>1, <2>1, GroupCreateKept
  <2>3. Kept(u, g) /\ Client(g)
    BY <1>1, <2>2, KeptOn DEF Kept
  <2>4. Exclusive(g)
    BY <2>3 DEF Kept, Exclusive
  <2>5. Stepped(u, Request(g, "start"))
    BY <2>3, <2>4, RequestAsked, AskedSteps
  <2>6. QED
    BY <2>1, <2>5
<1>5. Stepped(u, [Request(v, "stop") EXCEPT !.created = FALSE])
  <2>1. PICK r : r = Request(v, "stop")
    OBVIOUS
  <2>2. Stepped(u, r)
    BY <1>3, <2>1
  <2>3. Kept(r, [r EXCEPT !.created = FALSE])
    BY <2>2, OtherField DEF Stepped
  <2>4. Stepped(r, [r EXCEPT !.created = FALSE])
    BY <2>2, <2>3, KeptSteps DEF Stepped
  <2>5. Stepped(u, [r EXCEPT !.created = FALSE])
    BY <2>2, <2>4, SteppedOn
  <2>6. QED
    BY <2>1, <2>5
<1>6. QED
  BY <1>3, <1>4, <1>5 DEF StartWorker, v

LEMMA StartWorkerTimeoutsStep ==
  ASSUME NEW u, Client(u), Exclusive(u), NEW connected, NEW w \in StartWorkerTimeouts(u, connected)
  PROVE  Stepped(u, w)
<1> DEFINE v == [u EXCEPT !.startWork = FALSE]
<1>1. Kept(u, v) /\ Client(v)
  BY OtherField DEF Kept
<1>2. \/ w = v \/ w = Request(v, "start")
      \/ v.sem = 1 /\ (w = StartTimesOut(v) \/ w = StartTimesOut(GroupCreate(v)))
  BY DEF StartWorkerTimeouts
<1> HIDE DEF v
<1>3. PICK g : g = GroupCreate(v)
  OBVIOUS
<1>4. Kept(v, g)
  BY <1>1, <1>3, GroupCreateKept
<1>5. Kept(u, g) /\ Client(g) /\ g.sem = v.sem
  BY <1>1, <1>4, KeptOn DEF Kept
<1>6. Exclusive(v) /\ Exclusive(g)
  BY <1>1, <1>5 DEF Kept, Exclusive
<1>7. CASE w = v
  BY <1>1, <1>7, KeptSteps
<1>8. CASE w = Request(v, "start")
  BY <1>1, <1>6, <1>8, RequestAsked, AskedSteps
<1>9. CASE v.sem = 1 /\ w = StartTimesOut(v)
  BY <1>1, <1>6, <1>9, StartTimesOutAsked, AskedSteps
<1>10. CASE v.sem = 1 /\ w = StartTimesOut(GroupCreate(v))
  <2>1. Asked(g, StartTimesOut(g))
    BY <1>5, <1>6, <1>10, StartTimesOutAsked
  <2>2. Stepped(u, StartTimesOut(g))
    BY <1>5, <2>1, AskedSteps
  <2>3. QED
    BY <1>3, <1>10, <2>2
<1>11. QED
  BY <1>2, <1>7, <1>8, <1>9, <1>10

\* The endpoint of a stream, and what the application may be told with it.
LEMMA EndpointKept == ASSUME NEW u, Client(u), NEW s, NEW st PROVE Kept(u, [u EXCEPT !.ep[s] = st])
<1>1. [u EXCEPT !.ep[s] = st] = [u EXCEPT !["ep"] = [u.ep EXCEPT ![s] = st]]
  OBVIOUS
<1>2. QED
  BY <1>1, OtherField

LEMMA ToldKept ==
  ASSUME NEW u, Client(u), NEW s, NEW st, NEW event, NEW conn, NEW dir
  PROVE  Kept(u, Publish([u EXCEPT !.ep[s] = st], event, conn, dir))
<1> DEFINE v == [u EXCEPT !.ep[s] = st]
<1>1. Kept(u, v)
  BY EndpointKept
<1> HIDE DEF v
<1>2. Kept(v, Publish(v, event, conn, dir))
  BY <1>1, PublishKept DEF Kept
<1>3. Kept(u, Publish(v, event, conn, dir))
  BY <1>1, <1>2, KeptOn
<1>4. QED
  BY <1>3 DEF v

LEMMA StreamReleasedKept == ASSUME NEW u, Client(u), NEW s PROVE Kept(u, StreamReleased(u, s))
<1> DEFINE v == [u EXCEPT !.ep[s] = "none"]
<1>1. Kept(u, v) /\ Client(v)
  BY EndpointKept DEF Kept
<1> HIDE DEF v
<1>2. PICK w : w = [v EXCEPT !.group = <<>>]
  OBVIOUS
<1>3. Kept(v, w) /\ Client(w)
  BY <1>1, <1>2, OtherField DEF Kept
<1>4. Kept(w, [w EXCEPT !.startWork = TRUE])
  BY <1>3, OtherField
<1>5. Kept(u, [w EXCEPT !.startWork = TRUE])
  BY <1>1, <1>3, <1>4, KeptOn
<1>6. [v EXCEPT !.group = <<>>, !.startWork = TRUE] = [w EXCEPT !.startWork = TRUE]
  BY <1>2
<1>7. Kept(u, [v EXCEPT !.group = <<>>, !.startWork = TRUE])
  BY <1>5, <1>6
<1>8. QED
  BY <1>1, <1>7 DEF StreamReleased, v

LEMMA StreamStartedKept == ASSUME NEW u, Client(u), NEW s PROVE Kept(u, StreamStarted(u, s))
  BY ToldKept DEF StreamStarted

LEMMA StreamStoppedKept == ASSUME NEW u, Client(u), NEW s PROVE Kept(u, StreamStopped(u, s))
<1> DEFINE v == [u EXCEPT !.ep[s] = "disabled"]
<1>1. Kept(u, v)
  BY EndpointKept
<1>2. Kept(u, Publish(v, "NOT_STREAMING", v.servers[s[1]].conn, s[2]))
  BY ToldKept
<1> HIDE DEF v
<1>3. QED
  BY <1>1, <1>2 DEF StreamStopped, v

\* The delay that is found goes to presets: to no address and no connection.
LEMMA NewPresDlyKept == ASSUME NEW s, Store(s), NEW S, NEW pd PROVE SameEntries(s, NewPresDlySet(s, S, pd))
<1> DEFINE Half(i, d) == [s[i][d] EXCEPT !.presets =
                             [k \in 1..MaxEps |-> IF <<i, d, k>> \in S
                                                  THEN [rate |-> @[k].rate, octets |-> @[k].octets, pd |-> pd]
                                                  ELSE @[k]]]
           t == [i \in Entries |-> [d \in DOMAIN s[i] |-> IF d \notin Dirs THEN s[i][d] ELSE Half(i, d)]]
<1>1. NewPresDlySet(s, S, pd) = t
  BY DEF NewPresDlySet
<1> HIDE DEF Half
<1>2. ASSUME NEW i \in Entries
      PROVE  {"addr", "conn"} \subseteq DOMAIN t[i] /\ t[i].addr = s[i].addr /\ t[i].conn = s[i].conn
  <2>1. t[i] = [d \in DOMAIN s[i] |-> IF d \notin Dirs THEN s[i][d] ELSE Half(i, d)]
    OBVIOUS
  <2>2. "addr" \notin Dirs /\ "conn" \notin Dirs /\ {"addr", "conn"} \subseteq DOMAIN s[i]
    BY DEF Dirs, Store
  <2>3. QED
    BY <2>1, <2>2
<1>3. DOMAIN t = Entries
  OBVIOUS
<1> HIDE DEF t
<1>4. SameEntries(s, t)
  BY <1>2, <1>3 DEF SameEntries, Store
<1>5. QED
  BY <1>1, <1>4

LEMMA StreamConfiguredKept == ASSUME NEW u, Client(u), NEW s PROVE Kept(u, StreamConfigured(u, s))
<1>1. PICK v : v = [u EXCEPT !.ep[s] = "codec"]
  OBVIOUS
<1>2. Kept(u, v) /\ Client(v)
  BY <1>1, EndpointKept DEF Kept
<1>3. ASSUME NEW t, SameEntries(v.servers, t), NEW conn, NEW dir
      PROVE  Kept(u, Publish([v EXCEPT !.servers = t], "CONFIG_RECEIVED", conn, dir))
  <2>1. PICK w : w = [v EXCEPT !.servers = t]
    OBVIOUS
  <2>2. Kept(v, w) /\ Client(w)
    BY <1>2, <1>3, <2>1, ServersField DEF Kept
  <2>3. Kept(w, Publish(w, "CONFIG_RECEIVED", conn, dir))
    BY <2>2, PublishKept
  <2>4. Kept(u, Publish(w, "CONFIG_RECEIVED", conn, dir))
    BY <1>2, <2>2, <2>3, KeptOn
  <2>5. QED
    BY <2>1, <2>4
<1>4. SameEntries(v.servers, v.servers) /\ \A S, pd : SameEntries(v.servers, NewPresDlySet(v.servers, S, pd))
  BY <1>2, NewPresDlyKept DEF Client, SameEntries
<1>5. QED
  BY <1>1, <1>2, <1>3, <1>4, Zenon DEF StreamConfigured

-----------------------------------------------------------------------------
(* unicast_client.c: the discovery of a headset.                           *)

DiscDirs == {"none", "sink", "source"}

\* A direction of an entry, or its membership, is replaced.
LEMMA PartKept ==
  ASSUME NEW u, Client(u), NEW i, NEW d \in {"none", "sink", "source", "member"}, NEW h,
         NEW t, t = [u.servers EXCEPT ![i] = [u.servers[i] EXCEPT ![d] = h]]
  PROVE  SameEntries(u.servers, t) /\ Kept(u, [u EXCEPT !.servers = t])
<1>1. t = [u.servers EXCEPT ![i][d] = h]
  OBVIOUS
<1>2. SameEntries(u.servers, t)
  BY <1>1, InsideEntry DEF Client
<1>3. QED
  BY <1>2, ServersField

LEMMA DiscoverKept == ASSUME NEW u, Client(u), NEW i PROVE Kept(u, Discover(u, i))
<1> DEFINE D == {"none", "sink", "source", "member"}
<1>0. PICK snk \in D, src \in D : snk = "sink" /\ src = "source"
  OBVIOUS
<1>1. PICK c : c = u.servers[i].conn
  OBVIOUS
<1>2. PICK h1 : h1 = [u.servers[i][snk] EXCEPT !.waiting = TRUE]
  OBVIOUS
<1>3. PICK t1 : t1 = [u.servers EXCEPT ![i] = [u.servers[i] EXCEPT ![snk] = h1]]
  OBVIOUS
<1>4. PICK v1 : v1 = [u EXCEPT !.servers = t1]
  OBVIOUS
<1>5. PICK h2 : h2 = [v1.servers[i][src] EXCEPT !.waiting = Bidirectional]
  OBVIOUS
<1>6. PICK t2 : t2 = [v1.servers EXCEPT ![i] = [v1.servers[i] EXCEPT ![src] = h2]]
  OBVIOUS
<1>7. PICK v2 : v2 = [v1 EXCEPT !.servers = t2]
  OBVIOUS
<1>8. PICK v3 : v3 = [v2 EXCEPT !.cas[c] = TRUE]
  OBVIOUS
<1>9. PICK v4 : v4 = [v3 EXCEPT !.disc[c] = [dir |-> "sink", next |-> 1]]
  OBVIOUS
<1>10. Kept(u, v1) /\ Client(v1)
  <2>1. Kept(u, v1)
    BY <1>3, <1>4, PartKept
  <2>2. QED
    BY <2>1 DEF Kept
<1>11. Kept(v1, v2) /\ Client(v2)
  <2>1. Kept(v1, v2)
    BY <1>6, <1>7, <1>10, PartKept
  <2>2. QED
    BY <2>1 DEF Kept
<1>12. Kept(v2, v3) /\ Client(v3)
  <2>1. v3 = [v2 EXCEPT !["cas"] = [v2.cas EXCEPT ![c] = TRUE]]
    BY <1>8
  <2>2. QED
    BY <1>11, <2>1, OtherField DEF Kept
<1>13. Kept(v3, v4)
  BY <1>9, <1>12, DiscField
<1>14. v1 = [u EXCEPT !.servers[i].sink.waiting = TRUE]
  BY <1>0, <1>2, <1>3, <1>4
<1>15. v2 = [v1 EXCEPT !.servers[i].source.waiting = Bidirectional]
  BY <1>0, <1>5, <1>6, <1>7
<1>16. Discover(u, i) = v4
  BY <1>1, <1>8, <1>9, <1>14, <1>15 DEF Discover
<1>17. Kept(u, v2)
  BY <1>10, <1>11, KeptOn
<1>18. Kept(u, v3)
  BY <1>12, <1>17, KeptOn
<1>19. QED
  BY <1>13, <1>16, <1>18, KeptOn

LEMMA LocationKept ==
  ASSUME NEW u, Client(u), NEW i, NEW conn, NEW d \in DiscDirs, NEW loc PROVE Kept(u, Location(u, i, conn, d, loc))
<1>1. ASSUME NEW l PROVE Kept(u, [u EXCEPT !.servers = LocationSet(@, i, d, l)])
  <2>1. PICK h : h = [u.servers[i][d] EXCEPT !.locations = l]
    OBVIOUS
  <2>2. PICK t : t = [u.servers EXCEPT ![i] = [u.servers[i] EXCEPT ![d] = h]]
    OBVIOUS
  <2>3. t = LocationSet(u.servers, i, d, l)
    BY <2>1, <2>2 DEF LocationSet
  <2>4. Kept(u, [u EXCEPT !.servers = t])
    BY <2>2, PartKept DEF DiscDirs
  <2>5. QED
    BY <2>3, <2>4
<1>2. Kept(u, Publish(u, "NO_VALID_CFG", conn, d))
  BY PublishKept
<1>3. QED
  BY <1>1, <1>2, Zenon DEF Location

LEMMA EndpointFoundKept ==
  ASSUME NEW u, Client(u), NEW i, NEW d \in DiscDirs PROVE Kept(u, Endpoint(u, i, d))
<1>1. PICK n : n = IF u.servers[i][d].eps < MaxEps THEN u.servers[i][d].eps + 1 ELSE u.servers[i][d].eps
  OBVIOUS
<1>2. PICK h : h = [u.servers[i][d] EXCEPT !.eps = n]
  OBVIOUS
<1>3. PICK t : t = [u.servers EXCEPT ![i] = [u.servers[i] EXCEPT ![d] = h]]
  OBVIOUS
<1>4. Endpoint(u, i, d) = [u EXCEPT !.servers = t]
  BY <1>1, <1>2, <1>3 DEF Endpoint
<1>5. QED
  BY <1>3, <1>4, PartKept DEF DiscDirs

LEMMA CodecCapKept ==
  ASSUME NEW u, Client(u), NEW i, NEW d \in DiscDirs, NEW cap
  PROVE  Kept(u, [u EXCEPT !.servers = CodecCapSet(@, i, d, cap)])
<1>1. PICK t : t = CodecCapSet(u.servers, i, d, cap)
  OBVIOUS
<1>2. PICK h : h = [u.servers[i][d] EXCEPT !.caps = Append(@, cap)]
  OBVIOUS
<1>3. t = u.servers \/ t = [u.servers EXCEPT ![i] = [u.servers[i] EXCEPT ![d] = h]]
  BY <1>1, <1>2 DEF CodecCapSet
<1>4. SameEntries(u.servers, u.servers)
  BY DEF SameEntries, Client
<1>5. SameEntries(u.servers, t)
  BY <1>3, <1>4, PartKept DEF DiscDirs
<1>6. Kept(u, [u EXCEPT !.servers = t])
  BY <1>5, ServersField
<1>7. QED
  BY <1>1, <1>6

LEMMA DiscoveredKept ==
  ASSUME NEW u, Client(u), NEW i, NEW conn, NEW d \in DiscDirs PROVE Kept(u, Discovered(u, i, conn, d))
<1> DEFINE use(k) == [u EXCEPT !.servers[i][d].presets =
                         [j \in 1..MaxEps |-> IF j <= k THEN BestPreset(u.servers[i][d]) ELSE @[j]]]
<1>1. ASSUME NEW k PROVE Kept(u, use(k)) /\ Client(use(k))
  <2>1. PICK p : p = [j \in 1..MaxEps |-> IF j <= k THEN BestPreset(u.servers[i][d])
                                           ELSE u.servers[i][d].presets[j]]
    OBVIOUS
  <2>2. PICK h : h = [u.servers[i][d] EXCEPT !.presets = p]
    OBVIOUS
  <2>3. PICK t : t = [u.servers EXCEPT ![i] = [u.servers[i] EXCEPT ![d] = h]]
    OBVIOUS
  <2>4. use(k) = [u EXCEPT !.servers = t]
    BY <2>1, <2>2, <2>3
  <2>5. Kept(u, use(k))
    BY <2>3, <2>4, PartKept DEF DiscDirs
  <2>6. QED
    BY <2>5 DEF Kept
<1>2. \/ Discovered(u, i, conn, d) = u
      \/ \E k : Discovered(u, i, conn, d) = use(k)
      \/ Discovered(u, i, conn, d) = Publish(use(1), "NO_VALID_CFG", conn, d)
  BY Zenon DEF Discovered
<1> HIDE DEF use
<1>3. Kept(u, Publish(use(1), "NO_VALID_CFG", conn, d))
  <2>1. PICK v : v = use(1)
    OBVIOUS
  <2>2. Kept(v, Publish(v, "NO_VALID_CFG", conn, d)) /\ Kept(u, v)
    BY <1>1, <2>1, PublishKept
  <2>3. Kept(u, Publish(v, "NO_VALID_CFG", conn, d))
    BY <2>2, KeptOn
  <2>4. QED
    BY <2>1, <2>3
<1>4. Kept(u, u)
  BY KeptItself
<1>5. QED
  BY <1>1, <1>2, <1>3, <1>4

LEMMA DiscoverEndsKept ==
  ASSUME NEW u, Client(u), NEW i, NEW c, NEW d \in DiscDirs, NEW err, NEW still
  PROVE  Kept(u, DiscoverEnds(u, i, c, d, err, still))
<1>1. PICK h : h = [u.servers[i][d] EXCEPT !.waiting = FALSE]
  OBVIOUS
<1>2. PICK t : t = [u.servers EXCEPT ![i] = [u.servers[i] EXCEPT ![d] = h]]
  OBVIOUS
<1>3. PICK w : w = [u EXCEPT !.servers = t]
  OBVIOUS
<1>4. PICK told : told = [w EXCEPT !.disc[c] = NotDiscovering]
  OBVIOUS
<1>5. told = [u EXCEPT !.servers[i][d].waiting = FALSE, !.disc[c] = NotDiscovering]
  BY <1>1, <1>2, <1>3, <1>4
<1>6. Kept(u, w) /\ Client(w)
  <2>1. Kept(u, w)
    BY <1>2, <1>3, PartKept DEF DiscDirs
  <2>2. QED
    BY <2>1 DEF Kept
<1>7. Kept(w, told) /\ Client(told)
  <2>1. Kept(w, told)
    BY <1>4, <1>6, DiscField DEF NotDiscovering
  <2>2. QED
    BY <2>1 DEF Kept
<1>8. Kept(u, told)
  BY <1>6, <1>7, KeptOn
<1>9. PICK v : v = IF err THEN told ELSE Discovered(told, i, c, d)
  OBVIOUS
<1>10. Kept(u, v) /\ Client(v)
  BY <1>7, <1>8, <1>9, DiscoveredKept, KeptOn DEF Kept
<1>11. Kept(u, [v EXCEPT !.disc[c] = [dir |-> "source", next |-> 1]])
  BY <1>10, DiscField, KeptOn
<1>12. Kept(u, [v EXCEPT !.startWork = @ \/ v.playing])
  BY <1>10, OtherField, KeptOn
<1>13. DiscoverEnds(u, i, c, d, err, still) =
         IF v.servers[i].source.waiting
         THEN IF still THEN [v EXCEPT !.disc[c] = [dir |-> "source", next |-> 1]] ELSE v
         ELSE [v EXCEPT !.startWork = @ \/ v.playing]
  BY <1>5, <1>9 DEF DiscoverEnds
<1>14. QED
  BY <1>10, <1>11, <1>12, <1>13

LEMMA DiscoveryStepKept ==
  ASSUME NEW u, Client(u), NEW c \in Conns, NEW a, NEW still PROVE Kept(u, DiscoveryStep(u, c, a, still))
<1>1. PICK at : at = u.disc[c]
  OBVIOUS
<1>2. PICK i : i = FromConn(u.servers, c, a)
  OBVIOUS
<1>3. PICK s : s = Script(a, at.dir)[at.next]
  OBVIOUS
<1>4. PICK e : e = [at EXCEPT !.next = @ + 1]
  OBVIOUS
<1>5. PICK v : v = [u EXCEPT !.disc[c] = e]
  OBVIOUS
<1>6. at \in [dir : DiscDirs, next : Nat]
  BY <1>1 DEF Client, Discoveries, DiscDirs
<1>7. e \in [dir : DiscDirs, next : Nat] /\ at.dir \in DiscDirs
  BY <1>4, <1>6
<1>8. Kept(u, v) /\ Client(v)
  BY <1>5, <1>7, DiscField DEF Kept, DiscDirs
<1>9. Kept(u, [u EXCEPT !.disc[c] = NotDiscovering])
  BY DiscField DEF NotDiscovering
<1>10. Kept(u, DiscoverEnds(u, i, c, at.dir, ~still, still))
  BY <1>7, DiscoverEndsKept, Zenon
<1>11. Kept(u, [v EXCEPT !.servers = CodecCapSet(@, i, at.dir, s.cap)])
  BY <1>7, <1>8, CodecCapKept, KeptOn
<1>12. Kept(u, Location(v, i, c, at.dir, s.loc))
  BY <1>7, <1>8, LocationKept, KeptOn
<1>13. Kept(u, Endpoint(v, i, at.dir))
  BY <1>7, <1>8, EndpointFoundKept, KeptOn
<1>14. v = [u EXCEPT !.disc[c].next = @ + 1]
  BY <1>1, <1>4, <1>5
<1>15. QED
  BY <1>1, <1>2, <1>3, <1>8, <1>9, <1>10, <1>11, <1>12, <1>13, <1>14, Zenon DEF DiscoveryStep

LEMMA CasDiscoveredKept ==
  ASSUME NEW u, Client(u), NEW c, NEW a, NEW m PROVE Kept(u, CasDiscovered(u, c, a, m))
<1>1. PICK i : i = FromConn(u.servers, c, a)
  OBVIOUS
<1>2. PICK v : v = [u EXCEPT !.cas[c] = FALSE]
  OBVIOUS
<1>3. Kept(u, v) /\ Client(v)
  <2>1. v = [u EXCEPT !["cas"] = [u.cas EXCEPT ![c] = FALSE]]
    BY <1>2
  <2>2. QED
    BY <2>1, OtherField DEF Kept
<1>4. PICK h : h = (v.servers[i].member \/ m)
  OBVIOUS
<1>5. PICK t : t = [v.servers EXCEPT ![i] = [v.servers[i] EXCEPT !["member"] = h]]
  OBVIOUS
<1>6. PICK w : w = [v EXCEPT !.servers = t]
  OBVIOUS
<1>7. Kept(v, w) /\ Client(w)
  <2>1. Kept(v, w)
    BY <1>3, <1>5, <1>6, PartKept
  <2>2. QED
    BY <2>1 DEF Kept
<1>8. w = [v EXCEPT !.servers[i].member = @ \/ m]
  BY <1>4, <1>5, <1>6
<1>9. PICK d : d = IF m THEN "set" ELSE "none"
  OBVIOUS
<1>10. Kept(w, Publish(w, "COORD_SET_DISCOVERED", c, d))
  BY <1>7, PublishKept
<1>11. Kept(u, Publish(w, "COORD_SET_DISCOVERED", c, d))
  BY <1>3, <1>7, <1>10, KeptOn
<1>12. CasDiscovered(u, c, a, m) = IF i = 0 THEN v ELSE Publish(w, "COORD_SET_DISCOVERED", c, d)
  <2>1. CasDiscovered(u, c, a, m) =
          IF i = 0 THEN v ELSE Publish([v EXCEPT !.servers[i].member = @ \/ m], "COORD_SET_DISCOVERED", c, d)
    BY <1>1, <1>2, <1>9 DEF CasDiscovered
  <2>2. QED
    BY <1>8, <2>1
<1>13. QED
  BY <1>3, <1>11, <1>12

-----------------------------------------------------------------------------
(* server_store.c: entries by address.                                     *)

\* The store has exactly one entry for each address of B, and no other.
StoreOf(s, B) ==
    /\ Store(s)
    /\ \A i \in Entries : s[i].addr \in B \cup {NoAddr}
    /\ \A i, j \in Entries : s[i].addr = s[j].addr /\ s[i].addr # NoAddr => i = j
    /\ \A a \in B : \E i \in Entries : s[i].addr = a

LEMMA SearchFinds ==
  ASSUME NEW s, NEW a
  PROVE  /\ FromAddr(s, a) = 0 => \A i \in Entries : s[i].addr # a
         /\ FromAddr(s, a) # 0 => FromAddr(s, a) \in Entries /\ s[FromAddr(s, a)].addr = a
<1>1. PICK found : found = {i \in Entries : s[i].addr = a}
  OBVIOUS
<1>2. FromAddr(s, a) = IF found = {} THEN 0 ELSE Least(found)
  BY <1>1 DEF FromAddr
<1>3. found \in SUBSET Nat /\ 0 \notin found
  BY <1>1, StoreAssumption DEF Entries
<1>4. CASE found = {}
  BY <1>1, <1>2, <1>4
<1>5. CASE found # {}
  <2>1. Least(found) \in found
    BY <1>3, <1>5, LeastIsOne
  <2>2. QED
    BY <1>1, <1>2, <1>3, <1>5, <2>1
<1>6. QED
  BY <1>4, <1>5

\* In a store that has an address, the search finds its one entry.
LEMMA SearchFindsThe ==
  ASSUME NEW s, NEW B, StoreOf(s, B), NEW i \in Entries, s[i].addr # NoAddr
  PROVE  FromAddr(s, s[i].addr) = i
<1>1. FromAddr(s, s[i].addr) \in Entries /\ s[FromAddr(s, s[i].addr)].addr = s[i].addr
  BY SearchFinds
<1>2. QED
  BY <1>1 DEF StoreOf

\* A store that holds fewer addresses than it has room for has an empty entry.
LEMMA RoomIsLeft ==
  ASSUME NEW B, IsFiniteSet(B), NoAddr \notin B, Cardinality(B) < MaxServers, NEW s, StoreOf(s, B)
  PROVE  FromAddr(s, NoAddr) \in Entries /\ s[FromAddr(s, NoAddr)].addr = NoAddr
<1>1. SUFFICES ASSUME \A i \in Entries : s[i].addr # NoAddr PROVE FALSE
  BY SearchFinds
<1>2. IsFiniteSet(Entries) /\ Cardinality(Entries) = MaxServers
  BY FS_Interval, StoreAssumption DEF Entries
<1>3. PICK f : f = [i \in Entries |-> s[i].addr]
  OBVIOUS
<1>4. f \in [Entries -> B]
  BY <1>1, <1>3 DEF StoreOf
<1>5. \E i, j \in Entries : i # j /\ f[i] = f[j]
  <2>1. Cardinality(B) < Cardinality(Entries)
    BY <1>2
  <2>2. QED
    BY <1>2, <1>4, <2>1, FS_PigeonHole
<1>6. QED
  BY <1>1, <1>3, <1>5 DEF StoreOf

\* An address the store lacks takes an empty entry.
Entered(s, i, a, c) == [s EXCEPT ![i] = [NoServer EXCEPT !.addr = a, !.conn = c]]
IsEntered(s, t, i, a, c) == t[i].addr = a /\ t[i].conn = c /\ \A j \in Entries : j # i => t[j] = s[j]

LEMMA EnteredStays ==
  ASSUME NEW B, NoAddr \notin B, NEW s, StoreOf(s, B), NEW i \in Entries, s[i].addr = NoAddr,
         NEW a, a \notin B, a # NoAddr, NEW x
  PROVE  StoreOf(Entered(s, i, a, x), B \cup {a}) /\ IsEntered(s, Entered(s, i, a, x), i, a, x)
<1>1. PICK e : e = [NoServer EXCEPT !.addr = a, !.conn = x]
  OBVIOUS
<1>2. {"addr", "conn"} \subseteq DOMAIN e /\ e.addr = a /\ e.conn = x
  BY <1>1 DEF NoServer
<1>3. PICK t : t = Entered(s, i, a, x)
  OBVIOUS
<1>4. DOMAIN t = Entries /\ t[i] = e /\ \A j \in Entries : j # i => t[j] = s[j]
  BY <1>1, <1>3 DEF Entered, StoreOf, Store
<1>5. Store(t)
  BY <1>2, <1>4 DEF Store, StoreOf
<1>6. \A j \in Entries : t[j].addr \in B \cup {a} \cup {NoAddr}
  BY <1>2, <1>4 DEF StoreOf
<1>7. \A j, k \in Entries : t[j].addr = t[k].addr /\ t[j].addr # NoAddr => j = k
  BY <1>2, <1>4 DEF StoreOf
<1>8. ASSUME NEW b \in B \cup {a} PROVE \E j \in Entries : t[j].addr = b
  <2>1. CASE b = a
    BY <1>2, <1>4, <2>1
  <2>2. CASE b \in B
    <3>1. PICK j \in Entries : s[j].addr = b
      BY <2>2 DEF StoreOf
    <3>2. j # i
      BY <2>2, <3>1
    <3>3. QED
      BY <1>4, <3>1, <3>2
  <2>3. QED
    BY <2>1, <2>2
<1>9. StoreOf(t, B \cup {a})
  BY <1>5, <1>6, <1>7, <1>8 DEF StoreOf
<1>10. IsEntered(s, t, i, a, x)
  BY <1>2, <1>4 DEF IsEntered
<1>11. QED
  BY <1>3, <1>9, <1>10

\* srv_store_add_by_addr and srv_store_add_by_conn of a headset that is not there yet.
LEMMA AddedIsEntered ==
  ASSUME NEW B, IsFiniteSet(B), NoAddr \notin B, Cardinality(B) < MaxServers, NEW s, StoreOf(s, B),
         NEW a, a \notin B, a # NoAddr, NEW c
  PROVE  \E i \in Entries :
            /\ s[i].addr = NoAddr
            /\ AddByAddr(s, a) = Result("ok", Entered(s, i, a, NoConn))
            /\ AddByConn(s, c, a) = Result("ok", Entered(s, i, a, c))
<1>1. PICK i : i = FromAddr(s, NoAddr)
  OBVIOUS
<1>2. i \in Entries /\ s[i].addr = NoAddr /\ i # 0
  BY <1>1, RoomIsLeft, StoreAssumption DEF Entries
<1>3. FromAddr(s, a) = 0
  <2>1. \A j \in Entries : s[j].addr # a
    BY DEF StoreOf
  <2>2. QED
    BY <2>1, SearchFinds
<1>4. FromConn(s, c, a) = 0
  BY <1>3 DEF FromConn
<1>5. \A e : ServerAdd(s, e) = Result("ok", [s EXCEPT ![i] = e])
  BY <1>1, <1>2 DEF ServerAdd
<1>6. AddByConn(s, c, a) = Result("ok", Entered(s, i, a, c))
  BY <1>4, <1>5 DEF AddByConn, Entered
<1>7. [NoServer EXCEPT !.addr = a] = [NoServer EXCEPT !.addr = a, !.conn = NoConn]
  <2>1. PICK f : f = NoServer
    OBVIOUS
  <2>2. f.conn = NoConn
    BY <2>1 DEF NoServer
  <2>3. PICK g : g = [f EXCEPT !.addr = a]
    OBVIOUS
  <2>4. g.conn = NoConn
    BY <2>2, <2>3
  <2>5. g = [g EXCEPT !.conn = NoConn]
    <3>1. DOMAIN g = DOMAIN f /\ DOMAIN f = DOMAIN NoServer
      BY <2>1, <2>3
    <3>2. g = [x \in DOMAIN g |-> g[x]]
      BY <2>3
    <3>3. QED
      BY <2>4, <3>2
  <2>6. QED
    BY <2>1, <2>3, <2>5
<1>8. AddByAddr(s, a) = Result("ok", Entered(s, i, a, NoConn))
  BY <1>3, <1>5, <1>7 DEF AddByAddr, Entered
<1>9. QED
  BY <1>2, <1>6, <1>8

-----------------------------------------------------------------------------
(* The store that main fills from the bonds, by the number of bonds.       *)

LEMMA LeastExists == ASSUME NEW T \in SUBSET Nat, T # {} PROVE \E n \in T : \A m \in T : n <= m
<1>1. PICK R : IsWellFoundedOn(R, Nat) /\ \A x, y \in Nat : y < x => <<y, x>> \in R
  BY LessIsWellFounded
<1>2. PICK n \in T : \A m \in T : ~ (<<m, n>> \in R)
  BY <1>1, WFMin
<1>3. \A m \in T : ~ (m < n)
  BY <1>1, <1>2
<1>4. \A m \in T : n <= m
  BY <1>3
<1>5. QED
  BY <1>4

\* One bond more.
BondAdded(g, S) == LET a == CHOOSE x \in S : TRUE IN AddByAddr(g[S \ {a}], a).servers
Body(g, S) == IF S = {} THEN NoServers ELSE BondAdded(g, S)
UpTo(n) == {S \in SUBSET Addrs : Cardinality(S) <= n}

LEMMA OneLess ==
  ASSUME NEW n \in Nat, NEW S \in UpTo(n), S # {}, NEW a, a = CHOOSE x \in S : TRUE
  PROVE  /\ a \in S /\ a \in Addrs /\ n # 0 /\ S \ {a} \in UpTo(n - 1) /\ S \ {a} \in UpTo(n)
         /\ IsFiniteSet(S \ {a}) /\ Cardinality(S \ {a}) = Cardinality(S) - 1 /\ Cardinality(S) \in Nat
<1>1. a \in S /\ a \in Addrs
  BY DEF UpTo
<1>2. IsFiniteSet(S)
  BY FS_Subset, StoreAssumption DEF UpTo
<1>3. IsFiniteSet(S \ {a}) /\ Cardinality(S \ {a}) = Cardinality(S) - 1
  BY <1>1, <1>2, FS_RemoveElement
<1>4. Cardinality(S) \in Nat /\ Cardinality(S \ {a}) \in Nat
  BY <1>2, <1>3, FS_CardinalityType
<1>5. PICK k : k = Cardinality(S)
  OBVIOUS
<1>6. PICK T : T = S \ {a}
  OBVIOUS
<1>7. k \in Nat /\ k <= n /\ Cardinality(T) = k - 1 /\ Cardinality(T) \in Nat /\ T \in SUBSET Addrs
  BY <1>3, <1>4, <1>5, <1>6 DEF UpTo
<1>8. n # 0 /\ Cardinality(T) <= n - 1 /\ Cardinality(T) <= n
  BY <1>7
<1>9. T \in UpTo(n - 1) /\ T \in UpTo(n)
  BY <1>7, <1>8 DEF UpTo
<1>10. QED
  BY <1>1, <1>3, <1>4, <1>6, <1>8, <1>9

LEMMA SomeFilled == ASSUME NEW n \in Nat PROVE \E g : g = [S \in UpTo(n) |-> Body(g, S)]
<1> DEFINE Is(g, k) == g = [S \in UpTo(k) |-> Body(g, S)]
           T == {k \in Nat : ~ \E g : Is(g, k)}
<1>1. SUFFICES ASSUME T # {} PROVE FALSE
  OBVIOUS
<1>2. PICK k \in T : \A m \in T : k <= m
  BY <1>1, LeastExists, Zenon
<1>3. k \in Nat /\ ~ \E g : Is(g, k)
  OBVIOUS
<1>4. \E g : Is(g, k)
  <2>1. CASE k = 0
    <3>1. PICK g : g = [S \in UpTo(0) |-> NoServers]
      OBVIOUS
    <3>2. ASSUME NEW S \in UpTo(0) PROVE S = {}
      BY OneLess
    <3>3. \A S \in UpTo(0) : Body(g, S) = NoServers
      BY <3>2 DEF Body
    <3>4. g = [S \in UpTo(0) |-> Body(g, S)]
      BY <3>1, <3>3
    <3>5. QED
      BY <2>1, <3>4
  <2>2. CASE k # 0
    <3>1. k - 1 \in Nat /\ ~ (k <= k - 1)
      BY <1>3, <2>2
    <3>2. k - 1 \notin T
      BY <1>2, <3>1
    <3>3. PICK g : Is(g, k - 1)
      BY <3>1, <3>2
    <3>4. PICK h : h = [S \in UpTo(k) |-> IF S \in UpTo(k - 1) THEN g[S] ELSE Body(g, S)]
      OBVIOUS
    <3>5. \A S \in UpTo(k) : h[S] = Body(g, S)
      BY <3>3, <3>4
    <3>6. ASSUME NEW S \in UpTo(k) PROVE Body(g, S) = Body(h, S)
      <4>1. CASE S = {}
        BY <4>1 DEF Body
      <4>2. CASE S # {}
        <5>1. PICK a : a = CHOOSE x \in S : TRUE
          OBVIOUS
        <5>2. S \ {a} \in UpTo(k - 1) /\ S \ {a} \in UpTo(k)
          BY <1>3, <4>2, <5>1, OneLess
        <5>3. h[S \ {a}] = g[S \ {a}]
          BY <3>4, <5>2
        <5>4. BondAdded(g, S) = BondAdded(h, S)
          BY <5>1, <5>3 DEF BondAdded
        <5>5. QED
          BY <5>4 DEF Body
      <4>3. QED
        BY <4>1, <4>2
    <3>7. \A S \in UpTo(k) : h[S] = Body(h, S)
      BY <3>5, <3>6
    <3>8. Is(h, k)
      BY <3>4, <3>7
    <3>9. QED
      BY <3>8
  <2>3. QED
    BY <2>1, <2>2
<1>5. QED
  BY <1>3, <1>4

LEMMA FilledUnfolds == ASSUME NEW S \in SUBSET Addrs PROVE Filled[S] = Body(Filled, S)
<1>1. PICK n \in Nat : n = Cardinality(Addrs)
  BY FS_CardinalityType, StoreAssumption
<1>2. UpTo(n) = SUBSET Addrs
  BY <1>1, FS_Subset, StoreAssumption DEF UpTo
<1>3. PICK g : g = [R \in UpTo(n) |-> Body(g, R)]
  BY SomeFilled
<1>4. Filled = CHOOSE f : f = [R \in SUBSET Addrs |-> Body(f, R)]
  BY DEF Filled, Body, BondAdded
<1>5. \E f : f = [R \in SUBSET Addrs |-> Body(f, R)]
  BY <1>2, <1>3
<1>6. Filled = [R \in SUBSET Addrs |-> Body(Filled, R)]
  BY <1>4, <1>5, Zenon
<1>7. QED
  BY <1>6, Zenon

\* What the store is at first: an entry of which nothing is known for each bond.
Fresh(e) == DOMAIN e = DOMAIN NoServer /\ e.conn = NoConn /\ e.sink = EmptyHalf /\ e.source = EmptyHalf
FilledFor(s, B) == StoreOf(s, B) /\ \A i \in Entries : Fresh(s[i])

LEMMA FilledRight == ASSUME NEW B \in SUBSET Addrs, Cardinality(B) <= MaxPaired PROVE FilledFor(Filled[B], B)
<1> DEFINE T == {k \in Nat : \E S \in SUBSET Addrs : Cardinality(S) = k /\ k <= MaxPaired /\ ~ FilledFor(Filled[S], S)}
<1>1. T = {}
  <2>1. SUFFICES ASSUME T # {} PROVE FALSE
    OBVIOUS
  <2>2. PICK k \in T : \A m \in T : k <= m
    BY <2>1, LeastExists, Zenon
  <2>3. PICK S \in SUBSET Addrs : Cardinality(S) = k /\ k <= MaxPaired /\ ~ FilledFor(Filled[S], S)
    BY <2>2
  <2>4. k \in Nat /\ S \in UpTo(k)
    BY <2>3 DEF UpTo
  <2>5. Filled[S] = Body(Filled, S)
    BY FilledUnfolds
  <2>6. CASE S = {}
    <3>1. Filled[S] = NoServers
      BY <2>5, <2>6 DEF Body
    <3>2. {"addr", "conn"} \subseteq DOMAIN NoServer /\ NoServer.addr = NoAddr /\ Fresh(NoServer)
      BY DEF NoServer, Fresh
    <3>3. DOMAIN NoServers = Entries /\ \A i \in Entries : NoServers[i] = NoServer
      BY DEF NoServers
    <3>4. FilledFor(NoServers, S)
      BY <2>6, <3>2, <3>3 DEF FilledFor, StoreOf, Store
    <3>5. QED
      BY <2>3, <3>1, <3>4
  <2>7. CASE S # {}
    <3>1. PICK a : a = CHOOSE x \in S : TRUE
      OBVIOUS
    <3>2. PICK R : R = S \ {a}
      OBVIOUS
    <3>3. /\ a \in S /\ a \in Addrs /\ R \in UpTo(k - 1) /\ k # 0
          /\ IsFiniteSet(R) /\ Cardinality(R) = Cardinality(S) - 1
      BY <2>4, <2>7, <3>1, <3>2, OneLess
    <3>4. k - 1 \in Nat /\ ~ (k <= k - 1) /\ k - 1 <= MaxPaired /\ k - 1 < MaxServers
      BY <2>3, <2>4, <3>3, GatewayAssumption, StoreAssumption
    <3>5. Cardinality(R) = k - 1 /\ R \in SUBSET Addrs
      BY <2>3, <3>2, <3>3
    <3>6. PICK s : s = Filled[R]
      OBVIOUS
    <3>7. FilledFor(s, R)
      <4>1. k - 1 \notin T
        BY <2>2, <3>4
      <4>2. QED
        BY <3>4, <3>5, <3>6, <4>1
    <3>8. NoAddr \notin R /\ a \notin R /\ a # NoAddr /\ R \cup {a} = S
      BY <3>2, <3>3, <3>5, StoreAssumption
    <3>9. PICK i \in Entries : s[i].addr = NoAddr /\ AddByAddr(s, a) = Result("ok", Entered(s, i, a, NoConn))
      BY <3>3, <3>4, <3>5, <3>7, <3>8, AddedIsEntered DEF FilledFor
    <3>10. PICK t : t = Entered(s, i, a, NoConn)
      OBVIOUS
    <3>11. StoreOf(t, R \cup {a}) /\ Fresh(t[i]) /\ \A j \in Entries : j # i => t[j] = s[j]
      <4>1. StoreOf(s, R)
        BY <3>7 DEF FilledFor
      <4>2. PICK c : c = NoConn
        OBVIOUS
      <4>3. StoreOf(Entered(s, i, a, c), R \cup {a}) /\ IsEntered(s, Entered(s, i, a, c), i, a, c)
        BY <3>8, <3>9, <4>1, EnteredStays
      <4>4. StoreOf(t, R \cup {a}) /\ IsEntered(s, t, i, a, c)
        BY <3>10, <4>2, <4>3
      <4>5. Fresh(t[i])
        <5>1. PICK e : e = [NoServer EXCEPT !.addr = a, !.conn = NoConn]
          OBVIOUS
        <5>2. t[i] = e
          BY <3>10, <4>1, <5>1 DEF Entered, StoreOf, Store
        <5>3. Fresh(e)
          BY <5>1 DEF Fresh, NoServer
        <5>4. QED
          BY <5>2, <5>3
      <4>6. QED
        BY <4>4, <4>5 DEF IsEntered
    <3>12. FilledFor(t, S)
      BY <3>7, <3>8, <3>11 DEF FilledFor
    <3>13. Filled[S] = AddByAddr(s, a).servers
      BY <2>5, <2>7, <3>1, <3>2, <3>6 DEF Body, BondAdded
    <3>14. Filled[S] = t
      BY <3>9, <3>10, <3>13 DEF Result
    <3>15. QED
      BY <2>3, <3>12, <3>14
  <2>8. QED
    BY <2>6, <2>7
<1>2. Cardinality(B) \in Nat
  BY FS_Subset, FS_CardinalityType, StoreAssumption
<1>3. QED
  BY <1>1, <1>2

-----------------------------------------------------------------------------
(* The connections, and the store that mirrors them.                       *)

\* A connection in use is to a headset no other one is to, and one that pairs is
\* to a headset that is not bonded.
Links(l, B) ==
    /\ l \in [Conns -> [addr : Addrs \cup {NoAddr}, st : LinkStates]]
    /\ \A c \in Conns : l[c].st = "free" <=> l[c].addr = NoAddr
    /\ \A c, d \in Conns : l[c].addr = l[d].addr /\ l[c].addr # NoAddr => c = d
    /\ \A c \in Conns : l[c].st = "pairing" => l[c].addr \notin B

Served == {"pairing", "secured", "closing"}

Mirrors(s, l) ==
    /\ \A i \in Entries : s[i].conn # NoConn =>
          s[i].conn \in Conns /\ l[s[i].conn].addr = s[i].addr /\ l[s[i].conn].st \in Served
    /\ \A c \in Conns : l[c].st = "secured" => \E i \in Entries : s[i].addr = l[c].addr /\ s[i].conn = c

NoneServes(s, c) == \A i \in Entries : s[i].conn # c

\* All connections but c are as they were.
OnlyMoved(l, m, c) == \A d \in Conns : d # c => m[d] = l[d]

LEMMA SameMirrors ==
  ASSUME NEW s, NEW t, NEW B, NEW l, StoreOf(s, B), Mirrors(s, l), SameEntries(s, t)
  PROVE  StoreOf(t, B) /\ Mirrors(t, l)
<1>1. Store(t) /\ \A i \in Entries : t[i].addr = s[i].addr /\ t[i].conn = s[i].conn
  BY DEF SameEntries
<1>2. StoreOf(t, B)
  BY <1>1 DEF StoreOf
<1>3. Mirrors(t, l)
  BY <1>1 DEF Mirrors
<1>4. QED
  BY <1>2, <1>3

LEMMA UnservedState ==
  ASSUME NEW s, NEW l, Mirrors(s, l), NEW c \in Conns, l[c].st \notin Served PROVE NoneServes(s, c)
<1>1. c # NoConn
  BY DEF Conns, NoConn
<1>2. QED
  BY <1>1 DEF NoneServes, Mirrors

LinkAt(l, c, a, x) == [l EXCEPT ![c] = [addr |-> a, st |-> x]]
StateAt(l, c, x) == [l EXCEPT ![c].st = x]

\* A connection is created, freed, or goes on to another state.
LEMMA LinkSet ==
  ASSUME NEW l, NEW B, Links(l, B), NEW c \in Conns, NEW a, a \in Addrs \cup {NoAddr}, NEW x, x \in LinkStates,
         x = "free" <=> a = NoAddr, x = "pairing" => a \notin B,
         a = NoAddr \/ (\A d \in Conns : l[d].addr = a => d = c),
         NEW m, m = LinkAt(l, c, a, x)
  PROVE  Links(m, B) /\ OnlyMoved(l, m, c) /\ m[c].addr = a /\ m[c].st = x
<1>1. PICK R : R = [addr : Addrs \cup {NoAddr}, st : LinkStates]
  OBVIOUS
<1>2. PICK e : e = [addr |-> a, st |-> x]
  OBVIOUS
<1>3. e \in R /\ e.addr = a /\ e.st = x
  BY <1>1, <1>2
<1>4. m = [l EXCEPT ![c] = e]
  BY <1>2 DEF LinkAt
<1>5. l \in [Conns -> R]
  BY <1>1 DEF Links
<1>6. m \in [Conns -> R] /\ m[c] = e /\ \A d \in Conns : d # c => m[d] = l[d]
  BY <1>3, <1>4, <1>5
<1>7. \A d \in Conns : m[d].st = "free" <=> m[d].addr = NoAddr
  BY <1>3, <1>6 DEF Links
<1>8. \A d, f \in Conns : m[d].addr = m[f].addr /\ m[d].addr # NoAddr => d = f
  BY <1>3, <1>6 DEF Links
<1>9. \A d \in Conns : m[d].st = "pairing" => m[d].addr \notin B
  BY <1>3, <1>6 DEF Links
<1>10. Links(m, B)
  BY <1>1, <1>6, <1>7, <1>8, <1>9 DEF Links
<1>11. QED
  BY <1>3, <1>6, <1>10 DEF OnlyMoved

LEMMA StateSet ==
  ASSUME NEW l, NEW B, Links(l, B), NEW c \in Conns, l[c].st # "free", NEW x, x \in LinkStates, x # "free",
         x = "pairing" => l[c].addr \notin B, NEW m, m = StateAt(l, c, x)
  PROVE  Links(m, B) /\ OnlyMoved(l, m, c) /\ m[c].addr = l[c].addr /\ m[c].st = x
<1>1. PICK a : a = l[c].addr
  OBVIOUS
<1>2. l[c] \in [addr : Addrs \cup {NoAddr}, st : LinkStates]
  BY DEF Links
<1>3. [l[c] EXCEPT !.st = x] = [addr |-> a, st |-> x]
  BY <1>1, <1>2
<1>4. m = LinkAt(l, c, a, x)
  BY <1>3 DEF LinkAt, StateAt
<1>5. a \in Addrs \cup {NoAddr} /\ a # NoAddr /\ \A d \in Conns : l[d].addr = a => d = c
  BY <1>1, <1>2 DEF Links
<1>6. QED
  BY <1>1, <1>4, <1>5, LinkSet

\* The store mirrors the connections still when one no entry serves changes, or
\* one that an entry serves begins to close.
LEMMA MirrorsOn ==
  ASSUME NEW s, NEW l, NEW m, NEW c \in Conns, Mirrors(s, l), OnlyMoved(l, m, c), m[c].st # "secured",
         NoneServes(s, c) \/ (m[c].st = "closing" /\ m[c].addr = l[c].addr)
  PROVE  Mirrors(s, m)
<1>1. ASSUME NEW i \in Entries, s[i].conn # NoConn
      PROVE  s[i].conn \in Conns /\ m[s[i].conn].addr = s[i].addr /\ m[s[i].conn].st \in Served
  <2>1. s[i].conn \in Conns /\ l[s[i].conn].addr = s[i].addr /\ l[s[i].conn].st \in Served
    BY <1>1 DEF Mirrors
  <2>2. CASE s[i].conn = c
    BY <2>1, <2>2 DEF NoneServes, Served
  <2>3. CASE s[i].conn # c
    BY <2>1, <2>3 DEF OnlyMoved
  <2>4. QED
    BY <2>2, <2>3
<1>2. ASSUME NEW d \in Conns, m[d].st = "secured"
      PROVE  \E i \in Entries : s[i].addr = m[d].addr /\ s[i].conn = d
  BY <1>2 DEF OnlyMoved, Mirrors
<1>3. QED
  BY <1>1, <1>2 DEF Mirrors

\* A connection is secured and an entry that had none gets it.
LEMMA MirrorsSecured ==
  ASSUME NEW s, NEW l, NEW t, NEW m, NEW c \in Conns, NEW i \in Entries, Mirrors(s, l), OnlyMoved(l, m, c),
         NoneServes(s, c), s[i].conn = NoConn,
         m[c].st = "secured", t[i].addr = m[c].addr, t[i].conn = c, \A j \in Entries : j # i => t[j] = s[j]
  PROVE  Mirrors(t, m)
<1>1. ASSUME NEW j \in Entries, t[j].conn # NoConn
      PROVE  t[j].conn \in Conns /\ m[t[j].conn].addr = t[j].addr /\ m[t[j].conn].st \in Served
  <2>1. CASE j = i
    BY <2>1 DEF Served
  <2>2. CASE j # i
    <3>1. t[j] = s[j] /\ s[j].conn # c
      BY <2>2 DEF NoneServes
    <3>2. s[j].conn \in Conns /\ l[s[j].conn].addr = s[j].addr /\ l[s[j].conn].st \in Served
      BY <1>1, <3>1 DEF Mirrors
    <3>3. m[s[j].conn] = l[s[j].conn]
      BY <3>1, <3>2 DEF OnlyMoved
    <3>4. QED
      BY <3>1, <3>2, <3>3
  <2>3. QED
    BY <2>1, <2>2
<1>2. ASSUME NEW d \in Conns, m[d].st = "secured"
      PROVE  \E j \in Entries : t[j].addr = m[d].addr /\ t[j].conn = d
  <2>1. CASE d = c
    BY <2>1
  <2>2. CASE d # c
    <3>1. m[d] = l[d]
      BY <2>2 DEF OnlyMoved
    <3>2. PICK j \in Entries : s[j].addr = l[d].addr /\ s[j].conn = d
      BY <1>2, <3>1 DEF Mirrors
    <3>3. j # i
      BY <3>2 DEF Conns, NoConn
    <3>4. QED
      BY <3>1, <3>2, <3>3
  <2>3. QED
    BY <2>1, <2>2
<1>3. QED
  BY <1>1, <1>2 DEF Mirrors

\* An entry is cleared whose headset has no secured connection: none serves its
\* connection any more.
LEMMA MirrorsCleared ==
  ASSUME NEW s, NEW B, NEW l, StoreOf(s, B), Links(l, B), Mirrors(s, l), NEW c \in Conns, l[c].st # "secured",
         l[c].st # "free"
  PROVE  /\ StoreOf(ClearByConn(s, c, l[c].addr), B)
         /\ Mirrors(ClearByConn(s, c, l[c].addr), l)
         /\ NoneServes(ClearByConn(s, c, l[c].addr), c)
<1>1. PICK a : a = l[c].addr
  OBVIOUS
<1>2. a # NoAddr /\ c # NoConn
  BY <1>1 DEF Links, Conns, NoConn
<1>3. PICK i : i = FromAddr(s, a)
  OBVIOUS
<1>4. PICK e : e = [NoServer EXCEPT !.addr = a]
  OBVIOUS
<1>5. PICK t : t = ClearByConn(s, c, a)
  OBVIOUS
<1>6. {"addr", "conn"} \subseteq DOMAIN e /\ e.addr = a /\ e.conn = NoConn
  BY <1>4 DEF NoServer
<1>7. \A j \in Entries : s[j].conn = c => s[j].addr = a
  BY <1>1, <1>2 DEF Mirrors
<1>8. CASE i = 0
  <2>1. t = s
    BY <1>3, <1>5, <1>8 DEF ClearByConn
  <2>2. \A j \in Entries : s[j].addr # a
    BY <1>3, <1>8, SearchFinds
  <2>3. NoneServes(s, c)
    BY <1>7, <2>2 DEF NoneServes
  <2>4. QED
    BY <1>1, <1>5, <2>1, <2>3
<1>9. CASE i # 0
  <2>1. i \in Entries /\ s[i].addr = a
    BY <1>3, <1>9, SearchFinds
  <2>2. t = [s EXCEPT ![i] = e]
    BY <1>3, <1>4, <1>5, <1>9 DEF ClearByConn
  <2>3. DOMAIN t = Entries /\ t[i] = e /\ \A j \in Entries : j # i => t[j] = s[j]
    BY <2>1, <2>2 DEF StoreOf, Store
  <2>4. \A j \in Entries : t[j].addr = s[j].addr
    BY <1>6, <2>1, <2>3
  <2>5. Store(t)
    BY <1>6, <2>3 DEF Store, StoreOf
  <2>6. StoreOf(t, B)
    BY <2>4, <2>5 DEF StoreOf
  <2>7. NoneServes(t, c)
    <3>1. ASSUME NEW j \in Entries, t[j].conn = c PROVE FALSE
      <4>1. j # i
        BY <1>2, <1>6, <2>3, <3>1
      <4>2. s[j].addr = a
        BY <1>7, <2>3, <3>1, <4>1
      <4>3. QED
        BY <1>2, <2>1, <4>1, <4>2 DEF StoreOf
    <3>2. QED
      BY <3>1 DEF NoneServes
  <2>8. ASSUME NEW j \in Entries, t[j].conn # NoConn
        PROVE  t[j].conn \in Conns /\ l[t[j].conn].addr = t[j].addr /\ l[t[j].conn].st \in Served
    <3>1. t[j] = s[j]
      BY <1>6, <2>3, <2>8
    <3>2. QED
      BY <2>8, <3>1 DEF Mirrors
  <2>9. ASSUME NEW d \in Conns, l[d].st = "secured"
        PROVE  \E j \in Entries : t[j].addr = l[d].addr /\ t[j].conn = d
    <3>1. PICK j \in Entries : s[j].addr = l[d].addr /\ s[j].conn = d
      BY <2>9 DEF Mirrors
    <3>2. l[d].addr # a
      BY <1>1, <1>2, <2>9 DEF Links
    <3>3. t[j] = s[j]
      BY <2>1, <2>3, <3>1, <3>2
    <3>4. QED
      BY <3>1, <3>3
  <2>10. Mirrors(t, l)
    BY <2>8, <2>9 DEF Mirrors
  <2>11. QED
    BY <1>1, <1>5, <2>6, <2>7, <2>10
<1>10. QED
  BY <1>8, <1>9

-----------------------------------------------------------------------------
(* The gateway's invariant, and the actions one by one.                    *)

GatewayInv ==
    /\ Client(client) /\ Exclusive(client) /\ Waits(client.sem, client.capQ)
    /\ bonded \subseteq Addrs /\ Cardinality(bonded) <= MaxPaired
    /\ StoreOf(client.servers, bonded)
    /\ Links(link, bonded)
    /\ Mirrors(client.servers, link)

LEMMA BondsFinite == ASSUME GatewayInv PROVE IsFiniteSet(bonded) /\ Cardinality(bonded) \in Nat /\ NoAddr \notin bonded
  BY FS_Subset, FS_CardinalityType, StoreAssumption DEF GatewayInv

\* Where no entry is added or cleared and no connection changes.
LEMMA SteppedStays ==
  ASSUME GatewayInv, Stepped(client, client'), link' = link, bonded' = bonded PROVE GatewayInv'
<1>1. StoreOf(client'.servers, bonded) /\ Mirrors(client'.servers, link)
  BY SameMirrors DEF Stepped, GatewayInv
<1>2. QED
  BY <1>1 DEF Stepped, StillWaits, GatewayInv

LEMMA KeptStays == ASSUME GatewayInv, Kept(client, client'), link' = link, bonded' = bonded PROVE GatewayInv'
  BY KeptSteps, SteppedStays DEF GatewayInv

LEMMA AskedStays == ASSUME GatewayInv, Asked(client, client'), link' = link, bonded' = bonded PROVE GatewayInv'
<1>1. Stepped(client, client')
  BY KeptItself, AskedSteps DEF GatewayInv
<1>2. QED
  BY <1>1, SteppedStays

\* Where only a connection changes that no entry serves, or that begins to close.
LEMMA LinkStays ==
  ASSUME GatewayInv, client' = client, bonded' = bonded, NEW c \in Conns, Links(link', bonded),
         OnlyMoved(link, link', c), link'[c].st # "secured",
         link[c].st \notin Served \/ (link'[c].st = "closing" /\ link'[c].addr = link[c].addr)
  PROVE  GatewayInv'
<1>1. Mirrors(client.servers, link')
  BY UnservedState, MirrorsOn DEF GatewayInv
<1>2. QED
  BY <1>1 DEF GatewayInv

LEMMA ConnectToStays ==
  ASSUME GatewayInv, NEW a \in Addrs, NEW s, ConnectTo(a, s), client' = client, bonded' = bonded PROVE GatewayInv'
<1>1. CASE link' = link
  BY <1>1 DEF GatewayInv
<1>2. CASE link' # link
  <2>1. PICK free : free = {d \in Conns : link[d].st = "free"}
    OBVIOUS
  <2>2. PICK c : c = Least(free)
    OBVIOUS
  <2>3. free # {} /\ ~ Linked(a) /\ link' = LinkAt(link, c, a, "connecting")
    BY <1>2, <2>1, <2>2 DEF ConnectTo, LinkAt
  <2>4. c \in free
    BY <2>1, <2>2, <2>3, LeastIsOne DEF Conns
  <2>5. c \in Conns /\ link[c].st = "free"
    BY <2>1, <2>4
  <2>6. "connecting" \in LinkStates /\ a # NoAddr
    BY StoreAssumption DEF LinkStates
  <2>7. \A d \in Conns : link[d].addr # a
    BY <2>3 DEF Linked
  <2>8. Links(link', bonded) /\ OnlyMoved(link, link', c) /\ link'[c].st = "connecting"
    <3>1. Links(link, bonded)
      BY DEF GatewayInv
    <3>2. QED
      BY <2>3, <2>5, <2>6, <2>7, <3>1, LinkSet
  <2>9. link[c].st \notin Served
    BY <2>5 DEF Served
  <2>10. QED
    BY <2>5, <2>8, <2>9, LinkStays
<1>3. QED
  BY <1>1, <1>2

LEMMA ScanRecvStays ==
  ASSUME GatewayInv, NEW a \in Addrs, NEW by \in {"bond", "name", "set"}, ScanRecv(a, by) PROVE GatewayInv'
<1>1. client' = client /\ bonded' = bonded
  BY DEF ScanRecv
<1>2. \E s : ConnectTo(a, s)
  <2>1. CASE by = "bond"
    BY <2>1 DEF ScanRecv
  <2>2. CASE by = "name"
    BY <2>2 DEF ScanRecv
  <2>3. CASE by = "set"
    BY <2>3 DEF ScanRecv
  <2>4. QED
    BY <2>1, <2>2, <2>3
<1>3. QED
  BY <1>1, <1>2, ConnectToStays

\* connected_cb with an error, and the end of a connection.
LEMMA UnlinkedStays ==
  ASSUME GatewayInv, NEW c \in Conns, link[c].st \in {"connecting", "gone"},
         link' = [link EXCEPT ![c] = NoLink], client' = client, bonded' = bonded
  PROVE  GatewayInv'
<1>1. link' = LinkAt(link, c, NoAddr, "free")
  BY DEF NoLink, LinkAt
<1>2. Links(link', bonded) /\ OnlyMoved(link, link', c) /\ link'[c].st = "free"
  <2>1. Links(link, bonded) /\ "free" \in LinkStates
    BY DEF GatewayInv, LinkStates
  <2>2. PICK m : m = link'
    OBVIOUS
  <2>3. PICK x : x = "free"
    OBVIOUS
  <2>4. NoAddr \in Addrs \cup {NoAddr} /\ x \in LinkStates /\ x # "pairing" /\ m = LinkAt(link, c, NoAddr, x)
    BY <1>1, <2>1, <2>2, <2>3
  <2>5. Links(m, bonded) /\ OnlyMoved(link, m, c) /\ m[c].st = x
    BY <2>1, <2>3, <2>4, LinkSet
  <2>6. QED
    BY <2>2, <2>3, <2>5
<1>3. link[c].st \notin Served
  BY DEF Served
<1>4. QED
  BY <1>2, <1>3, LinkStays

LEMMA ConnectedStays == ASSUME GatewayInv, NEW c \in Conns, Connected_(c) PROVE GatewayInv'
<1>1. link[c].st = "connecting" /\ link' = StateAt(link, c, "connected") /\ client' = client /\ bonded' = bonded
  BY DEF Connected_, StateAt
<1>2. Links(link, bonded) /\ "connected" \in LinkStates
  BY DEF GatewayInv, LinkStates
<1>3. Links(link', bonded) /\ OnlyMoved(link, link', c) /\ link'[c].st = "connected"
  BY <1>1, <1>2, StateSet
<1>4. link[c].st \notin Served
  BY <1>1 DEF Served
<1>5. QED
  BY <1>1, <1>3, <1>4, LinkStays

\* A connection that is up begins to close.
LEMMA ClosingStays ==
  ASSUME GatewayInv, NEW c \in Conns, Up(c), link' = [link EXCEPT ![c].st = "closing"], client' = client,
         bonded' = bonded
  PROVE  GatewayInv'
<1>1. Links(link, bonded) /\ "closing" \in LinkStates
  BY DEF GatewayInv, LinkStates
<1>2. link[c].st # "free" /\ link' = StateAt(link, c, "closing")
  BY DEF Up, StateAt
<1>3. /\ Links(link', bonded) /\ OnlyMoved(link, link', c) /\ link'[c].st = "closing"
      /\ link'[c].addr = link[c].addr
  <2>1. PICK m : m = link'
    OBVIOUS
  <2>2. Links(m, bonded) /\ OnlyMoved(link, m, c) /\ m[c].st = "closing" /\ m[c].addr = link[c].addr
    BY <1>1, <1>2, <2>1, StateSet
  <2>3. QED
    BY <2>1, <2>2
<1>4. QED
  BY <1>3, LinkStays

\* What the listener does with a headset whose entry is there.
LEMMA DiscoveringKept == ASSUME NEW u, Client(u), NEW c, NEW a PROVE Kept(u, Discovering(u, c, a))
<1>1. PICK i : i = FromConn(u.servers, c, a)
  OBVIOUS
<1>2. Kept(u, Discover(u, i))
  BY DiscoverKept
<1>3. QED
  BY <1>1, <1>2, KeptItself DEF Discovering

LEMMA StoreThenDiscovering ==
  ASSUME NEW u, Client(u), Exclusive(u), NEW t, Store(t), NEW c, NEW a,
         NEW v, v = Discovering([u EXCEPT !.servers = t], c, a)
  PROVE  Client(v) /\ Exclusive(v) /\ StillWaits(u, v) /\ SameEntries(t, v.servers)
<1>1. PICK w : w = [u EXCEPT !.servers = t]
  OBVIOUS
<1>2. /\ DOMAIN w = DOMAIN u /\ w.servers = t /\ w.sem = u.sem /\ w.capQ = u.capQ /\ w.proc = u.proc
      /\ w.disc = u.disc /\ w.kept = u.kept
  BY <1>1, Fields
<1>3. Client(w) /\ Exclusive(w)
  BY <1>2 DEF Client, Exclusive
<1>4. Kept(w, v)
  BY <1>1, <1>3, DiscoveringKept
<1>5. QED
  BY <1>2, <1>3, <1>4 DEF Kept, Exclusive, StillWaits

LEMMA SecurityChangedStays == ASSUME GatewayInv, NEW c \in Conns, SecurityChanged(c) PROVE GatewayInv'
<1>1. PICK a : a = link[c].addr
  OBVIOUS
<1>2. PICK s : s = client.servers
  OBVIOUS
<1>3. /\ link[c].st = "connected" /\ bonded' = bonded
      /\ link' = [link EXCEPT ![c].st = IF a \in bonded THEN "secured" ELSE "pairing"]
      /\ client' = IF ConnUpdate(s, c, a).ret # "ok" THEN client
                   ELSE Discovering([client EXCEPT !.servers = ConnUpdate(s, c, a).servers], c, a)
  BY <1>1, <1>2 DEF SecurityChanged
<1>4. Links(link, bonded) /\ StoreOf(s, bonded) /\ Mirrors(s, link)
  BY <1>2 DEF GatewayInv
<1>5. "secured" \in LinkStates /\ "pairing" \in LinkStates /\ "connected" \notin Served
  BY DEF LinkStates, Served
<1>6. NoneServes(s, c)
  BY <1>3, <1>4, <1>5, UnservedState
<1>7. a # NoAddr
  BY <1>1, <1>3, <1>4 DEF Links
<1>8. CASE a \notin bonded
  <2>1. link' = StateAt(link, c, "pairing")
    BY <1>3, <1>8 DEF StateAt
  <2>2. Links(link', bonded) /\ OnlyMoved(link, link', c) /\ link'[c].st = "pairing"
    <3>1. PICK m : m = link'
      OBVIOUS
    <3>2. link[c].addr \notin bonded /\ link[c].st # "free" /\ m = StateAt(link, c, "pairing")
      BY <1>1, <1>3, <1>8, <2>1, <3>1
    <3>3. Links(m, bonded) /\ OnlyMoved(link, m, c) /\ m[c].st = "pairing"
      BY <1>4, <1>5, <3>2, StateSet
    <3>4. QED
      BY <3>1, <3>3
  <2>3. FromAddr(s, a) = 0
    <3>1. \A i \in Entries : s[i].addr # a
      BY <1>4, <1>7, <1>8 DEF StoreOf
    <3>2. QED
      BY <3>1, SearchFinds
  <2>4. ConnUpdate(s, c, a).ret = "ENOENT"
    BY <2>3 DEF ConnUpdate, Result
  <2>5. client' = client
    BY <1>3, <2>4
  <2>6. QED
    BY <1>3, <1>5, <2>2, <2>5, LinkStays
<1>9. CASE a \in bonded
  <2>1. link' = StateAt(link, c, "secured")
    BY <1>3, <1>9 DEF StateAt
  <2>2. /\ Links(link', bonded) /\ OnlyMoved(link, link', c) /\ link'[c].st = "secured"
        /\ link'[c].addr = a
    <3>1. PICK m : m = link'
      OBVIOUS
    <3>2. link[c].st # "free" /\ m = StateAt(link, c, "secured")
      BY <1>3, <2>1, <3>1
    <3>3. Links(m, bonded) /\ OnlyMoved(link, m, c) /\ m[c].st = "secured" /\ m[c].addr = link[c].addr
      BY <1>4, <1>5, <3>2, StateSet
    <3>4. QED
      BY <1>1, <3>1, <3>3
  <2>3. PICK i \in Entries : s[i].addr = a
    BY <1>4, <1>9 DEF StoreOf
  <2>4. FromAddr(s, a) = i /\ i # 0
    BY <1>4, <1>7, <2>3, SearchFindsThe, StoreAssumption DEF Entries
  <2>5. s[i].conn = NoConn
    <3>1. SUFFICES ASSUME s[i].conn # NoConn PROVE FALSE
      OBVIOUS
    <3>2. s[i].conn \in Conns /\ link[s[i].conn].addr = a
      BY <1>4, <2>3, <3>1 DEF Mirrors
    <3>3. s[i].conn = c
      BY <1>1, <1>4, <1>7, <3>2 DEF Links
    <3>4. QED
      BY <1>6, <3>3 DEF NoneServes
  <2>6. PICK t : t = [s EXCEPT ![i].conn = c]
    OBVIOUS
  <2>7. ConnUpdate(s, c, a) = Result("ok", t)
    BY <2>4, <2>5, <2>6 DEF ConnUpdate
  <2>8. client' = Discovering([client EXCEPT !.servers = t], c, a)
    BY <1>3, <2>7 DEF Result
  <2>9. /\ DOMAIN t = Entries /\ DOMAIN t[i] = DOMAIN s[i] /\ t[i].addr = a /\ t[i].conn = c
        /\ \A j \in Entries : j # i => t[j] = s[j]
    <3>1. DOMAIN s = Entries /\ "addr" \in DOMAIN s[i] /\ "conn" \in DOMAIN s[i]
      BY <1>4 DEF StoreOf, Store
    <3>2. PICK e : e = [s[i] EXCEPT !.conn = c]
      OBVIOUS
    <3>3. DOMAIN e = DOMAIN s[i] /\ e.addr = a /\ e.conn = c
      BY <2>3, <3>1, <3>2
    <3>4. t = [s EXCEPT ![i] = e]
      BY <2>6, <3>2
    <3>5. QED
      BY <3>1, <3>3, <3>4
  <2>10. Store(t)
    BY <1>4, <2>9 DEF StoreOf, Store
  <2>11. StoreOf(t, bonded)
    <3>1. \A j \in Entries : t[j].addr = s[j].addr
      BY <2>3, <2>9
    <3>2. QED
      BY <1>4, <2>10, <3>1 DEF StoreOf
  <2>12. Mirrors(t, link')
    BY <1>4, <1>6, <2>2, <2>5, <2>9, MirrorsSecured
  <2>13. Client(client') /\ Exclusive(client') /\ StillWaits(client, client') /\ SameEntries(t, client'.servers)
    BY <2>8, <2>10, StoreThenDiscovering DEF GatewayInv
  <2>14. StoreOf(client'.servers, bonded) /\ Mirrors(client'.servers, link')
    BY <2>11, <2>12, <2>13, SameMirrors
  <2>15. QED
    BY <1>3, <2>2, <2>13, <2>14 DEF GatewayInv, StillWaits
<1>10. QED
  BY <1>8, <1>9

LEMMA PairingCompleteStays == ASSUME GatewayInv, NEW c \in Conns, PairingComplete(c) PROVE GatewayInv'
<1>1. PICK a : a = link[c].addr
  OBVIOUS
<1>2. PICK s : s = client.servers
  OBVIOUS
<1>3. /\ link[c].st = "pairing" /\ Cardinality(bonded) < MaxPaired /\ bonded' = bonded \cup {a}
      /\ link' = StateAt(link, c, "secured")
      /\ client' = IF AddByConn(s, c, a).ret # "ok" THEN client
                   ELSE Discovering([client EXCEPT !.servers = AddByConn(s, c, a).servers], c, a)
  BY <1>1, <1>2 DEF PairingComplete, StateAt
<1>4. Links(link, bonded) /\ StoreOf(s, bonded) /\ Mirrors(s, link)
  BY <1>2 DEF GatewayInv
<1>5. a # NoAddr /\ a \notin bonded /\ a \in Addrs
  <2>1. link[c] \in [addr : Addrs \cup {NoAddr}, st : LinkStates]
    BY <1>4 DEF Links
  <2>2. QED
    BY <1>1, <1>3, <1>4, <2>1 DEF Links
<1>6. /\ Links(link', bonded) /\ OnlyMoved(link, link', c) /\ link'[c].st = "secured"
      /\ link'[c].addr = a
  <2>1. "secured" \in LinkStates
    BY DEF LinkStates
  <2>2. PICK m : m = link'
    OBVIOUS
  <2>3. link[c].st # "free" /\ m = StateAt(link, c, "secured")
    BY <1>3, <2>2
  <2>4. Links(m, bonded) /\ OnlyMoved(link, m, c) /\ m[c].st = "secured" /\ m[c].addr = link[c].addr
    BY <1>4, <2>1, <2>3, StateSet
  <2>5. QED
    BY <1>1, <2>2, <2>4
<1>7. NoneServes(s, c)
  <2>1. ASSUME NEW j \in Entries, s[j].conn = c PROVE FALSE
    <3>1. s[j].addr = a
      BY <1>1, <1>4, <2>1 DEF Mirrors, Conns, NoConn
    <3>2. QED
      BY <1>4, <1>5, <3>1 DEF StoreOf
  <2>2. QED
    BY <2>1 DEF NoneServes
<1>8. IsFiniteSet(bonded) /\ Cardinality(bonded) \in Nat /\ NoAddr \notin bonded
  BY BondsFinite
<1>9. Cardinality(bonded) < MaxServers
  BY <1>3, <1>8, GatewayAssumption, StoreAssumption
<1>10. PICK i \in Entries : s[i].addr = NoAddr /\ AddByConn(s, c, a) = Result("ok", Entered(s, i, a, c))
  BY <1>4, <1>5, <1>8, <1>9, AddedIsEntered
<1>11. PICK t : t = Entered(s, i, a, c)
  OBVIOUS
<1>12. /\ StoreOf(t, bonded \cup {a}) /\ t[i].addr = a /\ t[i].conn = c
       /\ \A j \in Entries : j # i => t[j] = s[j]
  <2>1. /\ StoreOf(s, bonded) /\ i \in Entries /\ s[i].addr = NoAddr
        /\ NoAddr \notin bonded /\ a \notin bonded /\ a # NoAddr
    BY <1>4, <1>5, <1>8, <1>10
  <2>2. StoreOf(t, bonded \cup {a}) /\ IsEntered(s, t, i, a, c)
    BY <1>11, <2>1, EnteredStays
  <2>3. QED
    BY <2>2 DEF IsEntered
<1>13. client' = Discovering([client EXCEPT !.servers = t], c, a)
  BY <1>3, <1>10, <1>11 DEF Result
<1>14. s[i].conn = NoConn
  <2>1. SUFFICES ASSUME s[i].conn # NoConn PROVE FALSE
    OBVIOUS
  <2>2. PICK d \in Conns : link[d].addr = NoAddr /\ link[d].st \in Served
    BY <1>4, <1>10, <2>1 DEF Mirrors
  <2>3. QED
    BY <1>4, <2>2 DEF Links, Served
<1>15. Mirrors(t, link')
  BY <1>4, <1>6, <1>7, <1>12, <1>14, MirrorsSecured
<1>16. Client(client') /\ Exclusive(client') /\ StillWaits(client, client') /\ SameEntries(t, client'.servers)
  <2>1. Store(t)
    BY <1>12 DEF StoreOf
  <2>2. QED
    BY <1>13, <2>1, StoreThenDiscovering DEF GatewayInv
<1>17. StoreOf(client'.servers, bonded') /\ Mirrors(client'.servers, link')
  BY <1>3, <1>12, <1>15, <1>16, SameMirrors
<1>18. Links(link', bonded')
  <2>1. ASSUME NEW d \in Conns, link'[d].st = "pairing" PROVE link'[d].addr \notin bonded'
    <3>1. d # c
      BY <1>6, <2>1
    <3>2. link'[d].addr \notin bonded
      BY <1>6, <2>1 DEF Links
    <3>3. link'[d].addr # a
      BY <1>5, <1>6, <3>1 DEF Links
    <3>4. QED
      BY <1>3, <3>2, <3>3
  <2>2. QED
    BY <1>6, <2>1 DEF Links
<1>19. bonded' \subseteq Addrs /\ Cardinality(bonded') <= MaxPaired
  <2>1. Cardinality(bonded') = Cardinality(bonded) + 1
    BY <1>3, <1>5, <1>8, FS_AddElement
  <2>2. Cardinality(bonded') <= MaxPaired
    BY <1>3, <1>8, <2>1, GatewayAssumption
  <2>3. QED
    BY <1>3, <1>5, <2>2 DEF GatewayInv
<1>20. QED
  BY <1>16, <1>17, <1>18, <1>19 DEF GatewayInv, StillWaits

LEMMA DisconnectedStays == ASSUME GatewayInv, NEW c \in Conns, Disconnected(c) PROVE GatewayInv'
<1>1. PICK s : s = client.servers
  OBVIOUS
<1>2. PICK t : t = ClearByConn(s, c, link[c].addr)
  OBVIOUS
<1>3. link[c].st = "closing" /\ bonded' = bonded /\ link' = StateAt(link, c, "gone") /\ client' = [client EXCEPT !.servers = t]
  BY <1>1, <1>2 DEF Disconnected, ConnDisconnected, StateAt
<1>4. Links(link, bonded) /\ StoreOf(s, bonded) /\ Mirrors(s, link)
  BY <1>1 DEF GatewayInv
<1>5. StoreOf(t, bonded) /\ Mirrors(t, link) /\ NoneServes(t, c)
  BY <1>2, <1>3, <1>4, MirrorsCleared
<1>6. Links(link', bonded) /\ OnlyMoved(link, link', c) /\ link'[c].st = "gone"
  <2>1. "gone" \in LinkStates
    BY DEF LinkStates
  <2>2. PICK m : m = link'
    OBVIOUS
  <2>3. link[c].st # "free" /\ m = StateAt(link, c, "gone")
    BY <1>3, <2>2
  <2>4. Links(m, bonded) /\ OnlyMoved(link, m, c) /\ m[c].st = "gone"
    BY <1>4, <2>1, <2>3, StateSet
  <2>5. QED
    BY <2>2, <2>4
<1>7. Mirrors(t, link')
  BY <1>5, <1>6, MirrorsOn
<1>8. DOMAIN client' = DOMAIN client /\ client'.servers = t /\ client'.sem = client.sem /\ client'.proc = client.proc
      /\ client'.capQ = client.capQ /\ client'.disc = client.disc /\ client'.kept = client.kept
  BY <1>3, Fields DEF GatewayInv
<1>9. Client(client') /\ Exclusive(client')
  BY <1>5, <1>8 DEF GatewayInv, Client, Exclusive, StoreOf
<1>10. QED
  BY <1>3, <1>5, <1>6, <1>7, <1>8, <1>9 DEF GatewayInv

\* A procedure has one stream less to do.
Less(u, s) == [u EXCEPT !.proc.todo = @ \ {s}]

LEMMA LessToDo ==
  ASSUME NEW v, Client(v), Exclusive(v), NEW s
  PROVE  /\ Client(Less(v, s)) /\ Exclusive(Less(v, s))
         /\ Less(v, s).servers = v.servers /\ Less(v, s).sem = v.sem /\ Less(v, s).capQ = v.capQ
<1>0. PICK u : u = Less(v, s)
  OBVIOUS
<1>1. PICK q : q = v.proc
  OBVIOUS
<1>2. PICK p : p = [q EXCEPT !.todo = @ \ {s}]
  OBVIOUS
<1>3. "kind" \in DOMAIN p /\ p.kind = q.kind
  BY <1>1, <1>2 DEF Exclusive
<1>4. u = [v EXCEPT !.proc = p]
  BY <1>0, <1>1, <1>2 DEF Less
<1>5. /\ DOMAIN u = DOMAIN v /\ u.servers = v.servers /\ u.sem = v.sem /\ u.capQ = v.capQ
      /\ u.proc = p /\ u.disc = v.disc /\ u.kept = v.kept
  BY <1>4, Fields
<1>6. Client(u) /\ Exclusive(u)
  BY <1>1, <1>3, <1>5 DEF Client, Exclusive
<1>7. QED
  BY <1>0, <1>5, <1>6

LEMMA ConfiguredStays == ASSUME GatewayInv, Configured PROVE GatewayInv'
<1>1. PICK s : s = Earliest(Proc.todo)
  OBVIOUS
<1>2. PICK u : u = Less(client, s)
  OBVIOUS
<1>3. client' = StreamConfigured(u, s) /\ link' = link /\ bonded' = bonded
  BY <1>1, <1>2 DEF Configured, StackStep, Reported, Less
<1>4. Client(client) /\ Exclusive(client)
  BY DEF GatewayInv
<1>5. Client(u) /\ Exclusive(u) /\ u.servers = client.servers /\ u.sem = client.sem /\ u.capQ = client.capQ
  BY <1>2, <1>4, LessToDo
<1>6. Stepped(u, client')
  BY <1>3, <1>5, StreamConfiguredKept, KeptSteps
<1>7. Stepped(client, client')
  BY <1>5, <1>6 DEF Stepped, StillWaits
<1>8. QED
  BY <1>3, <1>7, SteppedStays

LEMMA EndingStays == ASSUME GatewayInv, NEW S, Ending(S) PROVE GatewayInv'
<1>1. \E s : /\ client' = StreamStopped(client, s) \/ client' = StreamReleased(client, s)
             /\ link' = link /\ bonded' = bonded
  BY DEF Ending, StackStep, Reported
<1>2. Kept(client, client')
  BY <1>1, StreamStoppedKept, StreamReleasedKept DEF GatewayInv
<1>3. QED
  BY <1>1, <1>2, KeptStays

LEMMA AudioMessageStays == ASSUME GatewayInv, AudioMessage PROVE GatewayInv'
<1>1. PICK c : c = Head(client.audioQ).conn
  OBVIOUS
<1>2. PICK u : u = [client EXCEPT !.audioQ = Tail(@)]
  OBVIOUS
<1>3. client' = u /\ bonded' = bonded /\ (link' = link \/ (Up(c) /\ link' = StateAt(link, c, "closing")))
  BY <1>1, <1>2 DEF AudioMessage, StateAt
<1>4. Kept(client, u)
  BY <1>2, OtherField DEF GatewayInv
<1>5. CASE link' = link
  BY <1>3, <1>4, <1>5, KeptStays
<1>6. CASE link' # link
  <2>1. Links(link, bonded) /\ "closing" \in LinkStates
    BY DEF GatewayInv, LinkStates
  <2>2. c \in Conns
    <3>1. SUFFICES ASSUME c \notin Conns PROVE FALSE
      OBVIOUS
    <3>2. link \in [Conns -> [addr : Addrs \cup {NoAddr}, st : LinkStates]]
      BY <2>1 DEF Links
    <3>3. StateAt(link, c, "closing") = link
      <4>1. PICK R : R = [addr : Addrs \cup {NoAddr}, st : LinkStates]
        OBVIOUS
      <4>2. link \in [Conns -> R]
        BY <3>2, <4>1
      <4>3. PICK e : e = [link[c] EXCEPT !.st = "closing"]
        OBVIOUS
      <4>4. StateAt(link, c, "closing") = [link EXCEPT ![c] = e]
        BY <4>3 DEF StateAt
      <4>5. [link EXCEPT ![c] = e] = link
        BY <3>1, <4>2
      <4>6. QED
        BY <4>4, <4>5
    <3>4. QED
      BY <1>3, <1>6, <3>3
  <2>3. Up(c) /\ link[c].st # "free"
    BY <1>3, <1>6 DEF Up
  <2>4. PICK m : m = link'
    OBVIOUS
  <2>5. m = StateAt(link, c, "closing")
    BY <1>3, <1>6, <2>4
  <2>6. Links(m, bonded) /\ OnlyMoved(link, m, c) /\ m[c].st = "closing" /\ m[c].addr = link[c].addr
    BY <2>1, <2>2, <2>3, <2>5, StateSet
  <2>7. Mirrors(client.servers, m)
    BY <2>2, <2>6, MirrorsOn DEF GatewayInv
  <2>8. Client(u) /\ Exclusive(u) /\ SameEntries(client.servers, u.servers) /\ u.sem = client.sem /\ u.capQ = client.capQ
    BY <1>4 DEF GatewayInv, Kept, Exclusive
  <2>9. StoreOf(u.servers, bonded) /\ Mirrors(u.servers, m)
    BY <2>7, <2>8, SameMirrors DEF GatewayInv
  <2>10. QED
    BY <1>3, <2>4, <2>6, <2>8, <2>9 DEF GatewayInv
<1>7. QED
  BY <1>5, <1>6

-----------------------------------------------------------------------------
(* The invariant holds at first and after each step.                       *)

LEMMA GatewayInit == Init => GatewayInv
<1> SUFFICES ASSUME Init PROVE GatewayInv
  OBVIOUS
<1>1. PICK s : s = Filled[bonded]
  OBVIOUS
<1>2. bonded \subseteq Addrs /\ Cardinality(bonded) <= MaxPaired
  BY DEF Init
<1>3. StoreOf(s, bonded) /\ \A i \in Entries : s[i].conn = NoConn
  BY <1>1, <1>2, FilledRight DEF FilledFor, Fresh
<1>4. client = ClientInit(s)
  BY <1>1 DEF Init
<1>5. /\ DOMAIN client = ClientFields /\ client.servers = s /\ client.sem = 1 /\ client.capQ = <<>>
      /\ client.proc = NoProc /\ client.disc = [c \in Conns |-> NotDiscovering] /\ client.kept = FALSE
  BY <1>4 DEF ClientInit, ClientFields
<1>6. Client(client)
  <2>1. NotDiscovering \in [dir : {"none", "sink", "source"}, next : Nat]
    BY DEF NotDiscovering
  <2>2. client.disc \in Discoveries
    BY <1>5, <2>1 DEF Discoveries
  <2>3. QED
    BY <1>3, <1>5, <2>2 DEF Client, StoreOf
<1>7. Exclusive(client)
  BY <1>5 DEF Exclusive, NoProc
<1>8. link = [c \in Conns |-> [addr |-> NoAddr, st |-> "free"]]
  BY DEF Init, NoLink
<1>9. \A c \in Conns : link[c].addr = NoAddr /\ link[c].st = "free"
  BY <1>8
<1>10. Links(link, bonded)
  <2>1. link \in [Conns -> [addr : Addrs \cup {NoAddr}, st : LinkStates]]
    BY <1>8 DEF LinkStates
  <2>2. QED
    BY <1>9, <2>1 DEF Links
<1>11. Mirrors(s, link)
  BY <1>3, <1>9 DEF Mirrors
<1>12. Waits(1, <<>>)
  BY ClientAssumption, EmptyIsSeq DEF Waits
<1>13. QED
  BY <1>2, <1>3, <1>5, <1>6, <1>7, <1>10, <1>11, <1>12 DEF GatewayInv

LEMMA StackStays == ASSUME GatewayInv, NEW c \in Conns, Stack(c) PROVE GatewayInv'
<1>1. CASE Freed(c)
  BY <1>1, UnlinkedStays DEF Freed
<1>2. CASE DiscoveryCallback(c)
  <2>1. client' = DiscoveryStep(client, c, link[c].addr, Up(c)) /\ link' = link /\ bonded' = bonded
    BY <1>2 DEF DiscoveryCallback, StackStep, Reported
  <2>2. PICK b : b = Up(c)
    OBVIOUS
  <2>3. Kept(client, DiscoveryStep(client, c, link[c].addr, b))
    BY DiscoveryStepKept DEF GatewayInv
  <2>4. Kept(client, client')
    BY <2>1, <2>2, <2>3, Zenon
  <2>5. QED
    BY <2>1, <2>4, KeptStays
<1>3. CASE CasCallback(c)
  <2>1. PICK m : m = (Up(c) /\ SetOf[link[c].addr] # NoSet)
    OBVIOUS
  <2>2. client' = CasDiscovered(client, c, link[c].addr, Up(c) /\ SetOf[link[c].addr] # NoSet)
        /\ link' = link /\ bonded' = bonded
    BY <1>3 DEF CasCallback, StackStep, Reported
  <2>3. Kept(client, CasDiscovered(client, c, link[c].addr, m))
    BY CasDiscoveredKept DEF GatewayInv
  <2>4. Kept(client, client')
    BY <2>1, <2>2, <2>3, Zenon
  <2>5. QED
    BY <2>2, <2>4, KeptStays
<1>4. CASE LinkReleases(c)
  BY <1>4, EndingStays DEF LinkReleases
<1>5. CASE CasFails(c)
  <2>1. client' = CasDiscovered(client, c, link[c].addr, FALSE) /\ link' = link /\ bonded' = bonded
    BY <1>5 DEF CasFails, Reported
  <2>2. Kept(client, CasDiscovered(client, c, link[c].addr, FALSE))
    BY CasDiscoveredKept DEF GatewayInv
  <2>3. QED
    BY <2>1, <2>2, KeptStays
<1>6. QED
  BY <1>1, <1>2, <1>3, <1>4, <1>5, SecurityChangedStays, PairingCompleteStays, DisconnectedStays, ConnectedStays DEF Stack

\* A procedure ends, or the work queue runs the start worker.
LEMMA CompleteStays ==
  ASSUME GatewayInv, Proc.kind # "none", link' = link, bonded' = bonded,
         \/ client' = ProcComplete(client)
         \/ client.capQ # <<>> /\ client' = StartTimesOut([ProcEnds(client) EXCEPT !.capQ = Tail(@)])
  PROVE  GatewayInv'
  BY ProcCompleteAsked, CompleteTimesOutAsked, AskedStays DEF GatewayInv, Proc

LEMMA ProcedureStays ==
  ASSUME GatewayInv,
         \/ Started \/ StartComplete \/ StartFails \/ StopReleases \/ StopComplete \/ CompleteTimesOut
         \/ Worker \/ WorkerTimesOut
  PROVE  GatewayInv'
<1>1. CASE Started
  <2>1. \E s : client' = StreamStarted(client, s) /\ link' = link /\ bonded' = bonded
    BY <1>1 DEF Started, StackStep, Reported
  <2>2. Kept(client, client')
    BY <2>1, StreamStartedKept DEF GatewayInv
  <2>3. QED
    BY <2>1, <2>2, KeptStays
<1>2. CASE StartComplete \/ StartFails
  BY <1>2, CompleteStays DEF StartComplete, StartEnded, StartFails, StackStep, Reported
<1>3. CASE StopReleases
  BY <1>3, EndingStays DEF StopReleases
<1>4. CASE StopComplete \/ CompleteTimesOut
  BY <1>4, CompleteStays DEF StopComplete, StopEnded, CompleteTimesOut, StartEnded, StackStep, Reported
<1>5. CASE Worker
  <2>1. client' = StartWorker(client, up) /\ link' = link /\ bonded' = bonded
    BY <1>5 DEF Worker, StackStep, Reported
  <2>2. Stepped(client, client')
    BY <2>1, StartWorkerSteps DEF GatewayInv
  <2>3. QED
    BY <2>1, <2>2, SteppedStays
<1>6. CASE WorkerTimesOut
  <2>1. PICK w \in StartWorkerTimeouts(client, up) : client' = w /\ link' = link /\ bonded' = bonded
    BY <1>6 DEF WorkerTimesOut, Reported
  <2>2. Stepped(client, client')
    BY <2>1, StartWorkerTimeoutsStep DEF GatewayInv
  <2>3. QED
    BY <2>1, <2>2, SteppedStays
<1>7. QED
  BY <1>1, <1>2, <1>3, <1>4, <1>5, <1>6

\* A headset ends or releases a stream; a start has that stream less to do.
LEMMA PeerStays == ASSUME GatewayInv, NEW s, PeerStops(s) \/ PeerReleases(s) PROVE GatewayInv'
<1>1. Client(client) /\ Exclusive(client)
  BY DEF GatewayInv
<1>2. CASE PeerStops(s)
  <2>1. client' = StreamStopped(client, s) /\ link' = link /\ bonded' = bonded
    BY <1>2 DEF PeerStops, Reported
  <2>2. QED
    BY <1>1, <2>1, StreamStoppedKept, KeptStays
<1>3. CASE PeerReleases(s)
  <2>1. PICK u : u = Less(client, s)
    OBVIOUS
  <2>2. client' = StreamReleased(u, s) /\ link' = link /\ bonded' = bonded
    BY <1>3, <2>1 DEF PeerReleases, Reported, Less
  <2>3. Client(u) /\ Exclusive(u) /\ u.servers = client.servers /\ u.sem = client.sem /\ u.capQ = client.capQ
    BY <1>1, <2>1, LessToDo
  <2>4. Stepped(u, client')
    BY <2>2, <2>3, StreamReleasedKept, KeptSteps
  <2>5. Stepped(client, client')
    BY <2>3, <2>4 DEF Stepped, StillWaits
  <2>6. QED
    BY <2>2, <2>5, SteppedStays
<1>4. QED
  BY <1>2, <1>3

LEMMA ContentStays == ASSUME GatewayInv, ContentTake \/ ContentTakeTimesOut \/ ContentPut PROVE GatewayInv'
<1>1. Client(client) /\ Exclusive(client)
  BY DEF GatewayInv
<1>2. CASE ContentTake
  <2>1. link' = link /\ bonded' = bonded
    BY <1>2 DEF ContentTake
  <2>2. CASE client.sem = 0
    <3>1. client' = client
      BY <1>2, <2>2 DEF ContentTake
    <3>2. QED
      BY <1>1, <2>1, <3>1, KeptItself, KeptStays
  <2>3. CASE client.sem # 0
    <3>1. client' = Taken(client, content.last)
      BY <1>2, <2>3 DEF ContentTake
    <3>2. QED
      BY <1>1, <2>1, <2>3, <3>1, TakenAsked, AskedStays
  <2>4. QED
    BY <2>2, <2>3
<1>3. CASE ContentPut
  <2>1. client' = EnqueueProc(client, content.busy) /\ link' = link /\ bonded' = bonded
    BY <1>3 DEF ContentPut
  <2>2. QED
    BY <1>1, <2>1, EnqueueAsked, AskedStays
<1>4. CASE ContentTakeTimesOut
  <2>1. client' = StartTimesOut(client) /\ client.sem = 1 /\ link' = link /\ bonded' = bonded
    BY <1>4 DEF ContentTakeTimesOut
  <2>2. QED
    BY <1>1, <2>1, StartTimesOutAsked, AskedStays
<1>5. QED
  BY <1>2, <1>3, <1>4

LEMMA GatewayNext == GatewayInv /\ [Next]_vars => GatewayInv'
<1> SUFFICES ASSUME GatewayInv, [Next]_vars PROVE GatewayInv'
  OBVIOUS
<1>1. CASE client' = client /\ link' = link /\ bonded' = bonded
  BY <1>1 DEF GatewayInv
<1>2. CASE UNCHANGED vars
  BY <1>1, <1>2 DEF vars
<1>3. CASE \E a \in Addrs, by \in {"bond", "name", "set"} : ScanRecv(a, by)
  BY <1>3, ScanRecvStays
<1>4. ASSUME NEW c \in Conns, ConnectFailed(c) PROVE GatewayInv'
  BY <1>4, UnlinkedStays DEF ConnectFailed
<1>5. ASSUME NEW c \in Conns, Closes(c) PROVE GatewayInv'
  BY <1>5, ClosingStays DEF Closes
<1>6. CASE CoordSet
  BY <1>1, <1>6 DEF CoordSet
<1>7. CASE PlayPause
  BY <1>1, <1>7 DEF PlayPause
<1>8. QED
  BY <1>2, <1>3, <1>4, <1>5, <1>6, <1>7, StackStays, ConfiguredStays, ProcedureStays, PeerStays, ContentStays,
     AudioMessageStays DEF Next

LEMMA GatewayHolds == Spec => []GatewayInv
  BY GatewayInit, GatewayNext, PTL DEF Spec

\* Whatever the threads, the stack and the button do, the semaphore is taken exactly
\* while a procedure runs: every path through unicast_client_start, unicast_client_stop
\* and their completion callbacks gives it back, and none begins beside another.  The
\* one exception is the start that does not get the store's lock: it keeps the
\* semaphore, and no procedure runs again.
THEOREM OneProcedureAtATime == Spec => []ProceduresExclusive
<1>1. GatewayInv => ProceduresExclusive
  BY DEF GatewayInv, Exclusive, ProceduresExclusive, Proc
<1>2. QED
  BY <1>1, GatewayHolds, PTL

\* Through connections lost, paired anew and cleared, a headset has one entry of the
\* store, an entry's connection is one of the stack's to that headset, and a secured
\* connection is found in the store: no entry outlives its connection
\* (server_store.c, the listener of bt_mgmt_chan in main.c).
THEOREM StoreIsTheStacks == Spec => []StoreMirrorsLinks
<1>1. ASSUME GatewayInv PROVE StoreMirrorsLinks
  <2>1. PICK s : s = client.servers
    OBVIOUS
  <2>2. StoreOf(s, bonded) /\ Links(link, bonded) /\ Mirrors(s, link)
    BY <1>1, <2>1 DEF GatewayInv
  <2>3. ASSUME NEW c \in Conns, link[c].st = "secured" PROVE FromConn(s, c, link[c].addr) # 0
    <3>1. PICK i \in Entries : s[i].addr = link[c].addr /\ s[i].conn = c
      BY <2>2, <2>3 DEF Mirrors
    <3>2. link[c].addr # NoAddr
      BY <2>2, <2>3 DEF Links
    <3>3. FromAddr(s, link[c].addr) = i
      BY <2>2, <3>1, <3>2, SearchFindsThe
    <3>4. QED
      BY <3>1, <3>3, StoreAssumption DEF FromConn, Entries
  <2>4. \A i \in Entries : s[i].conn # NoConn =>
            link[s[i].conn].addr = s[i].addr /\ link[s[i].conn].st \in {"pairing", "secured", "closing"}
    BY <2>2 DEF Mirrors, Served
  <2>5. \A i, j \in Entries : s[i].addr = s[j].addr /\ s[i].addr # NoAddr => i = j
    BY <2>2 DEF StoreOf
  <2>6. QED
    BY <2>1, <2>3, <2>4, <2>5 DEF StoreMirrorsLinks
<1>2. QED
  BY <1>1, GatewayHolds, PTL

===============================================================================
