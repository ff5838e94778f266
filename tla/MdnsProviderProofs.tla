------------------------- MODULE MdnsProviderProofs -------------------------
(***************************************************************************)
(* Proofs about MdnsProvider, for any number of services and network       *)
(* changes: the monitor's thread and the ping thread never meet over one   *)
(* service, and a service that departed leaves nothing behind.             *)
(***************************************************************************)
EXTENDS MdnsProvider, SequenceTheorems, TLAPS

Entries(s) == {s[i] : i \in 1..Len(s)}

\* Calls that take away, calls that close what a thread has to do, and the others.
Falling == {"gone", "unbind", "untell"}
Closing == {"monitor", "unlock"}

ClosingIsLast(s) == \A i \in 1..Len(s) : s[i].op \in Closing => i = Len(s)

-----------------------------------------------------------------------------
(* The inductive invariant.                                                 *)

\* The ping thread calls the registry only with ping_mutex_ held ...
PingHolds == todo[PingThread] # <<>> => pingMutex = PingThread

\* ... and about a service that is a ping target, which only an announced one is.
TargetsAreTold ==
    \A c \in Candidates : /\ target[c].gone => target[c].tracked
                          /\ target[c].tracked => told[c]
PingIsAboutTargets == \A e \in Entries(todo[PingThread]) : target[e.cand].tracked

\* The monitor's thread has something to do about a service only before it is made a target,
\* or after it was taken out: it takes away what departed, and adds what arrived.
MonitorIsAboutOthers ==
    \A e \in Entries(todo[MonitorThread]) :
        /\ ~target[e.cand].tracked
        /\ told[e.cand] <=> e.op \notin Falling

\* One call of the ping thread takes away or adds.
PingOneWay ==
    \A e, f \in Entries(todo[PingThread]) : e.op \in Falling => f.op \in Falling \cup Closing

Apart ==
    /\ \A t \in Threads : ClosingIsLast(todo[t])
    /\ PingHolds /\ TargetsAreTold /\ PingIsAboutTargets /\ MonitorIsAboutOthers /\ PingOneWay

Pending(op, c) == \E t \in Threads : \E e \in Entries(todo[t]) : e.op = op /\ e.cand = c

\* What is announced was found, and there is a unit as long as its event is on its way.
AnnouncedIsThere ==
    \A t \in Threads : \A e \in Entries(todo[t]) :
        /\ e.op = "submit" => e.found # "none"
        /\ e.op \in {"bind", "tell"} => unit[e.cand] # "none"

\* Without a unit there is a scanner or an entry in a client's list only until the event.
RemovedIsTold ==
    \A c \in Candidates :
        /\ cand[c] = "unknown" => unit[c] = "none"
        /\ unit[c] = "none" /\ bound[c] => Pending("unbind", c)
        /\ unit[c] = "none" /\ view[c] => Pending("untell", c)

\* A service that departed is taken away, or the call for it is still to be made.
DepartedIsGone ==
    \A c \in Candidates : ~told[c] =>
        \/ cand[c] # "present" /\ unit[c] = "none"
        \/ \E e \in Entries(todo[MonitorThread]) : e.op = "gone" /\ e.cand = c

IInv == /\ TypeOK /\ Apart /\ NeverOvertaken
        /\ AnnouncedIsThere /\ RemovedIsTold /\ DepartedIsGone

-----------------------------------------------------------------------------
(* Sequences of calls.                                                      *)

LEMMA EntriesOfFew ==
    /\ Entries(<<>>) = {}
    /\ \A a : Entries(<<a>>) = {a}
    /\ \A a, b : Entries(<<a, b>>) = {a, b}
<1>1. Entries(<<>>) = {}
  BY DEF Entries
<1>2. ASSUME NEW a PROVE Entries(<<a>>) = {a}
  BY DEF Entries
<1>3. ASSUME NEW a, NEW b PROVE Entries(<<a, b>>) = {a, b}
  <2>1. 1..Len(<<a, b>>) = {1, 2}
    OBVIOUS
  <2>2. QED
    BY <2>1 DEF Entries
<1>4. QED
  BY <1>1, <1>2, <1>3

After(calls, s) == calls \o Tail(s)

\* What is left to do when the first call is done and others come in its place.
LEMMA Continued ==
    ASSUME NEW s \in Seq(Calls), s # <<>>, ClosingIsLast(s),
           NEW calls \in Seq(Calls), \A e \in Entries(calls) : e.op \notin Closing,
           NEW r, r = After(calls, s)
    PROVE  /\ r \in Seq(Calls) /\ ClosingIsLast(r)
           /\ Entries(calls) \subseteq Entries(r)
           /\ Entries(r) \subseteq Entries(calls) \cup Entries(s)
           /\ Entries(s) \subseteq {Head(s)} \cup Entries(r)
           /\ Head(s) \in Entries(s) /\ Head(s) \in Calls
           /\ Head(s).op \in Closing => r = calls
<1>1. Len(s) \in Nat /\ Len(calls) \in Nat /\ Len(s) >= 1
  BY LenProperties, EmptySeq
<1>2. /\ Tail(s) \in Seq(Calls) /\ Len(Tail(s)) = Len(s) - 1
      /\ \A i \in 1..(Len(s) - 1) : Tail(s)[i] = s[i + 1]
      /\ Head(s) = s[1] /\ Head(s) \in Calls
  BY <1>1, HeadTailProperties
<1>3. /\ r \in Seq(Calls) /\ Len(r) = Len(calls) + Len(s) - 1
      /\ \A i \in 1..Len(r) : r[i] = IF i <= Len(calls) THEN calls[i] ELSE Tail(s)[i - Len(calls)]
  BY <1>1, <1>2, ConcatProperties DEF After
<1>4. \A i \in 1..Len(calls) : i \in 1..Len(r) /\ r[i] = calls[i]
  BY <1>1, <1>3
<1>5. \A i \in 1..Len(r) : i > Len(calls) =>
          i - Len(calls) + 1 \in 1..Len(s) /\ r[i] = s[i - Len(calls) + 1]
  BY <1>1, <1>2, <1>3
<1>6. \A j \in 1..Len(s) : j # 1 =>
          j - 1 + Len(calls) \in 1..Len(r) /\ r[j - 1 + Len(calls)] = s[j]
  BY <1>1, <1>2, <1>3
<1>7. Entries(calls) \subseteq Entries(r)
  BY <1>4 DEF Entries
<1>8. Entries(r) \subseteq Entries(calls) \cup Entries(s)
  <2>1. ASSUME NEW i \in 1..Len(r) PROVE r[i] \in Entries(calls) \cup Entries(s)
    <3>1. CASE i <= Len(calls)
      BY <1>1, <1>4, <3>1 DEF Entries
    <3>2. CASE i > Len(calls)
      BY <1>5, <3>2 DEF Entries
    <3>3. QED
      BY <1>1, <3>1, <3>2
  <2>2. QED
    BY <2>1 DEF Entries
<1>9. Entries(s) \subseteq {Head(s)} \cup Entries(r)
  <2>1. ASSUME NEW j \in 1..Len(s) PROVE s[j] \in {Head(s)} \cup Entries(r)
    <3>1. CASE j = 1
      BY <1>2, <3>1
    <3>2. CASE j # 1
      BY <1>6, <3>2 DEF Entries
    <3>3. QED
      BY <3>1, <3>2
  <2>2. QED
    BY <2>1 DEF Entries
<1>10. Head(s) \in Entries(s)
  BY <1>1, <1>2 DEF Entries
<1>11. ClosingIsLast(r)
  <2>1. ASSUME NEW i \in 1..Len(r), r[i].op \in Closing PROVE i = Len(r)
    <3>1. i > Len(calls)
      BY <1>1, <1>4, <2>1 DEF Entries
    <3>2. i - Len(calls) + 1 = Len(s)
      BY <1>5, <2>1, <3>1 DEF ClosingIsLast
    <3>3. QED
      BY <1>1, <1>3, <3>2
  <2>2. QED
    BY <2>1 DEF ClosingIsLast
<1>12. ASSUME Head(s).op \in Closing PROVE r = calls
  <2>1. 1 \in 1..Len(s) /\ s[1].op \in Closing
    BY <1>1, <1>2, <1>12
  <2>2. Len(Tail(s)) = 0
    <3>1. Len(s) = 1
      BY <2>1 DEF ClosingIsLast
    <3>2. QED
      BY <1>2, <3>1
  <2>3. \A q \in Seq(Calls) : q # <<>> => Len(q) # 0
    BY EmptySeq
  <2>4. Tail(s) = <<>>
    BY <1>2, <2>2, <2>3
  <2>5. QED
    BY <2>4, ConcatEmptySeq DEF After
<1>13. QED
  BY <1>2, <1>3, <1>7, <1>8, <1>9, <1>10, <1>11, <1>12

-----------------------------------------------------------------------------
(* The calls of a thread, whatever they are.                                *)

LEMMA TwoThreads ==
    /\ Threads = {MonitorThread, PingThread} /\ MonitorThread # PingThread
    /\ Free # MonitorThread /\ Free # PingThread
BY MdnsAssumption DEF MdnsAssumption

\* A call of a thread is done, and others about the same service, in the same way, come in
\* its place.
LEMMA CallKeepsApart ==
    ASSUME IInv, NEW t \in Threads, todo[t] # <<>>, Head(todo[t]).op \notin Closing,
           NEW calls \in Seq(Calls), Continue(t, calls),
           \A e \in Entries(calls) : /\ e.op \notin Closing /\ e.cand = Subject(t)
                                     /\ e.op \in Falling <=> Head(todo[t]).op \in Falling,
           UNCHANGED <<told, pingMutex, target>>
    PROVE  /\ todo' \in [Threads -> Seq(Calls)] /\ Apart'
           /\ Entries(calls) \subseteq Entries(todo'[t])
           /\ Entries(todo'[t]) \subseteq Entries(calls) \cup Entries(todo[t])
           /\ Entries(todo[t]) \subseteq {Head(todo[t])} \cup Entries(todo'[t])
           /\ \A s \in Threads \ {t} : todo'[s] = todo[s]
           /\ Head(todo[t]) \in Entries(todo[t]) /\ Head(todo[t]) \in Calls
           /\ \A op, c : Pending(op, c) => Pending(op, c)' \/ (op = Head(todo[t]).op /\ c = Subject(t))
<1>1. todo \in [Threads -> Seq(Calls)] /\ todo[t] \in Seq(Calls)
  BY DEF IInv, TypeOK, RegistryTypeOK
<1>2. todo'[t] = After(calls, todo[t]) /\ \A s \in Threads \ {t} : todo'[s] = todo[s]
  BY <1>1 DEF Continue, After
<1>3. ClosingIsLast(todo[t])
  BY DEF IInv, Apart
<1>4. /\ todo'[t] \in Seq(Calls) /\ ClosingIsLast(todo'[t])
      /\ Entries(calls) \subseteq Entries(todo'[t])
      /\ Entries(todo'[t]) \subseteq Entries(calls) \cup Entries(todo[t])
      /\ Entries(todo[t]) \subseteq {Head(todo[t])} \cup Entries(todo'[t])
      /\ Head(todo[t]) \in Entries(todo[t]) /\ Head(todo[t]) \in Calls
  BY <1>1, <1>2, <1>3, Continued
<1>5. todo' \in [Threads -> Seq(Calls)]
  BY <1>1, <1>2, <1>4 DEF Continue
<1>6. Apart'
  <2>1. \A s \in Threads : ClosingIsLast(todo'[s])
    BY <1>2, <1>4 DEF IInv, Apart
  <2>2. PingHolds' /\ TargetsAreTold'
    BY <1>2, TwoThreads DEF IInv, Apart, PingHolds, TargetsAreTold
  <2>3. PingIsAboutTargets'
    BY <1>2, <1>4, TwoThreads DEF IInv, Apart, PingIsAboutTargets, Subject
  <2>4. MonitorIsAboutOthers'
    BY <1>2, <1>4, TwoThreads DEF IInv, Apart, MonitorIsAboutOthers, Subject
  <2>5. PingOneWay'
    <3>1. CASE t # PingThread
      BY <1>2, <3>1, TwoThreads DEF IInv, Apart, PingOneWay
    <3>2. CASE t = PingThread
      <4>1. SUFFICES ASSUME NEW e \in Entries(todo'[t]), NEW f \in Entries(todo'[t]), e.op \in Falling
                     PROVE  f.op \in Falling \cup Closing
        BY <3>2 DEF PingOneWay
      <4>2. \A g \in Entries(todo[t]) : g.op \in Falling =>
                \A k \in Entries(todo[t]) : k.op \in Falling \cup Closing
        BY <3>2 DEF IInv, Apart, PingOneWay
      <4>3. Head(todo[t]).op \in Falling
        BY <1>4, <4>1, <4>2
      <4>4. QED
        BY <1>4, <4>1, <4>2, <4>3
    <3>3. QED
      BY <3>1, <3>2
  <2>6. QED
    BY <2>1, <2>2, <2>3, <2>4, <2>5 DEF Apart
<1>7. ASSUME NEW op, NEW c, Pending(op, c), ~(op = Head(todo[t]).op /\ c = Subject(t))
      PROVE  Pending(op, c)'
  <2>1. PICK s \in Threads : \E e \in Entries(todo[s]) : e.op = op /\ e.cand = c
    BY <1>7 DEF Pending
  <2>2. \E e \in Entries(todo'[s]) : e.op = op /\ e.cand = c
    BY <1>2, <1>4, <1>7, <2>1 DEF Subject
  <2>3. QED
    BY <2>1, <2>2 DEF Pending
<1>8. QED
  BY <1>2, <1>4, <1>5, <1>6, <1>7

\* No thread is about what another one is about; what it adds is announced.
LEMMA CallsElsewhere ==
    ASSUME IInv, NEW t \in Threads, todo[t] # <<>>
    PROVE  /\ Head(todo[t]) \in Entries(todo[t]) /\ Head(todo[t]) \in Calls
           /\ Subject(t) \in Candidates
           /\ \A s \in Threads \ {t} : \A e \in Entries(todo[s]) : e.cand # Subject(t)
           /\ ~Contended(t, Subject(t))
           /\ Head(todo[t]).op \notin Falling => told[Subject(t)]
           /\ t = MonitorThread /\ Head(todo[t]).op \in Falling => ~told[Subject(t)]
<1>1. \A s \in Threads : todo[s] \in Seq(Calls) /\ DOMAIN todo[s] = 1..Len(todo[s])
  BY LenProperties DEF IInv, TypeOK, RegistryTypeOK
<1>2. Head(todo[t]) \in Entries(todo[t]) /\ Head(todo[t]) \in Calls
  BY <1>1, EmptySeq, LenProperties DEF Entries
<1>3. Subject(t) \in Candidates
  BY <1>2 DEF Calls, Subject
<1>4. \A s \in Threads \ {t} : \A e \in Entries(todo[s]) : e.cand # Subject(t)
  BY <1>2, TwoThreads DEF IInv, Apart, PingIsAboutTargets, MonitorIsAboutOthers, Subject
<1>5. ~Contended(t, Subject(t))
  BY <1>1, <1>4 DEF Contended, About, Entries
<1>6. /\ Head(todo[t]).op \notin Falling => told[Subject(t)]
      /\ t = MonitorThread /\ Head(todo[t]).op \in Falling => ~told[Subject(t)]
  BY <1>2, <1>3, TwoThreads
     DEF IInv, Apart, TargetsAreTold, PingIsAboutTargets, MonitorIsAboutOthers, Subject
<1>7. QED
  BY <1>2, <1>3, <1>4, <1>5, <1>6

LEMMA EntriesAreCalls == ASSUME IInv PROVE \A t \in Threads : Entries(todo[t]) \subseteq Calls
<1>1. \A q \in Seq(Calls) : \A i \in 1..Len(q) : q[i] \in Calls
  BY ElementOfSeq
<1>2. QED
  BY <1>1 DEF IInv, TypeOK, RegistryTypeOK, Entries

LEMMA FewCalls ==
    /\ <<>> \in Seq(Calls)
    /\ \A a \in Calls : <<a>> \in Seq(Calls)
    /\ \A a, b \in Calls : <<a, b>> \in Seq(Calls)
    /\ \A c \in Candidates :
          \A op \in {"upsert", "gone", "probe", "submit", "bind", "unbind", "tell", "untell",
                     "monitor", "unlock"} :
              /\ Call(op, c) \in Calls
              /\ Call(op, c).op = op /\ Call(op, c).cand = c /\ Call(op, c).found = "none"
<1>1. <<>> \in Seq(Calls) /\ \A a \in Calls : <<a>> \in Seq(Calls)
  OBVIOUS
<1>2. \A a, b \in Calls : <<a, b>> \in Seq(Calls)
  OBVIOUS
<1>3. QED
  BY <1>1, <1>2 DEF Call, Calls, Findings

-----------------------------------------------------------------------------
(* The steps of the registry and its subscribers.                           *)

LEMMA UpsertKeeps ==
    ASSUME IInv, NEW t \in Threads, Upsert(t), UNCHANGED <<networkVars, told, pingVars>>
    PROVE  IInv'
<1> DEFINE c == Subject(t)
           calls == IF listening THEN <<Call("probe", c)>> ELSE <<>>
<1>1. /\ todo[t] # <<>> /\ Head(todo[t]).op = "upsert" /\ Continue(t, calls)
      /\ cand' = [cand EXCEPT ![c] = "present"]
      /\ UNCHANGED <<unit, bound, view, listening, overtaken, told, pingMutex, target>>
  BY DEF Upsert, Doing, Idle, pingVars
<1>2. c \in Candidates /\ told[c]
  BY <1>1, CallsElsewhere DEF Falling
<1>3. calls \in Seq(Calls) /\ \A e \in Entries(calls) : e.op = "probe" /\ e.cand = c
  BY <1>2, FewCalls, EntriesOfFew
<1> HIDE DEF calls
<1>4. /\ todo' \in [Threads -> Seq(Calls)] /\ Apart'
      /\ Entries(todo'[t]) \subseteq Entries(calls) \cup Entries(todo[t])
      /\ Entries(todo[t]) \subseteq {Head(todo[t])} \cup Entries(todo'[t])
      /\ \A s \in Threads \ {t} : todo'[s] = todo[s]
      /\ \A op, x : Pending(op, x) => Pending(op, x)' \/ (op = Head(todo[t]).op /\ x = Subject(t))
  BY <1>1, <1>3, CallKeepsApart DEF Falling, Closing
<1>5. TypeOK'
  BY <1>1, <1>2, <1>4 DEF IInv, TypeOK, RegistryTypeOK, networkVars, pingVars
<1>6. NeverOvertaken'
  BY <1>1 DEF IInv, NeverOvertaken
<1>7. AnnouncedIsThere'
  BY <1>1, <1>3, <1>4 DEF IInv, AnnouncedIsThere
<1>8. RemovedIsTold'
  BY <1>1, <1>2, <1>4 DEF IInv, RemovedIsTold, TypeOK, RegistryTypeOK
<1>9. DepartedIsGone'
  BY <1>1, <1>2, <1>4, TwoThreads DEF IInv, DepartedIsGone, TypeOK, RegistryTypeOK
<1>10. QED
  BY <1>4, <1>5, <1>6, <1>7, <1>8, <1>9 DEF IInv

LEMMA BindKeeps ==
    ASSUME IInv, NEW t \in Threads, Bind(t), UNCHANGED <<networkVars, told, pingVars>>
    PROVE  IInv'
<1> DEFINE c == Subject(t)
           calls == <<>>
<1>1. /\ todo[t] # <<>> /\ Head(todo[t]).op = "bind" /\ Continue(t, calls)
      /\ bound' = [bound EXCEPT ![c] = TRUE]
      /\ UNCHANGED <<cand, unit, view, listening, overtaken, told, pingMutex, target>>
  BY DEF Bind, Doing, Idle, pingVars
<1>2. c \in Candidates /\ unit[c] # "none"
  BY <1>1, CallsElsewhere DEF IInv, AnnouncedIsThere, Subject
<1>3. calls \in Seq(Calls) /\ Entries(calls) = {}
  BY FewCalls, EntriesOfFew
<1> HIDE DEF calls
<1>4. /\ todo' \in [Threads -> Seq(Calls)] /\ Apart'
      /\ Entries(calls) \subseteq Entries(todo'[t])
      /\ Entries(todo'[t]) \subseteq Entries(calls) \cup Entries(todo[t])
      /\ Entries(todo[t]) \subseteq {Head(todo[t])} \cup Entries(todo'[t])
      /\ \A s \in Threads \ {t} : todo'[s] = todo[s]
      /\ \A op, x : Pending(op, x) => Pending(op, x)' \/ (op = Head(todo[t]).op /\ x = c)
  BY <1>1, <1>3, CallKeepsApart DEF Closing
<1>5. TypeOK'
  BY <1>1, <1>2, <1>4 DEF IInv, TypeOK, RegistryTypeOK, networkVars, pingVars
<1>6. NeverOvertaken' /\ AnnouncedIsThere'
  BY <1>1, <1>3, <1>4 DEF IInv, NeverOvertaken, AnnouncedIsThere
<1>7. RemovedIsTold'
  BY <1>1, <1>2, <1>4 DEF IInv, RemovedIsTold, TypeOK, RegistryTypeOK
<1>8. DepartedIsGone'
  BY <1>1, <1>4, TwoThreads DEF IInv, DepartedIsGone
<1>9. QED
  BY <1>4, <1>5, <1>6, <1>7, <1>8 DEF IInv

LEMMA UnbindKeeps ==
    ASSUME IInv, NEW t \in Threads, Unbind(t), UNCHANGED <<networkVars, told, pingVars>>
    PROVE  IInv'
<1> DEFINE c == Subject(t)
           calls == <<>>
<1>1. /\ todo[t] # <<>> /\ Head(todo[t]).op = "unbind" /\ Continue(t, calls)
      /\ bound' = [bound EXCEPT ![c] = FALSE]
      /\ UNCHANGED <<cand, unit, view, listening, overtaken, told, pingMutex, target>>
  BY DEF Unbind, Doing, Idle, pingVars
<1>2. c \in Candidates
  BY <1>1, CallsElsewhere
<1>3. calls \in Seq(Calls) /\ Entries(calls) = {}
  BY FewCalls, EntriesOfFew
<1> HIDE DEF calls
<1>4. /\ todo' \in [Threads -> Seq(Calls)] /\ Apart'
      /\ Entries(calls) \subseteq Entries(todo'[t])
      /\ Entries(todo'[t]) \subseteq Entries(calls) \cup Entries(todo[t])
      /\ Entries(todo[t]) \subseteq {Head(todo[t])} \cup Entries(todo'[t])
      /\ \A s \in Threads \ {t} : todo'[s] = todo[s]
      /\ \A op, x : Pending(op, x) => Pending(op, x)' \/ (op = Head(todo[t]).op /\ x = c)
  BY <1>1, <1>3, CallKeepsApart DEF Closing
<1>5. TypeOK'
  BY <1>1, <1>2, <1>4 DEF IInv, TypeOK, RegistryTypeOK, networkVars, pingVars
<1>6. NeverOvertaken' /\ AnnouncedIsThere'
  BY <1>1, <1>3, <1>4 DEF IInv, NeverOvertaken, AnnouncedIsThere
<1>7. RemovedIsTold'
  BY <1>1, <1>2, <1>4 DEF IInv, RemovedIsTold, TypeOK, RegistryTypeOK
<1>8. DepartedIsGone'
  BY <1>1, <1>4, TwoThreads DEF IInv, DepartedIsGone
<1>9. QED
  BY <1>4, <1>5, <1>6, <1>7, <1>8 DEF IInv

LEMMA TellKeeps ==
    ASSUME IInv, NEW t \in Threads, Tell(t), UNCHANGED <<networkVars, told, pingVars>>
    PROVE  IInv'
<1> DEFINE c == Subject(t)
           calls == <<>>
<1>1. /\ todo[t] # <<>> /\ Head(todo[t]).op \in {"tell", "untell"} /\ Continue(t, calls)
      /\ view' = [view EXCEPT ![c] = (Head(todo[t]).op = "tell")]
      /\ UNCHANGED <<cand, unit, bound, listening, overtaken, told, pingMutex, target>>
  BY DEF Tell, Doing, Idle, pingVars
<1>2. c \in Candidates /\ (Head(todo[t]).op = "tell" => unit[c] # "none")
  BY <1>1, CallsElsewhere DEF IInv, AnnouncedIsThere, Subject
<1>3. calls \in Seq(Calls) /\ Entries(calls) = {}
  BY FewCalls, EntriesOfFew
<1> HIDE DEF calls
<1>4. /\ todo' \in [Threads -> Seq(Calls)] /\ Apart'
      /\ Entries(calls) \subseteq Entries(todo'[t])
      /\ Entries(todo'[t]) \subseteq Entries(calls) \cup Entries(todo[t])
      /\ Entries(todo[t]) \subseteq {Head(todo[t])} \cup Entries(todo'[t])
      /\ \A s \in Threads \ {t} : todo'[s] = todo[s]
      /\ \A op, x : Pending(op, x) => Pending(op, x)' \/ (op = Head(todo[t]).op /\ x = c)
  BY <1>1, <1>3, CallKeepsApart DEF Closing
<1>5. TypeOK'
  BY <1>1, <1>2, <1>4 DEF IInv, TypeOK, RegistryTypeOK, networkVars, pingVars
<1>6. NeverOvertaken' /\ AnnouncedIsThere'
  BY <1>1, <1>3, <1>4 DEF IInv, NeverOvertaken, AnnouncedIsThere
<1>7. RemovedIsTold'
  BY <1>1, <1>2, <1>4 DEF IInv, RemovedIsTold, TypeOK, RegistryTypeOK
<1>8. DepartedIsGone'
  BY <1>1, <1>4, TwoThreads DEF IInv, DepartedIsGone
<1>9. QED
  BY <1>4, <1>5, <1>6, <1>7, <1>8 DEF IInv

LEMMA ProbeKeeps ==
    ASSUME IInv, NEW t \in Threads, NEW found \in Findings, Probe(t, found),
           UNCHANGED <<networkVars, told, pingVars>>
    PROVE  IInv'
<1> DEFINE c == Subject(t)
           calls == IF found = "none" THEN <<>> ELSE <<[Call("submit", c) EXCEPT !.found = found]>>
<1>1. /\ todo[t] # <<>> /\ Head(todo[t]).op = "probe" /\ Continue(t, calls)
      /\ UNCHANGED <<cand, unit, bound, view, listening, overtaken, told, pingMutex, target>>
  BY DEF Probe, Doing, Idle, pingVars
<1>2. c \in Candidates
  BY <1>1, CallsElsewhere
<1>3. /\ calls \in Seq(Calls)
      /\ \A e \in Entries(calls) : e.op = "submit" /\ e.cand = c /\ e.found # "none"
  <2>1. CASE found = "none"
    BY <2>1, FewCalls, EntriesOfFew
  <2>2. CASE found # "none"
    <3> DEFINE e == [Call("submit", c) EXCEPT !.found = found]
    <3>1. e \in Calls /\ e.op = "submit" /\ e.cand = c /\ e.found # "none"
      BY <1>2, <2>2 DEF Call, Calls
    <3> HIDE DEF e
    <3>2. <<e>> \in Seq(Calls) /\ Entries(<<e>>) = {e}
      BY <3>1, FewCalls, EntriesOfFew
    <3>3. QED
      BY <2>2, <3>1, <3>2 DEF e
  <2>3. QED
    BY <2>1, <2>2
<1> HIDE DEF calls
<1>4. /\ todo' \in [Threads -> Seq(Calls)] /\ Apart'
      /\ Entries(calls) \subseteq Entries(todo'[t])
      /\ Entries(todo'[t]) \subseteq Entries(calls) \cup Entries(todo[t])
      /\ Entries(todo[t]) \subseteq {Head(todo[t])} \cup Entries(todo'[t])
      /\ \A s \in Threads \ {t} : todo'[s] = todo[s]
      /\ \A op, x : Pending(op, x) => Pending(op, x)' \/ (op = Head(todo[t]).op /\ x = c)
  BY <1>1, <1>3, CallKeepsApart DEF Closing, Falling
<1>5. TypeOK'
  BY <1>1, <1>2, <1>4 DEF IInv, TypeOK, RegistryTypeOK, networkVars, pingVars
<1>6. NeverOvertaken' /\ AnnouncedIsThere'
  BY <1>1, <1>3, <1>4 DEF IInv, NeverOvertaken, AnnouncedIsThere
<1>7. RemovedIsTold'
  BY <1>1, <1>2, <1>4 DEF IInv, RemovedIsTold
<1>8. DepartedIsGone'
  BY <1>1, <1>4, TwoThreads DEF IInv, DepartedIsGone
<1>9. QED
  BY <1>4, <1>5, <1>6, <1>7, <1>8 DEF IInv

LEMMA SubmitKeeps ==
    ASSUME IInv, NEW t \in Threads, Submit(t), UNCHANGED <<networkVars, told, pingVars>>
    PROVE  IInv'
<1> DEFINE c == Subject(t)
           found == Head(todo[t]).found
           calls == IF cand[c] # "unknown" /\ unit[c] \in {"none", found}
                    THEN <<Call("bind", c), Call("tell", c)>> ELSE <<>>
<1>1. /\ todo[t] # <<>> /\ Head(todo[t]).op = "submit" /\ Continue(t, calls)
      /\ unit' = [unit EXCEPT ![c] = IF cand[c] = "unknown" THEN @ ELSE found]
      /\ overtaken' = [overtaken EXCEPT ![c] = @ \/ Contended(t, c)]
      /\ UNCHANGED <<cand, bound, view, listening, told, pingMutex, target>>
  BY DEF Submit, Doing, Idle, pingVars
<1>2. c \in Candidates /\ told[c] /\ ~Contended(t, c) /\ found \in Findings /\ found # "none"
  BY <1>1, CallsElsewhere DEF Falling, Calls, IInv, AnnouncedIsThere
<1>3. /\ calls \in Seq(Calls)
      /\ \A e \in Entries(calls) : e.op \in {"bind", "tell"} /\ e.cand = c /\ cand[c] # "unknown"
  <2>1. /\ Call("bind", c) \in Calls /\ Call("bind", c).op = "bind" /\ Call("bind", c).cand = c
        /\ Call("tell", c) \in Calls /\ Call("tell", c).op = "tell" /\ Call("tell", c).cand = c
    BY <1>2, FewCalls
  <2>2. QED
    BY <2>1, FewCalls, EntriesOfFew
<1> HIDE DEF calls, found
<1>4. /\ todo' \in [Threads -> Seq(Calls)] /\ Apart'
      /\ Entries(calls) \subseteq Entries(todo'[t])
      /\ Entries(todo'[t]) \subseteq Entries(calls) \cup Entries(todo[t])
      /\ Entries(todo[t]) \subseteq {Head(todo[t])} \cup Entries(todo'[t])
      /\ \A s \in Threads \ {t} : todo'[s] = todo[s]
      /\ \A op, x : Pending(op, x) => Pending(op, x)' \/ (op = Head(todo[t]).op /\ x = c)
  BY <1>1, <1>3, CallKeepsApart DEF Closing, Falling
<1>5. TypeOK' /\ NeverOvertaken'
  <2>1. \A x \in Candidates : overtaken'[x] = overtaken[x]
    BY <1>1, <1>2 DEF IInv, TypeOK, RegistryTypeOK
  <2>2. overtaken' \in [Candidates -> BOOLEAN]
    BY <1>1, <1>2 DEF IInv, TypeOK, RegistryTypeOK
  <2>3. unit' \in [Candidates -> Findings]
    BY <1>1, <1>2 DEF IInv, TypeOK, RegistryTypeOK
  <2>4. QED
    BY <1>1, <1>4, <2>1, <2>2, <2>3
       DEF IInv, TypeOK, RegistryTypeOK, NeverOvertaken, networkVars, pingVars
<1>6. /\ \A x \in Candidates : unit'[x] = IF x = c /\ cand[c] # "unknown" THEN found ELSE unit[x]
  BY <1>1, <1>2 DEF IInv, TypeOK, RegistryTypeOK
<1>7. AnnouncedIsThere'
  <2>1. ASSUME NEW s \in Threads, NEW e \in Entries(todo'[s])
        PROVE  /\ e.op = "submit" => e.found # "none"
               /\ e.op \in {"bind", "tell"} => unit'[e.cand] # "none"
    <3>1. CASE e \in Entries(calls)
      BY <1>2, <1>3, <1>6, <3>1
    <3>2. CASE e \in Entries(todo[s])
      <4>1. e.cand \in Candidates
        BY <3>2, EntriesAreCalls DEF Calls
      <4>2. QED
        BY <1>2, <1>6, <3>2, <4>1 DEF IInv, AnnouncedIsThere
    <3>3. QED
      BY <1>4, <3>1, <3>2
  <2>2. QED
    BY <2>1 DEF AnnouncedIsThere
<1>8. RemovedIsTold'
  BY <1>1, <1>2, <1>4, <1>6 DEF IInv, RemovedIsTold
<1>9. DepartedIsGone'
  BY <1>1, <1>2, <1>4, <1>6, TwoThreads DEF IInv, DepartedIsGone
<1>10. QED
  BY <1>4, <1>5, <1>7, <1>8, <1>9 DEF IInv

LEMMA MarkGoneKeeps ==
    ASSUME IInv, NEW t \in Threads, MarkGone(t), UNCHANGED <<networkVars, told, pingVars>>
    PROVE  IInv'
<1> DEFINE c == Subject(t)
           calls == IF unit'[c] # unit[c] THEN <<Call("unbind", c), Call("untell", c)>> ELSE <<>>
<1>1. /\ todo[t] # <<>> /\ Head(todo[t]).op = "gone" /\ Continue(t, calls)
      /\ cand' = [cand EXCEPT ![c] = IF @ = "unknown" THEN @ ELSE "gone"]
      /\ unit' = [unit EXCEPT ![c] = IF cand[c] = "unknown" THEN @ ELSE "none"]
      /\ overtaken' = [overtaken EXCEPT ![c] = (@ /\ unit[c] = "none") \/ Contended(t, c)]
      /\ UNCHANGED <<bound, view, listening, told, pingMutex, target>>
  BY DEF MarkGone, Doing, Idle, pingVars
<1>2. c \in Candidates /\ ~Contended(t, c) /\ Head(todo[t]) \in Entries(todo[t])
  BY <1>1, CallsElsewhere
<1>3. /\ cand' \in [Candidates -> {"unknown", "present", "gone"}] /\ unit' \in [Candidates -> Findings]
      /\ overtaken' \in [Candidates -> BOOLEAN]
      /\ \A x \in Candidates : x # c => cand'[x] = cand[x] /\ unit'[x] = unit[x] /\ overtaken'[x] = overtaken[x]
      /\ unit'[c] = "none" /\ cand'[c] # "present" /\ ~overtaken'[c]
  BY <1>1, <1>2 DEF IInv, TypeOK, RegistryTypeOK, RemovedIsTold, NeverOvertaken, Findings
<1>4. /\ calls \in Seq(Calls)
      /\ \A e \in Entries(calls) : e.op \in {"unbind", "untell"} /\ e.cand = c
      /\ unit'[c] # unit[c] => Call("unbind", c) \in Entries(calls) /\ Call("untell", c) \in Entries(calls)
      /\ Call("unbind", c).op = "unbind" /\ Call("unbind", c).cand = c
      /\ Call("untell", c).op = "untell" /\ Call("untell", c).cand = c
  <2>1. /\ Call("unbind", c) \in Calls /\ Call("unbind", c).op = "unbind" /\ Call("unbind", c).cand = c
        /\ Call("untell", c) \in Calls /\ Call("untell", c).op = "untell" /\ Call("untell", c).cand = c
    BY <1>2, FewCalls
  <2>2. QED
    BY <2>1, FewCalls, EntriesOfFew
<1> HIDE DEF calls
<1>5. /\ todo' \in [Threads -> Seq(Calls)] /\ Apart'
      /\ Entries(calls) \subseteq Entries(todo'[t])
      /\ Entries(todo'[t]) \subseteq Entries(calls) \cup Entries(todo[t])
      /\ Entries(todo[t]) \subseteq {Head(todo[t])} \cup Entries(todo'[t])
      /\ \A s \in Threads \ {t} : todo'[s] = todo[s]
      /\ \A op, x : Pending(op, x) => Pending(op, x)' \/ (op = Head(todo[t]).op /\ x = c)
  BY <1>1, <1>4, CallKeepsApart DEF Closing, Falling
<1>6. TypeOK'
  BY <1>1, <1>3, <1>5 DEF IInv, TypeOK, RegistryTypeOK, networkVars, pingVars
<1>7. NeverOvertaken'
  BY <1>3 DEF IInv, NeverOvertaken
<1>8. AnnouncedIsThere'
  <2>1. ASSUME NEW s \in Threads, NEW e \in Entries(todo'[s])
        PROVE  /\ e.op = "submit" => e.found # "none"
               /\ e.op \in {"bind", "tell"} => unit'[e.cand] # "none"
    <3>1. CASE e \in Entries(calls)
      BY <1>4, <3>1
    <3>2. CASE e \in Entries(todo[s])
      <4>1. e.cand \in Candidates
        BY <3>2, EntriesAreCalls DEF Calls
      <4>2. ASSUME e.cand = c PROVE e.op \notin {"bind", "tell"}
        <5>1. s = t
          BY <1>1, <3>2, <4>2, CallsElsewhere
        <5>2. CASE t = MonitorThread
          BY <1>1, <1>2, <3>2, <4>2, <5>1, <5>2
             DEF IInv, Apart, MonitorIsAboutOthers, Subject, Falling
        <5>3. CASE t = PingThread
          BY <1>1, <1>2, <3>2, <5>1, <5>3 DEF IInv, Apart, PingOneWay, Falling, Closing
        <5>4. QED
          BY <5>2, <5>3, TwoThreads
      <4>3. QED
        BY <1>3, <3>2, <4>1, <4>2 DEF IInv, AnnouncedIsThere
    <3>3. QED
      BY <1>5, <3>1, <3>2
  <2>2. QED
    BY <2>1 DEF AnnouncedIsThere
<1>9. RemovedIsTold'
  <2>1. \A x \in Candidates : cand'[x] = "unknown" => unit'[x] = "none"
    BY <1>3 DEF IInv, RemovedIsTold
  <2>2. \A x : x = c /\ unit'[c] # unit[c] => Pending("unbind", x)' /\ Pending("untell", x)'
    BY <1>4, <1>5 DEF Pending
  <2>3. ASSUME NEW x \in Candidates, unit'[x] = "none"
        PROVE  (bound[x] => Pending("unbind", x)') /\ (view[x] => Pending("untell", x)')
    <3>1. CASE x = c /\ unit'[c] # unit[c]
      BY <2>2, <3>1
    <3>2. CASE unit[x] = "none"
      BY <1>1, <1>5, <3>2 DEF IInv, RemovedIsTold
    <3>3. QED
      BY <1>3, <2>3, <3>1, <3>2
  <2>4. QED
    BY <1>1, <2>1, <2>3 DEF RemovedIsTold
<1>10. DepartedIsGone'
  BY <1>1, <1>2, <1>3, <1>5, TwoThreads DEF IInv, DepartedIsGone, Subject
<1>11. QED
  BY <1>5, <1>6, <1>7, <1>8, <1>9, <1>10 DEF IInv

-----------------------------------------------------------------------------
(* The steps of the two threads' own code.                                  *)

\* While the mutex is free the ping thread has nothing to do.
LEMMA FreeMeansIdle ==
    ASSUME IInv, pingMutex = Free PROVE todo[PingThread] = <<>> /\ Entries(todo[PingThread]) = {}
BY TwoThreads, EntriesOfFew DEF IInv, Apart, PingHolds

LEMMA ClosingFew ==
    /\ ClosingIsLast(<<>>)
    /\ \A a : ClosingIsLast(<<a>>)
    /\ \A a, b : a.op \notin Closing => ClosingIsLast(<<a, b>>)
<1>1. ASSUME NEW a, NEW b, a.op \notin Closing PROVE ClosingIsLast(<<a, b>>)
  <2>1. 1..Len(<<a, b>>) = {1, 2}
    OBVIOUS
  <2>2. QED
    BY <1>1, <2>1 DEF ClosingIsLast
<1>2. ClosingIsLast(<<>>) /\ \A a : ClosingIsLast(<<a>>)
  BY DEF ClosingIsLast
<1>3. QED
  BY <1>1, <1>2

LEMMA ArrivedKeeps == ASSUME IInv, NEW c \in Candidates, Arrived(c) PROVE IInv'
<1> DEFINE calls == IF ipv4[c] THEN <<Call("upsert", c), Call("monitor", c)>>
                    ELSE <<Call("upsert", c)>>
<1>1. /\ todo[MonitorThread] = <<>> /\ ~told[c] /\ told' = [told EXCEPT ![c] = TRUE]
      /\ todo' = [todo EXCEPT ![MonitorThread] = calls]
      /\ UNCHANGED <<cand, unit, bound, view, listening, overtaken, pingMutex, target>>
  BY DEF Arrived, Idle, Return, KeepMaps, pingVars
<1>2. /\ calls \in Seq(Calls) /\ ClosingIsLast(calls)
      /\ \A e \in Entries(calls) : e.cand = c /\ e.op \in {"upsert", "monitor"}
  <2>1. /\ Call("upsert", c) \in Calls /\ Call("upsert", c).op = "upsert" /\ Call("upsert", c).cand = c
        /\ Call("monitor", c) \in Calls /\ Call("monitor", c).op = "monitor" /\ Call("monitor", c).cand = c
    BY FewCalls
  <2>2. CASE ipv4[c]
    BY <2>1, <2>2, FewCalls, EntriesOfFew, ClosingFew DEF Closing
  <2>3. CASE ~ipv4[c]
    BY <2>1, <2>3, FewCalls, EntriesOfFew, ClosingFew DEF Closing
  <2>4. QED
    BY <2>2, <2>3
<1> HIDE DEF calls
<1>3. /\ todo' \in [Threads -> Seq(Calls)] /\ todo'[MonitorThread] = calls
      /\ todo'[PingThread] = todo[PingThread] /\ Entries(todo[MonitorThread]) = {}
  BY <1>1, <1>2, TwoThreads, EntriesOfFew DEF IInv, TypeOK, RegistryTypeOK
<1>4. told' \in [Candidates -> BOOLEAN] /\ told'[c] /\ \A x \in Candidates : x # c => told'[x] = told[x]
  BY <1>1 DEF IInv, TypeOK
<1>5. TypeOK'
  BY <1>1, <1>3, <1>4 DEF Arrived, IInv, TypeOK, RegistryTypeOK, networkVars, pingVars
<1>6. Apart'
  <2>1. (\A t \in Threads : ClosingIsLast(todo[t]))' /\ PingHolds' /\ PingOneWay'
    BY <1>1, <1>2, <1>3, TwoThreads DEF IInv, Apart, PingHolds, PingOneWay
  <2>2. TargetsAreTold' /\ PingIsAboutTargets'
    BY <1>1, <1>3, <1>4 DEF IInv, Apart, TargetsAreTold, PingIsAboutTargets
  <2>3. MonitorIsAboutOthers'
    BY <1>1, <1>2, <1>3, <1>4 DEF IInv, Apart, TargetsAreTold, MonitorIsAboutOthers, Falling
  <2>4. QED
    BY <2>1, <2>2, <2>3 DEF Apart
<1>7. NeverOvertaken' /\ AnnouncedIsThere'
  BY <1>1, <1>2, <1>3, TwoThreads DEF IInv, NeverOvertaken, AnnouncedIsThere
<1>8. RemovedIsTold'
  <2>1. \A op, x : Pending(op, x) => Pending(op, x)'
    BY <1>3, TwoThreads DEF Pending
  <2>2. QED
    BY <1>1, <2>1 DEF IInv, RemovedIsTold
<1>9. DepartedIsGone'
  BY <1>1, <1>3, <1>4 DEF IInv, DepartedIsGone
<1>10. QED
  BY <1>5, <1>6, <1>7, <1>8, <1>9 DEF IInv

LEMMA DepartedKeeps == ASSUME IInv, NEW c \in Candidates, Departed(c) PROVE IInv'
<1> DEFINE calls == <<Call("gone", c)>>
<1>1. /\ todo[MonitorThread] = <<>> /\ pingMutex = Free
      /\ told' = [told EXCEPT ![c] = FALSE] /\ target' = [target EXCEPT ![c] = NoTarget]
      /\ todo' = [todo EXCEPT ![MonitorThread] = calls]
      /\ UNCHANGED <<cand, unit, bound, view, listening, overtaken, pingMutex>>
  BY DEF Departed, Idle, Return, KeepMaps
<1>2. /\ calls \in Seq(Calls) /\ ClosingIsLast(calls) /\ Call("gone", c) \in Entries(calls)
      /\ \A e \in Entries(calls) : e.cand = c /\ e.op = "gone"
  <2>1. Call("gone", c) \in Calls /\ Call("gone", c).op = "gone" /\ Call("gone", c).cand = c
    BY FewCalls
  <2>2. QED
    BY <2>1, FewCalls, EntriesOfFew, ClosingFew
<1> HIDE DEF calls
<1>3. /\ todo' \in [Threads -> Seq(Calls)] /\ todo'[MonitorThread] = calls
      /\ todo'[PingThread] = <<>> /\ Entries(todo'[PingThread]) = {}
      /\ Entries(todo[MonitorThread]) = {} /\ Entries(todo[PingThread]) = {}
  BY <1>1, <1>2, TwoThreads, EntriesOfFew, FreeMeansIdle DEF IInv, TypeOK, RegistryTypeOK
<1>4. told' \in [Candidates -> BOOLEAN] /\ ~told'[c] /\ \A x \in Candidates : x # c => told'[x] = told[x]
  BY <1>1 DEF IInv, TypeOK
<1>5. /\ target' \in [Candidates -> [tracked : BOOLEAN, gone : BOOLEAN,
                                     failures : 0..PingFailuresBeforeGone]]
      /\ ~target'[c].tracked /\ ~target'[c].gone
      /\ \A x \in Candidates : x # c => target'[x] = target[x]
  BY <1>1, MdnsAssumption DEF IInv, TypeOK, NoTarget, MdnsAssumption
<1>6. TypeOK'
  BY <1>1, <1>3, <1>4, <1>5 DEF Departed, IInv, TypeOK, RegistryTypeOK, networkVars
<1>7. Apart'
  <2>1. (\A t \in Threads : ClosingIsLast(todo[t]))' /\ PingHolds'
    BY <1>2, <1>3, TwoThreads, ClosingFew DEF PingHolds
  <2>2. TargetsAreTold'
    BY <1>4, <1>5 DEF IInv, Apart, TargetsAreTold
  <2>3. PingIsAboutTargets' /\ PingOneWay'
    BY <1>3 DEF PingIsAboutTargets, PingOneWay
  <2>4. MonitorIsAboutOthers'
    BY <1>2, <1>3, <1>4, <1>5 DEF MonitorIsAboutOthers, Falling
  <2>5. QED
    BY <2>1, <2>2, <2>3, <2>4 DEF Apart
<1>8. NeverOvertaken' /\ AnnouncedIsThere'
  BY <1>1, <1>2, <1>3, TwoThreads DEF IInv, NeverOvertaken, AnnouncedIsThere
<1>9. RemovedIsTold'
  <2>1. \A op, x : Pending(op, x) => Pending(op, x)'
    BY <1>3, TwoThreads DEF Pending
  <2>2. QED
    BY <1>1, <2>1 DEF IInv, RemovedIsTold
<1>10. DepartedIsGone'
  <2>1. Call("gone", c).op = "gone" /\ Call("gone", c).cand = c
    BY FewCalls
  <2>2. QED
    BY <1>1, <1>2, <1>3, <1>4, <2>1 DEF IInv, DepartedIsGone
<1>11. QED
  BY <1>6, <1>7, <1>8, <1>9, <1>10 DEF IInv

\* A call that closes is the last one a thread has to do.
LEMMA ClosingEnds ==
    ASSUME IInv, NEW t \in Threads, todo[t] # <<>>, Head(todo[t]).op \in Closing, Continue(t, <<>>)
    PROVE  /\ todo' \in [Threads -> Seq(Calls)] /\ todo'[t] = <<>> /\ Entries(todo'[t]) = {}
           /\ \A s \in Threads \ {t} : todo'[s] = todo[s]
           /\ Head(todo[t]) \in Entries(todo[t])
           /\ \A e \in Entries(todo[t]) : e = Head(todo[t])
           /\ \A op, x : Pending(op, x) /\ op \notin Closing => Pending(op, x)'
<1>1. todo \in [Threads -> Seq(Calls)] /\ todo[t] \in Seq(Calls) /\ ClosingIsLast(todo[t])
  BY DEF IInv, TypeOK, RegistryTypeOK, Apart
<1>2. todo'[t] = After(<<>>, todo[t]) /\ \A s \in Threads \ {t} : todo'[s] = todo[s]
  BY <1>1 DEF Continue, After
<1>3. /\ todo'[t] = <<>> /\ Head(todo[t]) \in Entries(todo[t])
      /\ Entries(todo[t]) \subseteq {Head(todo[t])} \cup Entries(todo'[t])
  <2> DEFINE none == <<>>
  <2>1. none \in Seq(Calls) /\ (\A e \in Entries(none) : e.op \notin Closing) /\ todo[t] # <<>>
    BY EntriesOfFew
  <2>2. todo'[t] = After(none, todo[t])
    BY <1>2
  <2> HIDE DEF none
  <2>3. /\ Head(todo[t]).op \in Closing => todo'[t] = none
        /\ Head(todo[t]) \in Entries(todo[t])
        /\ Entries(todo[t]) \subseteq {Head(todo[t])} \cup Entries(todo'[t])
    BY <1>1, <2>1, <2>2, Continued
  <2>4. QED
    BY <2>3 DEF none
<1>4. Entries(todo'[t]) = {}
  BY <1>3, EntriesOfFew
<1>5. todo' \in [Threads -> Seq(Calls)]
  BY <1>1, <1>2, <1>3, FewCalls DEF Continue
<1>6. \A e \in Entries(todo[t]) : e = Head(todo[t])
  BY <1>3, <1>4
<1>7. ASSUME NEW op, NEW x, Pending(op, x), op \notin Closing PROVE Pending(op, x)'
  <2>1. PICK s \in Threads : \E e \in Entries(todo[s]) : e.op = op /\ e.cand = x
    BY <1>7 DEF Pending
  <2>2. s # t
    BY <1>6, <1>7, <2>1
  <2>3. QED
    BY <1>2, <2>1, <2>2 DEF Pending
<1>8. QED
  BY <1>2, <1>3, <1>4, <1>5, <1>6, <1>7

LEMMA TrackKeeps == ASSUME IInv, Track PROVE IInv'
<1> DEFINE t == MonitorThread
           c == Subject(t)
<1>1. /\ t \in Threads /\ todo[t] # <<>> /\ Head(todo[t]).op = "monitor" /\ Continue(t, <<>>)
      /\ pingMutex = Free /\ target' = [target EXCEPT ![c] = NewTarget]
      /\ UNCHANGED <<cand, unit, bound, view, listening, overtaken, told, pingMutex>>
  BY TwoThreads DEF Track, Doing, Idle, KeepMaps
<1>2. c \in Candidates /\ told[c]
  BY <1>1, CallsElsewhere DEF Falling
<1>3. /\ todo' \in [Threads -> Seq(Calls)] /\ todo'[t] = <<>> /\ Entries(todo'[t]) = {}
      /\ todo'[PingThread] = <<>> /\ Entries(todo'[PingThread]) = {}
      /\ \A e \in Entries(todo[t]) : e.op = "monitor"
      /\ \A op, x : Pending(op, x) /\ op # "monitor" /\ op # "unlock" => Pending(op, x)'
  BY <1>1, ClosingEnds, FreeMeansIdle, TwoThreads DEF Closing
<1>4. /\ target' \in [Candidates -> [tracked : BOOLEAN, gone : BOOLEAN,
                                     failures : 0..PingFailuresBeforeGone]]
      /\ target'[c].tracked /\ ~target'[c].gone
      /\ \A x \in Candidates : x # c => target'[x] = target[x]
  BY <1>1, <1>2, MdnsAssumption DEF IInv, TypeOK, NewTarget, MdnsAssumption
<1>5. TypeOK'
  BY <1>1, <1>3, <1>4 DEF Track, IInv, TypeOK, RegistryTypeOK, networkVars
<1>6. Apart'
  <2>1. (\A s \in Threads : ClosingIsLast(todo[s]))' /\ PingHolds'
    BY <1>3, TwoThreads, ClosingFew DEF PingHolds
  <2>2. TargetsAreTold'
    BY <1>1, <1>2, <1>4 DEF IInv, Apart, TargetsAreTold
  <2>3. PingIsAboutTargets' /\ PingOneWay' /\ MonitorIsAboutOthers'
    BY <1>3 DEF PingIsAboutTargets, PingOneWay, MonitorIsAboutOthers
  <2>4. QED
    BY <2>1, <2>2, <2>3 DEF Apart
<1>7. NeverOvertaken' /\ AnnouncedIsThere'
  BY <1>1, <1>3, TwoThreads DEF IInv, NeverOvertaken, AnnouncedIsThere
<1>8. RemovedIsTold'
  BY <1>1, <1>3 DEF IInv, RemovedIsTold
<1>9. DepartedIsGone'
  BY <1>1, <1>3 DEF IInv, DepartedIsGone
<1>10. QED
  BY <1>5, <1>6, <1>7, <1>8, <1>9 DEF IInv

LEMMA UnlockKeeps == ASSUME IInv, Unlock PROVE IInv'
<1> DEFINE t == PingThread
<1>1. /\ t \in Threads /\ todo[t] # <<>> /\ Head(todo[t]).op = "unlock" /\ Continue(t, <<>>)
      /\ pingMutex' = Free
      /\ UNCHANGED <<cand, unit, bound, view, listening, overtaken, told, target>>
  BY TwoThreads DEF Unlock, Doing, Idle, KeepMaps
<1>2. /\ todo' \in [Threads -> Seq(Calls)] /\ todo'[t] = <<>> /\ Entries(todo'[t]) = {}
      /\ todo'[MonitorThread] = todo[MonitorThread]
      /\ \A op, x : Pending(op, x) /\ op # "monitor" /\ op # "unlock" => Pending(op, x)'
  BY <1>1, ClosingEnds, TwoThreads DEF Closing
<1>3. TypeOK'
  BY <1>1, <1>2 DEF Unlock, IInv, TypeOK, RegistryTypeOK, networkVars
<1>4. Apart'
  <2>1. (\A s \in Threads : ClosingIsLast(todo[s]))' /\ PingHolds'
    BY <1>2, TwoThreads, ClosingFew DEF IInv, Apart, PingHolds
  <2>2. TargetsAreTold' /\ MonitorIsAboutOthers'
    BY <1>1, <1>2 DEF IInv, Apart, TargetsAreTold, MonitorIsAboutOthers
  <2>3. PingIsAboutTargets' /\ PingOneWay'
    BY <1>2 DEF PingIsAboutTargets, PingOneWay
  <2>4. QED
    BY <2>1, <2>2, <2>3 DEF Apart
<1>5. NeverOvertaken' /\ AnnouncedIsThere'
  BY <1>1, <1>2, TwoThreads DEF IInv, NeverOvertaken, AnnouncedIsThere
<1>6. RemovedIsTold' /\ DepartedIsGone'
  BY <1>1, <1>2 DEF IInv, RemovedIsTold, DepartedIsGone
<1>7. QED
  BY <1>3, <1>4, <1>5, <1>6 DEF IInv

\* The ping thread, the mutex taken, begins to call the registry about a target.
LEMMA PingCallKeeps ==
    ASSUME IInv, pingMutex = Free, NEW c \in Candidates, target[c].tracked,
           NEW op \in {"upsert", "gone"}, pingMutex' = PingThread,
           todo' = [todo EXCEPT ![PingThread] = <<Call(op, c), Call("unlock", c)>>],
           NEW e \in [tracked : BOOLEAN, gone : BOOLEAN, failures : 0..PingFailuresBeforeGone],
           e.tracked, target' = [target EXCEPT ![c] = e], answer' = NoAnswer,
           UNCHANGED <<cand, unit, bound, view, listening, overtaken, told, networkVars, round>>
    PROVE  IInv'
<1> DEFINE calls == <<Call(op, c), Call("unlock", c)>>
<1>1. /\ calls \in Seq(Calls) /\ ClosingIsLast(calls)
      /\ \A k \in Entries(calls) : k.cand = c /\ k.op \in {op, "unlock"}
  <2>1. /\ Call(op, c) \in Calls /\ Call(op, c).op = op /\ Call(op, c).cand = c
        /\ Call("unlock", c) \in Calls /\ Call("unlock", c).op = "unlock" /\ Call("unlock", c).cand = c
    BY FewCalls
  <2>2. QED
    BY <2>1, FewCalls, EntriesOfFew, ClosingFew DEF Closing
<1>2. todo' = [todo EXCEPT ![PingThread] = calls]
  OBVIOUS
<1> HIDE DEF calls
<1>3. /\ todo' \in [Threads -> Seq(Calls)] /\ todo'[PingThread] = calls
      /\ todo'[MonitorThread] = todo[MonitorThread] /\ Entries(todo[PingThread]) = {}
  <2>1. Entries(todo[PingThread]) = {}
    BY FreeMeansIdle
  <2>2. todo \in [Threads -> Seq(Calls)]
    BY DEF IInv, TypeOK, RegistryTypeOK
  <2>3. QED
    BY <1>1, <1>2, <2>1, <2>2, TwoThreads
<1>4. /\ target' \in [Candidates -> [tracked : BOOLEAN, gone : BOOLEAN,
                                     failures : 0..PingFailuresBeforeGone]]
      /\ target'[c].tracked /\ \A x \in Candidates : x # c => target'[x] = target[x]
  BY DEF IInv, TypeOK
<1>5. TypeOK'
  BY <1>3, <1>4 DEF IInv, TypeOK, RegistryTypeOK, networkVars
<1>6. Apart'
  <2>1. (\A s \in Threads : ClosingIsLast(todo[s]))' /\ PingHolds'
    BY <1>1, <1>3, TwoThreads DEF IInv, Apart, PingHolds
  <2>2. TargetsAreTold'
    BY <1>4 DEF IInv, Apart, TargetsAreTold
  <2>3. PingIsAboutTargets' /\ PingOneWay'
    BY <1>1, <1>3, <1>4 DEF PingIsAboutTargets, PingOneWay, Falling, Closing
  <2>4. MonitorIsAboutOthers'
    <3>1. \A k \in Entries(todo[MonitorThread]) : k.cand \in Candidates /\ k.cand # c
      BY EntriesAreCalls, TwoThreads DEF Calls, IInv, Apart, MonitorIsAboutOthers
    <3>2. QED
      BY <1>3, <1>4, <3>1 DEF IInv, Apart, MonitorIsAboutOthers
  <2>5. QED
    BY <2>1, <2>2, <2>3, <2>4 DEF Apart
<1>7. NeverOvertaken' /\ AnnouncedIsThere'
  BY <1>1, <1>3, TwoThreads DEF IInv, NeverOvertaken, AnnouncedIsThere
<1>8. RemovedIsTold'
  <2>1. \A o, x : Pending(o, x) => Pending(o, x)'
    BY <1>3, TwoThreads DEF Pending
  <2>2. QED
    BY <2>1 DEF IInv, RemovedIsTold
<1>9. DepartedIsGone'
  BY <1>3 DEF IInv, DepartedIsGone
<1>10. QED
  BY <1>5, <1>6, <1>7, <1>8, <1>9 DEF IInv

LEMMA RecoveredKeeps == ASSUME IInv, Recovered PROVE IInv'
<1>1. answer.cand \in Candidates /\ target[answer.cand].tracked
  BY DEF Recovered, IInv, TypeOK, Apart, TargetsAreTold
<1>2. NewTarget \in [tracked : BOOLEAN, gone : BOOLEAN, failures : 0..PingFailuresBeforeGone]
  BY MdnsAssumption DEF NewTarget, MdnsAssumption
<1>3. QED
  BY <1>1, <1>2, PingCallKeeps DEF Recovered, Return, KeepMaps, NewTarget

LEMMA LostKeeps == ASSUME IInv, Lost PROVE IInv'
<1> DEFINE c == answer.cand
           e == [target[c] EXCEPT !.failures = Failures(c), !.gone = TRUE]
<1>1. c \in Candidates /\ target[c].tracked
  BY DEF Lost, IInv, TypeOK
<1>2. e \in [tracked : BOOLEAN, gone : BOOLEAN, failures : 0..PingFailuresBeforeGone] /\ e.tracked
  <2>1. Failures(c) \in 0..PingFailuresBeforeGone
    BY MdnsAssumption DEF Lost, MdnsAssumption
  <2>2. target[c] \in [tracked : BOOLEAN, gone : BOOLEAN, failures : 0..PingFailuresBeforeGone]
    BY <1>1 DEF IInv, TypeOK
  <2>3. QED
    BY <1>1, <2>1, <2>2
<1>3. /\ pingMutex = Free /\ target' = [target EXCEPT ![c] = e] /\ pingMutex' = PingThread
      /\ todo' = [todo EXCEPT ![PingThread] = <<Call("gone", c), Call("unlock", c)>>]
      /\ answer' = NoAnswer
      /\ UNCHANGED <<cand, unit, bound, view, listening, overtaken, told, networkVars, round>>
  BY DEF Lost, Return, KeepMaps
<1> HIDE DEF c, e
<1>4. QED
  BY <1>1, <1>2, <1>3, PingCallKeeps

\* Steps that change nothing the invariant is about.
LEMMA NothingMoves ==
    ASSUME IInv, TypeOK', UNCHANGED <<cand, unit, bound, view, overtaken, todo, told, pingMutex>>,
           \A c \in Candidates : /\ target'[c].tracked <=> target[c].tracked
                                 /\ target'[c].gone <=> target[c].gone
    PROVE  IInv'
<1>1. \A t \in Threads : \A e \in Entries(todo[t]) : e.cand \in Candidates
  BY EntriesAreCalls DEF Calls
<1>2. Apart'
  <2>1. (\A t \in Threads : ClosingIsLast(todo[t]))' /\ PingHolds' /\ PingOneWay'
    BY DEF IInv, Apart, PingHolds, PingOneWay
  <2>2. TargetsAreTold' /\ PingIsAboutTargets' /\ MonitorIsAboutOthers'
    BY <1>1, TwoThreads DEF IInv, Apart, TargetsAreTold, PingIsAboutTargets, MonitorIsAboutOthers
  <2>3. QED
    BY <2>1, <2>2 DEF Apart
<1>3. NeverOvertaken' /\ AnnouncedIsThere' /\ RemovedIsTold' /\ DepartedIsGone'
  BY DEF IInv, NeverOvertaken, AnnouncedIsThere, RemovedIsTold, DepartedIsGone, Pending
<1>4. QED
  BY <1>2, <1>3 DEF IInv

LEMMA AnswerNotedKeeps == ASSUME IInv, AnswerNoted PROVE IInv'
<1> DEFINE c == answer.cand
           f == IF answer.alive THEN 0 ELSE Failures(c)
<1>1. c \in Candidates
  BY DEF AnswerNoted, IInv, TypeOK
<1>2. target[c] \in [tracked : BOOLEAN, gone : BOOLEAN, failures : 0..PingFailuresBeforeGone]
  BY <1>1 DEF IInv, TypeOK
<1>3. f \in 0..PingFailuresBeforeGone
  <2>1. target[c].failures \in 0..PingFailuresBeforeGone
    BY <1>2
  <2>2. QED
    BY <2>1, MdnsAssumption DEF MdnsAssumption, Failures
<1>4. target' = IF ~target[c].tracked THEN target ELSE [target EXCEPT ![c].failures = f]
  BY DEF AnswerNoted
<1> HIDE DEF f
<1>5. /\ target' \in [Candidates -> [tracked : BOOLEAN, gone : BOOLEAN,
                                     failures : 0..PingFailuresBeforeGone]]
      /\ \A x \in Candidates : target'[x].tracked = target[x].tracked /\ target'[x].gone = target[x].gone
  BY <1>1, <1>3, <1>4 DEF IInv, TypeOK
<1>6. TypeOK'
  BY <1>5 DEF AnswerNoted, IInv, TypeOK, RegistryTypeOK, registryVars, networkVars
<1>7. QED
  BY <1>5, <1>6, NothingMoves DEF AnswerNoted, registryVars

LEMMA OtherStepsKeep ==
    ASSUME IInv, \/ \E c \in Candidates : NetworkChanges(c) \/ Ping(c)
                 \/ StartScheduler \/ StartRound
    PROVE  IInv'
<1>1. ASSUME NEW c \in Candidates, NetworkChanges(c) PROVE IInv'
  <2>1. TypeOK'
    <3>1. changes' \in 0..MaxChanges
      BY <1>1, MdnsAssumption DEF NetworkChanges, IInv, TypeOK, MdnsAssumption
    <3>2. /\ announced' \in [Candidates -> BOOLEAN] /\ alive' \in [Candidates -> BOOLEAN]
          /\ agent' \in [Candidates -> BOOLEAN] /\ ipv4' \in [Candidates -> BOOLEAN]
      BY <1>1 DEF NetworkChanges, Flip, IInv, TypeOK
    <3>3. QED
      BY <1>1, <3>1, <3>2 DEF NetworkChanges, IInv, TypeOK, RegistryTypeOK, registryVars, pingVars
  <2>2. QED
    BY <1>1, <2>1, NothingMoves DEF NetworkChanges, registryVars, pingVars
<1>2. ASSUME NEW c \in Candidates, Ping(c) PROVE IInv'
  <2>1. TypeOK'
    BY <1>2 DEF Ping, IInv, TypeOK, RegistryTypeOK, registryVars, networkVars
  <2>2. QED
    BY <1>2, <2>1, NothingMoves DEF Ping, registryVars
<1>3. CASE StartScheduler
  <2>1. TypeOK'
    BY <1>3 DEF StartScheduler, Listen, IInv, TypeOK, RegistryTypeOK, networkVars, pingVars
  <2>2. QED
    BY <1>3, <2>1, NothingMoves DEF StartScheduler, Listen, pingVars
<1>4. CASE StartRound
  <2>1. TypeOK'
    BY <1>4 DEF StartRound, IInv, TypeOK, RegistryTypeOK, registryVars, networkVars
  <2>2. QED
    BY <1>4, <2>1, NothingMoves DEF StartRound, registryVars
<1>5. QED
  BY <1>1, <1>2, <1>3, <1>4

LEMMA CallStepKeeps == ASSUME IInv, NEW t \in Threads, CallStep(t) \/ ProbeStep(t) PROVE IInv'
<1>1. CASE CallStep(t)
  BY <1>1, UpsertKeeps, MarkGoneKeeps, SubmitKeeps, BindKeeps, UnbindKeeps, TellKeeps
     DEF CallStep, RegistryStep
<1>2. CASE ProbeStep(t)
  <2>1. PICK found \in Findings : Probe(t, found)
    BY <1>2 DEF ProbeStep, Findings
  <2>2. QED
    BY <1>2, <2>1, ProbeKeeps DEF ProbeStep
<1>3. QED
  BY <1>1, <1>2

-----------------------------------------------------------------------------
(* The theorems.                                                            *)

\* The inductive invariant holds in every reachable state.
THEOREM ProviderInvariance == Spec => []IInv
<1>1. Init => IInv
  <2> SUFFICES ASSUME Init PROVE IInv
    OBVIOUS
  <2>1. \A t \in Threads : todo[t] = <<>> /\ Entries(todo[t]) = {}
    BY EntriesOfFew DEF Init, InitRegistry
  <2>2. TypeOK
    <3>1. RegistryTypeOK
      BY FewCalls DEF Init, InitRegistry, RegistryTypeOK, Findings
    <3>2. /\ target \in [Candidates -> [tracked : BOOLEAN, gone : BOOLEAN,
                                        failures : 0..PingFailuresBeforeGone]]
          /\ changes \in 0..MaxChanges
      BY MdnsAssumption DEF Init, NoTarget, MdnsAssumption
    <3>3. QED
      BY <3>1, <3>2 DEF Init, TypeOK
  <2>3. Apart
    BY <2>1, TwoThreads, ClosingFew
       DEF Init, NoTarget, Apart, PingHolds, TargetsAreTold, PingIsAboutTargets, MonitorIsAboutOthers, PingOneWay
  <2>4. NeverOvertaken /\ AnnouncedIsThere /\ RemovedIsTold /\ DepartedIsGone
    BY <2>1 DEF Init, InitRegistry, NeverOvertaken, AnnouncedIsThere, RemovedIsTold, DepartedIsGone
  <2>5. QED
    BY <2>2, <2>3, <2>4 DEF IInv
<1>2. IInv /\ [Next]_mdnsVars => IInv'
  <2> SUFFICES ASSUME IInv, [Next]_mdnsVars PROVE IInv'
    OBVIOUS
  <2>1. CASE MonitorStep
    BY <2>1, CallStepKeeps, TrackKeeps, ArrivedKeeps, DepartedKeeps, TwoThreads DEF MonitorStep
  <2>2. CASE PingStep
    BY <2>2, CallStepKeeps, OtherStepsKeep, AnswerNotedKeeps, RecoveredKeeps, LostKeeps, UnlockKeeps,
       TwoThreads DEF PingStep
  <2>3. CASE UNCHANGED mdnsVars
    <3>1. TypeOK'
      BY <2>3 DEF IInv, TypeOK, RegistryTypeOK, mdnsVars, registryVars, networkVars, pingVars
    <3>2. QED
      BY <2>3, <3>1, NothingMoves DEF mdnsVars, registryVars, pingVars
  <2>4. QED
    BY <2>1, <2>2, <2>3, OtherStepsKeep DEF Next
<1>3. QED
  BY <1>1, <1>2, PTL DEF Spec

\* The state keeps its shape (TypeOK), for any number of services and changes.
THEOREM ProviderTypeCorrect == Spec => []TypeOK
<1>1. IInv => TypeOK
  BY DEF IInv
<1>2. QED
  BY <1>1, ProviderInvariance, PTL

\* The two threads never work on the same service at the same time (NeverOvertaken), although
\* the monitor's thread calls the registry without ping_mutex_.
THEOREM ThreadsNeverMeet == Spec => []NeverOvertaken
<1>1. IInv => NeverOvertaken
  BY DEF IInv
<1>2. QED
  BY <1>1, ProviderInvariance, PTL

\* A departure that has been handled leaves no candidate, unit, scanner or entry of the
\* service (DepartedLeavesNothing), whatever the ping thread was doing meanwhile.
THEOREM NothingIsLeft == Spec => []DepartedLeavesNothing
<1>1. IInv => DepartedLeavesNothing
  <2> SUFFICES ASSUME IInv, NEW c \in Candidates, ~told[c], todo[MonitorThread] = <<>>
               PROVE  cand[c] # "present" /\ unit[c] = "none" /\ ~bound[c] /\ ~view[c]
    BY DEF DepartedLeavesNothing, Idle
  <2>1. Entries(todo[MonitorThread]) = {}
    BY EntriesOfFew
  <2>2. cand[c] # "present" /\ unit[c] = "none"
    BY <2>1 DEF IInv, DepartedIsGone
  <2>3. \A e \in Entries(todo[PingThread]) : e.cand # c
    BY DEF IInv, Apart, TargetsAreTold, PingIsAboutTargets
  <2>4. \A op : ~Pending(op, c)
    BY <2>1, <2>3, TwoThreads DEF Pending
  <2>5. ~bound[c] /\ ~view[c]
    BY <2>2, <2>4 DEF IInv, RemovedIsTold
  <2>6. QED
    BY <2>2, <2>5
<1>2. QED
  BY <1>1, ProviderInvariance, PTL
=============================================================================
