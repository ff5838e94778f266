--------------------------- MODULE InventoryProofs ---------------------------
(***************************************************************************)
(* Proofs about Inventory, for any number of serial and Bluetooth devices  *)
(* and of changes: whatever the providers' threads and the reprobe thread  *)
(* do to each other, registry, scanner manager and client agree about a    *)
(* unit once nothing about it is under way.                                *)
(***************************************************************************)
EXTENDS Inventory, SequenceTheorems, FiniteSetTheorems, TLAPS

Entries(s) == {s[i] : i \in 1..Len(s)}

-----------------------------------------------------------------------------
(* The inductive invariant.                                                 *)

\* The calls of a thread: one event's deliveries, a submission or a monitor's call comes
\* first; what follows are the probes of a listing.
CallOrder(s) ==
    \A i \in 1..Len(s) :
        /\ s[i].op # "probe" => i = 1 \/ (i = 2 /\ s[1].op \in {"bind", "unbind"})
        /\ s[i].op \in {"upsert", "gone"} => Len(s) = 1
        /\ s[i].op = "submit" => s[i].found # "none"

Pending(op, c) == \E t \in Threads : \E e \in Entries(todo[t]) : e.op = op /\ e.cand = c

\* A candidate that is probed, or that has a unit, is present.
PresentIfProbed(c) ==
    /\ unit[c] # "none" => cand[c] = "present"
    /\ Pending("probe", c) \/ Pending("submit", c) => cand[c] = "present"

\* The events on their way are of the unit as it is.
EventsAreCurrent(c) ==
    /\ Pending("bind", c) \/ Pending("tell", c) => unit[c] # "none"
    /\ Pending("unbind", c) \/ Pending("untell", c) => unit[c] = "none"

\* A subscriber that waits for no event knows whether there is a unit.
SubscribersAgree(c) ==
    /\ ~Pending("bind", c) /\ ~Pending("unbind", c) => (bound[c] <=> unit[c] # "none")
    /\ ~Pending("tell", c) /\ ~Pending("untell", c) => (view[c] <=> unit[c] # "none")

AgreeOn(c) == PresentIfProbed(c) /\ EventsAreCurrent(c) /\ SubscribersAgree(c)

UnknownHasNoUnit == \A c \in Candidates : cand[c] = "unknown" => unit[c] = "none"

InventoryInv ==
    /\ TypeOK
    /\ \A t \in Threads : CallOrder(todo[t])
    /\ UnknownHasNoUnit
    /\ \A c \in Candidates : ~overtaken[c] => AgreeOn(c)

-----------------------------------------------------------------------------
(* Sequences of calls.                                                      *)

LEMMA EntriesOfFew ==
    /\ Entries(<<>>) = {}
    /\ \A a : Entries(<<a>>) = {a}
    /\ \A a, b : Entries(<<a, b>>) = {a, b}
<1>1. Entries(<<>>) = {}
  BY DEF Entries
<1>2. ASSUME NEW a PROVE Entries(<<a>>) = {a}
  BY DEF Entries
<1>3. ASSUME NEW a, NEW b PROVE Entries(<<a, b>>) = {a, b}
  <2>1. 1..Len(<<a, b>>) = {1, 2}
    OBVIOUS
  <2>2. QED
    BY <2>1 DEF Entries
<1>4. QED
  BY <1>1, <1>2, <1>3

After(calls, s) == calls \o Tail(s)

\* Where each call stands then.
Shifted(r, calls, s) ==
    /\ Len(r) = Len(calls) + Len(s) - 1
    /\ \A i \in 1..Len(r) : IF i <= Len(calls) THEN r[i] = calls[i]
                            ELSE i - Len(calls) + 1 \in 1..Len(s) /\ r[i] = s[i - Len(calls) + 1]

\* Which calls may take the place of a call.
Follows(calls, op) ==
    \/ calls = <<>>
    \/ op \in {"upsert", "probe"} /\ \E x : calls = <<x>> /\ x.op \in {"probe", "submit"}
    \/ op \in {"submit", "gone"}
       /\ \E x, y : calls = <<x, y>> /\ x.op \in {"bind", "unbind"} /\ y.op \in {"tell", "untell"}

\* What is left to do when the first call is done and others come in its place.
LEMMA Continued ==
    ASSUME NEW s \in Seq(Calls), s # <<>>, NEW calls \in Seq(Calls), NEW r, r = After(calls, s)
    PROVE  /\ r \in Seq(Calls)
           /\ Entries(calls) \subseteq Entries(r)
           /\ Entries(r) \subseteq Entries(calls) \cup Entries(s)
           /\ Entries(s) \subseteq {Head(s)} \cup Entries(r)
           /\ Head(s) \in Entries(s) /\ Head(s) \in Calls /\ Head(s) = s[1]
           /\ Shifted(r, calls, s)
<1>1. Len(s) \in Nat /\ Len(calls) \in Nat /\ Len(s) >= 1
  BY LenProperties, EmptySeq
<1>2. /\ Tail(s) \in Seq(Calls) /\ Len(Tail(s)) = Len(s) - 1
      /\ \A i \in 1..(Len(s) - 1) : Tail(s)[i] = s[i + 1]
      /\ Head(s) = s[1] /\ Head(s) \in Calls
  BY <1>1, HeadTailProperties
<1>3. /\ r \in Seq(Calls) /\ Len(r) = Len(calls) + Len(s) - 1
      /\ \A i \in 1..Len(r) : r[i] = IF i <= Len(calls) THEN calls[i] ELSE Tail(s)[i - Len(calls)]
  BY <1>1, <1>2, ConcatProperties DEF After
<1>4. \A i \in 1..Len(calls) : i \in 1..Len(r) /\ r[i] = calls[i]
  BY <1>1, <1>3
<1>5. \A i \in 1..Len(r) : i > Len(calls) =>
          i - Len(calls) + 1 \in 1..Len(s) /\ r[i] = s[i - Len(calls) + 1]
  BY <1>1, <1>2, <1>3
<1>6. \A j \in 1..Len(s) : j # 1 =>
          j - 1 + Len(calls) \in 1..Len(r) /\ r[j - 1 + Len(calls)] = s[j]
  BY <1>1, <1>2, <1>3
<1>7. Entries(calls) \subseteq Entries(r)
  BY <1>4 DEF Entries
<1>8. Entries(r) \subseteq Entries(calls) \cup Entries(s)
  <2>1. ASSUME NEW i \in 1..Len(r) PROVE r[i] \in Entries(calls) \cup Entries(s)
    <3>1. CASE i <= Len(calls)
      BY <1>1, <1>4, <3>1 DEF Entries
    <3>2. CASE i > Len(calls)
      BY <1>5, <3>2 DEF Entries
    <3>3. QED
      BY <1>1, <3>1, <3>2
  <2>2. QED
    BY <2>1 DEF Entries
<1>9. Entries(s) \subseteq {Head(s)} \cup Entries(r)
  <2>1. ASSUME NEW j \in 1..Len(s) PROVE s[j] \in {Head(s)} \cup Entries(r)
    <3>1. CASE j = 1
      BY <1>2, <3>1
    <3>2. CASE j # 1
      BY <1>6, <3>2 DEF Entries
    <3>3. QED
      BY <3>1, <3>2
  <2>2. QED
    BY <2>1 DEF Entries
<1>10. Head(s) \in Entries(s)
  BY <1>1, <1>2 DEF Entries
<1>11. Shifted(r, calls, s)
  BY <1>1, <1>4, <1>5, <1>3 DEF Shifted
<1>12. QED
  BY <1>2, <1>3, <1>7, <1>8, <1>9, <1>10, <1>11

LEMMA OrderContinued ==
    ASSUME NEW s \in Seq(Calls), s # <<>>, CallOrder(s),
           NEW calls \in Seq(Calls), Follows(calls, Head(s).op),
           \A e \in Entries(calls) : e.op = "submit" => e.found # "none",
           NEW r, r = After(calls, s)
    PROVE  CallOrder(r)
<1>1. /\ Head(s) = s[1] /\ Len(r) = Len(calls) + Len(s) - 1
      /\ \A i \in 1..Len(r) : IF i <= Len(calls) THEN r[i] = calls[i]
                              ELSE i - Len(calls) + 1 \in 1..Len(s) /\ r[i] = s[i - Len(calls) + 1]
  <2>1. Head(s) = s[1] /\ Shifted(r, calls, s)
    BY Continued
  <2>2. QED
    BY <2>1 DEF Shifted
<1>2. Len(s) \in Nat /\ Len(s) >= 1 /\ 1 \in 1..Len(s)
  BY LenProperties, EmptySeq
<1>3. CASE calls = <<>>
  <2>1. Len(calls) = 0
    BY <1>3
  <2>2. ASSUME NEW i \in 1..Len(r)
        PROVE  /\ r[i].op # "probe" => i = 1 \/ (i = 2 /\ r[1].op \in {"bind", "unbind"})
               /\ r[i].op \in {"upsert", "gone"} => Len(r) = 1
               /\ r[i].op = "submit" => r[i].found # "none"
    <3>1. i + 1 \in 1..Len(s) /\ r[i] = s[i + 1] /\ i \in Nat /\ i >= 1
      BY <1>1, <1>2, <2>1
    <3>2. s[i + 1].op # "probe" => i + 1 = 2
      BY <3>1 DEF CallOrder
    <3>3. s[i + 1].op \in {"upsert", "gone"} => FALSE
      BY <1>2, <3>1 DEF CallOrder
    <3>4. s[i + 1].op = "submit" => s[i + 1].found # "none"
      BY <3>1 DEF CallOrder
    <3>5. QED
      BY <3>1, <3>2, <3>3, <3>4
  <2>3. QED
    BY <2>2 DEF CallOrder
<1>4. CASE \E x : calls = <<x>> /\ x.op \in {"probe", "submit"} /\ s[1].op \in {"upsert", "probe"}
  <2>1. PICK x : calls = <<x>> /\ x.op \in {"probe", "submit"} /\ s[1].op \in {"upsert", "probe"}
    BY <1>4
  <2>2. Len(calls) = 1 /\ calls[1] = x /\ Entries(calls) = {x}
    BY <2>1, EntriesOfFew
  <2>3. ASSUME NEW i \in 1..Len(r)
        PROVE  /\ r[i].op # "probe" => i = 1 \/ (i = 2 /\ r[1].op \in {"bind", "unbind"})
               /\ r[i].op \in {"upsert", "gone"} => Len(r) = 1
               /\ r[i].op = "submit" => r[i].found # "none"
    <3>1. CASE i = 1
      <4>1. r[i] = x
        BY <1>1, <2>2, <3>1
      <4>2. QED
        BY <2>1, <2>2, <3>1, <4>1
    <3>2. CASE i # 1
      <4>1. i \in 1..Len(s) /\ r[i] = s[i]
        BY <1>1, <1>2, <2>2, <3>2
      <4>2. s[i].op = "probe"
        BY <2>1, <3>2, <4>1 DEF CallOrder
      <4>3. QED
        BY <4>1, <4>2
    <3>3. QED
      BY <3>1, <3>2
  <2>4. QED
    BY <2>3 DEF CallOrder
<1>5. CASE \E x, y : /\ calls = <<x, y>> /\ x.op \in {"bind", "unbind"} /\ y.op \in {"tell", "untell"}
                     /\ s[1].op \in {"submit", "gone"}
  <2>1. PICK x, y : /\ calls = <<x, y>> /\ x.op \in {"bind", "unbind"} /\ y.op \in {"tell", "untell"}
                    /\ s[1].op \in {"submit", "gone"}
    BY <1>5
  <2>2. Len(calls) = 2 /\ calls[1] = x /\ calls[2] = y
    BY <2>1
  <2>3. 1 \in 1..Len(r) /\ r[1] = x
    BY <1>1, <1>2, <2>2
  <2>4. ASSUME NEW i \in 1..Len(r)
        PROVE  /\ r[i].op # "probe" => i = 1 \/ (i = 2 /\ r[1].op \in {"bind", "unbind"})
               /\ r[i].op \in {"upsert", "gone"} => Len(r) = 1
               /\ r[i].op = "submit" => r[i].found # "none"
    <3>1. CASE i = 1
      BY <2>1, <2>3, <3>1
    <3>2. CASE i = 2
      <4>1. r[i] = y
        BY <1>1, <2>2, <3>2
      <4>2. QED
        BY <2>1, <2>3, <3>2, <4>1
    <3>3. CASE i > 2
      <4>1. i - 1 \in 1..Len(s) /\ r[i] = s[i - 1] /\ i - 1 # 1
        BY <1>1, <1>2, <2>2, <3>3
      <4>2. s[i - 1].op = "probe"
        BY <2>1, <4>1 DEF CallOrder
      <4>3. QED
        BY <4>1, <4>2
    <3>4. QED
      BY <3>1, <3>2, <3>3
  <2>5. QED
    BY <2>4 DEF CallOrder
<1>6. QED
  BY <1>1, <1>3, <1>4, <1>5 DEF Follows

-----------------------------------------------------------------------------
(* What a step of one thread leaves on its way.                             *)

Events == {"bind", "unbind", "tell", "untell"}

LEMMA QueuesOfCalls ==
    ASSUME InventoryInv, NEW t \in Threads
    PROVE  todo[t] \in Seq(Calls) /\ DOMAIN todo[t] = 1..Len(todo[t]) /\ CallOrder(todo[t])
  BY LenProperties DEF InventoryInv, TypeOK, RegistryTypeOK

LEMMA FirstCall ==
    ASSUME InventoryInv, NEW t \in Threads, todo[t] # <<>>
    PROVE  /\ Head(todo[t]) = todo[t][1] /\ Len(todo[t]) \in Nat /\ Len(todo[t]) >= 1
           /\ Head(todo[t]) \in Entries(todo[t]) /\ Head(todo[t]) \in Calls /\ Subject(t) \in Candidates
           /\ Pending(Head(todo[t]).op, Subject(t))
           /\ Head(todo[t]).op = "submit" => Head(todo[t]).found # "none"
<1>1. PICK s : s = todo[t]
  OBVIOUS
<1>2. s \in Seq(Calls) /\ s # <<>> /\ CallOrder(s)
  BY <1>1, QueuesOfCalls
<1>3. Len(s) \in Nat /\ Len(s) >= 1 /\ Head(s) = s[1] /\ Head(s) \in Calls
  BY <1>2, LenProperties, EmptySeq, HeadTailProperties
<1>4. 1 \in 1..Len(s)
  BY <1>3
<1>5. Head(s) \in Entries(s)
  BY <1>3, <1>4 DEF Entries
<1>6. Head(s).op = "submit" => Head(s).found # "none"
  BY <1>2, <1>3, <1>4 DEF CallOrder
<1>7. Head(s).cand \in Candidates
  BY <1>3 DEF Calls
<1>8. Pending(Head(todo[t]).op, Subject(t))
  BY <1>1, <1>5 DEF Pending, Subject
<1>9. QED
  BY <1>1, <1>3, <1>5, <1>6, <1>7, <1>8 DEF Subject

\* What is pending after a call was done that made others.
PendingMoved(t, calls) ==
    /\ \A op, x : Pending(op, x) => Pending(op, x)' \/ (op = Head(todo[t]).op /\ x = Subject(t))
    /\ \A op, x : Pending(op, x)' => Pending(op, x) \/ \E e \in Entries(calls) : e.op = op /\ e.cand = x
    /\ \A e \in Entries(calls) : Pending(e.op, e.cand)'

LEMMA CallDone ==
    ASSUME InventoryInv, NEW t \in Threads, todo[t] # <<>>, NEW calls \in Seq(Calls), Continue(t, calls),
           Follows(calls, Head(todo[t]).op), \A e \in Entries(calls) : e.op = "submit" => e.found # "none"
    PROVE  /\ todo' \in [Threads -> Seq(Calls)] /\ \A s \in Threads : CallOrder(todo'[s])
           /\ PendingMoved(t, calls)
<1>1. todo \in [Threads -> Seq(Calls)] /\ todo[t] \in Seq(Calls) /\ CallOrder(todo[t])
  BY QueuesOfCalls DEF InventoryInv, TypeOK, RegistryTypeOK
<1>2. todo'[t] = After(calls, todo[t]) /\ \A s \in Threads \ {t} : todo'[s] = todo[s]
  BY <1>1 DEF Continue, After
<1>3. /\ todo'[t] \in Seq(Calls)
      /\ Entries(calls) \subseteq Entries(todo'[t])
      /\ Entries(todo'[t]) \subseteq Entries(calls) \cup Entries(todo[t])
      /\ Entries(todo[t]) \subseteq {Head(todo[t])} \cup Entries(todo'[t])
  BY <1>1, <1>2, Continued
<1>4. CallOrder(todo'[t])
  BY <1>1, <1>2, OrderContinued
<1>5. todo' \in [Threads -> Seq(Calls)]
  BY <1>1, <1>2, <1>3 DEF Continue
<1>6. \A s \in Threads : CallOrder(todo'[s])
  BY <1>2, <1>4, QueuesOfCalls
<1>7. ASSUME NEW op, NEW x, Pending(op, x), ~(op = Head(todo[t]).op /\ x = Subject(t)) PROVE Pending(op, x)'
  <2>1. PICK s \in Threads : \E e \in Entries(todo[s]) : e.op = op /\ e.cand = x
    BY <1>7 DEF Pending
  <2>2. \E e \in Entries(todo'[s]) : e.op = op /\ e.cand = x
    BY <1>2, <1>3, <1>7, <2>1 DEF Subject
  <2>3. QED
    BY <2>1, <2>2 DEF Pending
<1>8. ASSUME NEW op, NEW x, Pending(op, x)'
      PROVE  Pending(op, x) \/ \E e \in Entries(calls) : e.op = op /\ e.cand = x
  <2>1. PICK s \in Threads : \E e \in Entries(todo'[s]) : e.op = op /\ e.cand = x
    BY <1>8 DEF Pending
  <2>2. CASE s = t
    BY <1>3, <2>1, <2>2 DEF Pending
  <2>3. CASE s # t
    BY <1>2, <2>1, <2>3 DEF Pending
  <2>4. QED
    BY <2>2, <2>3
<1>9. ASSUME NEW e \in Entries(calls) PROVE Pending(e.op, e.cand)'
  BY <1>3 DEF Pending
<1>10. PendingMoved(t, calls)
  BY <1>7, <1>8, <1>9 DEF PendingMoved
<1>11. QED
  BY <1>5, <1>6, <1>10

\* Nothing changes for a candidate the step is not about.
LEMMA OthersAgree ==
    ASSUME NEW x, AgreeOn(x), cand'[x] = cand[x], unit'[x] = unit[x], bound'[x] = bound[x], view'[x] = view[x],
           \A op : Pending(op, x)' <=> Pending(op, x)
    PROVE  AgreeOn(x)'
  BY DEF AgreeOn, PresentIfProbed, EventsAreCurrent, SubscribersAgree

LEMMA MovedElsewhere ==
    ASSUME NEW t, NEW calls, PendingMoved(t, calls), \A e \in Entries(calls) : e.cand = Subject(t),
           NEW x, x # Subject(t), NEW op
    PROVE  Pending(op, x)' <=> Pending(op, x)
  BY DEF PendingMoved

\* A thread that is alone with a candidate and submits it or marks it gone leaves no
\* event about it on its way.
LEMMA NoEventsAlone ==
    ASSUME InventoryInv, NEW t \in Threads, todo[t] # <<>>, Head(todo[t]).op \in {"submit", "gone"},
           ~Contended(t, Subject(t))
    PROVE  /\ \A op \in Events : ~Pending(op, Subject(t))
           /\ Head(todo[t]).op = "gone" => ~Pending("probe", Subject(t)) /\ ~Pending("submit", Subject(t))
<1>1. \A s \in Threads \ {t} : \A e \in Entries(todo[s]) : e.cand # Subject(t)
  BY QueuesOfCalls DEF Contended, About, Entries
<1>2. ASSUME NEW op \in Events \cup {"probe", "submit"}, Pending(op, Subject(t))
      PROVE  Head(todo[t]).op = "submit" /\ op \notin Events
  <2>1. PICK s \in Threads : \E e \in Entries(todo[s]) : e.op = op /\ e.cand = Subject(t)
    BY <1>2 DEF Pending
  <2>2. s = t
    BY <1>1, <2>1
  <2>3. PICK i \in 1..Len(todo[t]) : todo[t][i].op = op
    BY <2>1, <2>2 DEF Entries
  <2>4. CallOrder(todo[t]) /\ Head(todo[t]) = todo[t][1] /\ 1 \in 1..Len(todo[t])
    BY QueuesOfCalls, FirstCall
  <2>5. CASE Head(todo[t]).op = "gone"
    <3>1. Len(todo[t]) = 1
      BY <2>4, <2>5 DEF CallOrder
    <3>2. i = 1
      BY <2>3, <3>1
    <3>3. QED
      BY <2>3, <2>4, <2>5, <3>2 DEF Events
  <2>6. CASE Head(todo[t]).op = "submit"
    <3>1. op \in Events => i = 1
      BY <2>3, <2>4, <2>6 DEF CallOrder, Events
    <3>2. QED
      BY <2>3, <2>4, <2>6, <3>1 DEF Events
  <2>7. QED
    BY <2>5, <2>6
<1>3. \A op \in Events : ~Pending(op, Subject(t))
  BY <1>2
<1>4. Head(todo[t]).op = "gone" => ~Pending("probe", Subject(t)) /\ ~Pending("submit", Subject(t))
  BY <1>2
<1>5. QED
  BY <1>3, <1>4

LEMMA FewCalls ==
    /\ <<>> \in Seq(Calls)
    /\ \A a \in Calls : <<a>> \in Seq(Calls)
    /\ \A a, b \in Calls : <<a, b>> \in Seq(Calls)
    /\ \A c \in Candidates :
          \A op \in {"upsert", "gone", "probe", "submit", "bind", "unbind", "tell", "untell",
                     "monitor", "unlock"} :
              /\ Call(op, c) \in Calls
              /\ Call(op, c).op = op /\ Call(op, c).cand = c /\ Call(op, c).found = "none"
<1>1. <<>> \in Seq(Calls) /\ \A a \in Calls : <<a>> \in Seq(Calls)
  OBVIOUS
<1>2. \A a, b \in Calls : <<a, b>> \in Seq(Calls)
  OBVIOUS
<1>3. QED
  BY <1>1, <1>2 DEF Call, Calls, Findings

\* The invariant after a step that is about one candidate.
LEMMA OneCandidate ==
    ASSUME InventoryInv, NEW t \in Threads, todo[t] # <<>>, NEW calls \in Seq(Calls), Continue(t, calls),
           Follows(calls, Head(todo[t]).op), NEW c, c = Subject(t),
           \A e \in Entries(calls) : e.cand = c /\ (e.op = "submit" => e.found # "none"),
           TypeOK', UnknownHasNoUnit',
           \A x \in Candidates : x # c =>
              /\ cand'[x] = cand[x] /\ unit'[x] = unit[x] /\ bound'[x] = bound[x] /\ view'[x] = view[x]
              /\ overtaken'[x] = overtaken[x],
           ~overtaken'[c] => AgreeOn(c)'
    PROVE  InventoryInv'
<1>1. (\A s \in Threads : CallOrder(todo'[s])) /\ PendingMoved(t, calls)
  BY CallDone
<1>2. ASSUME NEW x \in Candidates, ~overtaken'[x] PROVE AgreeOn(x)'
  <2>1. CASE x = c
    BY <1>2, <2>1
  <2>2. CASE x # c
    <3>1. AgreeOn(x)
      BY <1>2, <2>2 DEF InventoryInv
    <3>2. \A op : Pending(op, x)' <=> Pending(op, x)
      BY <1>1, <2>2, MovedElsewhere
    <3>3. QED
      BY <2>2, <3>1, <3>2, OthersAgree
  <2>3. QED
    BY <2>1, <2>2
<1>3. QED
  BY <1>1, <1>2 DEF InventoryInv

-----------------------------------------------------------------------------
(* The steps of the registry and its subscribers.                           *)

deviceVars == <<device, told, changes>>

LEMMA UpsertKeeps ==
    ASSUME InventoryInv, NEW t \in Threads, Upsert(t), UNCHANGED deviceVars PROVE InventoryInv'
<1>1. PICK c : c = Subject(t)
  OBVIOUS
<1>2. PICK calls : calls = IF listening THEN <<Call("probe", c)>> ELSE <<>>
  OBVIOUS
<1>3. /\ todo[t] # <<>> /\ Head(todo[t]).op = "upsert" /\ Continue(t, calls)
      /\ cand' = [cand EXCEPT ![c] = "present"]
      /\ UNCHANGED <<unit, bound, view, listening, overtaken, device, told, changes>>
  BY <1>1, <1>2 DEF Upsert, Doing, Idle, deviceVars
<1>4. c \in Candidates
  BY <1>1, <1>3, FirstCall
<1>5. PICK e : e = Call("probe", c)
  OBVIOUS
<1>6. e \in Calls /\ e.op = "probe" /\ e.cand = c
  BY <1>4, <1>5, FewCalls
<1>7. calls = <<>> \/ calls = <<e>>
  BY <1>2, <1>5
<1>8. calls \in Seq(Calls) /\ \A f \in Entries(calls) : f = e
  <2>1. <<>> \in Seq(Calls) /\ <<e>> \in Seq(Calls)
    BY <1>6, FewCalls
  <2>2. Entries(<<>>) = {} /\ Entries(<<e>>) = {e}
    BY EntriesOfFew
  <2>3. QED
    BY <1>7, <2>1, <2>2
<1>9. Follows(calls, "upsert")
  BY <1>6, <1>7 DEF Follows
<1>10. todo' \in [Threads -> Seq(Calls)] /\ PendingMoved(t, calls)
  BY <1>3, <1>6, <1>8, <1>9, CallDone
<1>11. cand' \in [Candidates -> {"unknown", "present", "gone"}] /\ cand'[c] = "present"
       /\ \A x \in Candidates : x # c => cand'[x] = cand[x]
  BY <1>3, <1>4 DEF InventoryInv, TypeOK, RegistryTypeOK
<1>12. TypeOK'
  BY <1>3, <1>10, <1>11 DEF InventoryInv, TypeOK, RegistryTypeOK
<1>13. UnknownHasNoUnit'
  BY <1>3, <1>11 DEF InventoryInv, UnknownHasNoUnit
<1>14. ASSUME ~overtaken'[c] PROVE AgreeOn(c)'
  <2>1. AgreeOn(c)
    BY <1>3, <1>4, <1>14 DEF InventoryInv
  <2>2. \A op \in Events : Pending(op, c)' <=> Pending(op, c)
    BY <1>3, <1>6, <1>8, <1>10 DEF PendingMoved, Events
  <2>3. PresentIfProbed(c)'
    BY <1>11 DEF PresentIfProbed
  <2>4. EventsAreCurrent(c)' /\ SubscribersAgree(c)'
    BY <1>3, <2>1, <2>2 DEF AgreeOn, EventsAreCurrent, SubscribersAgree, Events
  <2>5. QED
    BY <2>3, <2>4 DEF AgreeOn
<1>15. QED
  BY <1>1, <1>3, <1>6, <1>8, <1>9, <1>11, <1>12, <1>13, <1>14, OneCandidate

LEMMA ProbeKeeps ==
    ASSUME InventoryInv, NEW t \in Threads, NEW found \in Findings, Probe(t, found), UNCHANGED deviceVars
    PROVE  InventoryInv'
<1>1. PICK c : c = Subject(t)
  OBVIOUS
<1>2. PICK e : e = [Call("submit", c) EXCEPT !.found = found]
  OBVIOUS
<1>3. PICK calls : calls = IF found = "none" THEN <<>> ELSE <<e>>
  OBVIOUS
<1>4. /\ todo[t] # <<>> /\ Head(todo[t]).op = "probe" /\ Continue(t, calls)
      /\ UNCHANGED <<cand, unit, bound, view, listening, overtaken, device, told, changes>>
  BY <1>1, <1>2, <1>3 DEF Probe, Doing, Idle, deviceVars
<1>5. c \in Candidates /\ Pending("probe", c)
  BY <1>1, <1>4, FirstCall
<1>6. e = [op |-> "submit", cand |-> c, found |-> found]
  BY <1>2 DEF Call
<1>7. e \in Calls /\ e.op = "submit" /\ e.cand = c /\ e.found = found
  BY <1>5, <1>6 DEF Calls
<1>8. /\ calls \in Seq(Calls) /\ \A f \in Entries(calls) : f = e /\ found # "none"
  BY <1>3, <1>7, FewCalls, EntriesOfFew
<1>9. Follows(calls, "probe")
  BY <1>3, <1>7 DEF Follows
<1>10. todo' \in [Threads -> Seq(Calls)] /\ PendingMoved(t, calls)
  BY <1>4, <1>7, <1>8, <1>9, CallDone
<1>11. TypeOK'
  BY <1>4, <1>10 DEF InventoryInv, TypeOK, RegistryTypeOK
<1>12. UnknownHasNoUnit'
  BY <1>4 DEF InventoryInv, UnknownHasNoUnit
<1>13. ASSUME ~overtaken'[c] PROVE AgreeOn(c)'
  <2>1. AgreeOn(c)
    BY <1>4, <1>5, <1>13 DEF InventoryInv
  <2>2. \A op \in Events : Pending(op, c)' <=> Pending(op, c)
    BY <1>4, <1>7, <1>8, <1>10 DEF PendingMoved, Events
  <2>3. PresentIfProbed(c)'
    BY <1>4, <1>5, <2>1 DEF AgreeOn, PresentIfProbed
  <2>4. EventsAreCurrent(c)' /\ SubscribersAgree(c)'
    BY <1>4, <2>1, <2>2 DEF AgreeOn, EventsAreCurrent, SubscribersAgree, Events
  <2>5. QED
    BY <2>3, <2>4 DEF AgreeOn
<1>14. QED
  BY <1>1, <1>4, <1>7, <1>8, <1>9, <1>11, <1>12, <1>13, OneCandidate

LEMMA BindingKeeps ==
    ASSUME InventoryInv, NEW t \in Threads, Bind(t) \/ Unbind(t), UNCHANGED deviceVars PROVE InventoryInv'
<1>1. PICK c : c = Subject(t)
  OBVIOUS
<1>2. PICK b \in BOOLEAN : b <=> Doing(t, "bind")
  OBVIOUS
<1>3. /\ todo[t] # <<>> /\ Head(todo[t]).op = IF b THEN "bind" ELSE "unbind"
      /\ Continue(t, <<>>)
      /\ bound' = [bound EXCEPT ![c] = b]
      /\ UNCHANGED <<cand, unit, view, listening, overtaken, device, told, changes>>
  BY <1>1, <1>2 DEF Bind, Unbind, Doing, Idle, deviceVars
<1>4. c \in Candidates /\ Pending(IF b THEN "bind" ELSE "unbind", c)
  BY <1>1, <1>3, FirstCall
<1>5. <<>> \in Seq(Calls) /\ Entries(<<>>) = {} /\ Follows(<<>>, Head(todo[t]).op)
  BY FewCalls, EntriesOfFew DEF Follows
<1>6. todo' \in [Threads -> Seq(Calls)] /\ PendingMoved(t, <<>>)
  BY <1>3, <1>5, CallDone
<1>7. /\ bound' \in [Candidates -> BOOLEAN] /\ bound'[c] = b
      /\ \A x \in Candidates : x # c => bound'[x] = bound[x]
  BY <1>3, <1>4 DEF InventoryInv, TypeOK, RegistryTypeOK
<1>8. TypeOK'
  BY <1>3, <1>6, <1>7 DEF InventoryInv, TypeOK, RegistryTypeOK
<1>9. UnknownHasNoUnit'
  BY <1>3 DEF InventoryInv, UnknownHasNoUnit
<1>10. ASSUME ~overtaken'[c] PROVE AgreeOn(c)'
  <2>1. AgreeOn(c)
    BY <1>3, <1>4, <1>10 DEF InventoryInv
  <2>2. \A op : Pending(op, c)' => Pending(op, c)
    BY <1>5, <1>6 DEF PendingMoved
  <2>3. \A op \in {"tell", "untell"} : Pending(op, c)' <=> Pending(op, c)
    BY <1>3, <1>6, <2>2 DEF PendingMoved
  <2>4. PresentIfProbed(c)' /\ EventsAreCurrent(c)'
    BY <1>3, <2>1, <2>2 DEF AgreeOn, PresentIfProbed, EventsAreCurrent
  <2>5. b <=> unit[c] # "none"
    BY <1>4, <2>1 DEF AgreeOn, EventsAreCurrent
  <2>6. bound'[c] <=> unit'[c] # "none"
    BY <1>3, <1>7, <2>5
  <2>7. SubscribersAgree(c)'
    BY <1>3, <2>1, <2>3, <2>6 DEF AgreeOn, SubscribersAgree
  <2>8. QED
    BY <2>4, <2>7 DEF AgreeOn
<1>11. QED
  BY <1>1, <1>3, <1>5, <1>7, <1>8, <1>9, <1>10, OneCandidate

LEMMA TellKeeps ==
    ASSUME InventoryInv, NEW t \in Threads, Tell(t), UNCHANGED deviceVars PROVE InventoryInv'
<1>1. PICK c : c = Subject(t)
  OBVIOUS
<1>2. PICK b \in BOOLEAN : b <=> Doing(t, "tell")
  OBVIOUS
<1>3. /\ todo[t] # <<>> /\ Head(todo[t]).op = IF b THEN "tell" ELSE "untell"
      /\ Continue(t, <<>>)
      /\ view' = [view EXCEPT ![c] = b]
      /\ UNCHANGED <<cand, unit, bound, listening, overtaken, device, told, changes>>
  BY <1>1, <1>2 DEF Tell, Doing, Idle, deviceVars
<1>4. c \in Candidates /\ Pending(IF b THEN "tell" ELSE "untell", c)
  BY <1>1, <1>3, FirstCall
<1>5. <<>> \in Seq(Calls) /\ Entries(<<>>) = {} /\ Follows(<<>>, Head(todo[t]).op)
  BY FewCalls, EntriesOfFew DEF Follows
<1>6. todo' \in [Threads -> Seq(Calls)] /\ PendingMoved(t, <<>>)
  BY <1>3, <1>5, CallDone
<1>7. /\ view' \in [Candidates -> BOOLEAN] /\ view'[c] = b
      /\ \A x \in Candidates : x # c => view'[x] = view[x]
  BY <1>3, <1>4 DEF InventoryInv, TypeOK, RegistryTypeOK
<1>8. TypeOK'
  BY <1>3, <1>6, <1>7 DEF InventoryInv, TypeOK, RegistryTypeOK
<1>9. UnknownHasNoUnit'
  BY <1>3 DEF InventoryInv, UnknownHasNoUnit
<1>10. ASSUME ~overtaken'[c] PROVE AgreeOn(c)'
  <2>1. AgreeOn(c)
    BY <1>3, <1>4, <1>10 DEF InventoryInv
  <2>2. \A op : Pending(op, c)' => Pending(op, c)
    BY <1>5, <1>6 DEF PendingMoved
  <2>3. \A op \in {"bind", "unbind"} : Pending(op, c)' <=> Pending(op, c)
    BY <1>3, <1>6, <2>2 DEF PendingMoved
  <2>4. PresentIfProbed(c)' /\ EventsAreCurrent(c)'
    BY <1>3, <2>1, <2>2 DEF AgreeOn, PresentIfProbed, EventsAreCurrent
  <2>5. b <=> unit[c] # "none"
    BY <1>4, <2>1 DEF AgreeOn, EventsAreCurrent
  <2>6. view'[c] <=> unit'[c] # "none"
    BY <1>3, <1>7, <2>5
  <2>7. SubscribersAgree(c)'
    BY <1>3, <2>1, <2>3, <2>6 DEF AgreeOn, SubscribersAgree
  <2>8. QED
    BY <2>4, <2>7 DEF AgreeOn
<1>11. QED
  BY <1>1, <1>3, <1>5, <1>7, <1>8, <1>9, <1>10, OneCandidate

LEMMA SubmitKeeps ==
    ASSUME InventoryInv, NEW t \in Threads, Submit(t), UNCHANGED deviceVars PROVE InventoryInv'
<1>1. PICK c : c = Subject(t)
  OBVIOUS
<1>2. PICK found : found = Head(todo[t]).found
  OBVIOUS
<1>3. PICK e, f : e = Call("bind", c) /\ f = Call("tell", c)
  OBVIOUS
<1>4. PICK calls : calls = IF cand[c] # "unknown" /\ unit[c] \in {"none", found} THEN <<e, f>> ELSE <<>>
  OBVIOUS
<1>5. PICK o \in BOOLEAN : o = (overtaken[c] \/ Contended(t, c))
  OBVIOUS
<1>6. /\ todo[t] # <<>> /\ Head(todo[t]).op = "submit" /\ Continue(t, calls)
      /\ unit' = [unit EXCEPT ![c] = IF cand[c] = "unknown" THEN @ ELSE found]
      /\ UNCHANGED <<cand, bound, view, listening, device, told, changes>>
  BY <1>1, <1>2, <1>3, <1>4 DEF Submit, Doing, Idle, deviceVars
<1>7. overtaken' = [overtaken EXCEPT ![c] = o]
  BY <1>1, <1>5, Zenon DEF Submit
<1>8. c \in Candidates /\ Pending("submit", c) /\ found \in Findings /\ found # "none"
  BY <1>1, <1>2, <1>6, FirstCall DEF Calls
<1>9. e \in Calls /\ e.op = "bind" /\ e.cand = c /\ f \in Calls /\ f.op = "tell" /\ f.cand = c
  BY <1>3, <1>8, FewCalls
<1>10. calls \in Seq(Calls) /\ \A g \in Entries(calls) : g = e \/ g = f
  <2>1. <<>> \in Seq(Calls) /\ <<e, f>> \in Seq(Calls)
    BY <1>9, FewCalls
  <2>2. Entries(<<>>) = {} /\ Entries(<<e, f>>) = {e, f}
    BY EntriesOfFew
  <2>3. QED
    BY <1>4, <2>1, <2>2
<1>11. Follows(calls, "submit")
  BY <1>4, <1>9 DEF Follows
<1>12. todo' \in [Threads -> Seq(Calls)] /\ PendingMoved(t, calls)
  BY <1>6, <1>9, <1>10, <1>11, CallDone
<1>13. /\ overtaken' \in [Candidates -> BOOLEAN] /\ overtaken'[c] = o
       /\ \A x \in Candidates : x # c => overtaken'[x] = overtaken[x]
  BY <1>7, <1>8 DEF InventoryInv, TypeOK, RegistryTypeOK
<1>14. /\ unit' \in [Candidates -> Findings]
       /\ unit'[c] = IF cand[c] = "unknown" THEN unit[c] ELSE found
       /\ \A x \in Candidates : x # c => unit'[x] = unit[x]
  BY <1>6, <1>8 DEF InventoryInv, TypeOK, RegistryTypeOK
<1>15. TypeOK'
  BY <1>6, <1>12, <1>13, <1>14 DEF InventoryInv, TypeOK, RegistryTypeOK
<1>16. UnknownHasNoUnit'
  BY <1>6, <1>8, <1>14 DEF InventoryInv, UnknownHasNoUnit
<1>17. ASSUME ~overtaken'[c] PROVE AgreeOn(c)'
  <2>1. ~overtaken[c] /\ ~Contended(t, c)
    BY <1>5, <1>13, <1>17
  <2>2. AgreeOn(c)
    BY <1>8, <2>1 DEF InventoryInv
  <2>3. \A op \in Events : ~Pending(op, c)
    BY <1>1, <1>6, <2>1, NoEventsAlone
  <2>4. cand[c] = "present" /\ unit'[c] = found
    BY <1>8, <1>14, <2>2 DEF AgreeOn, PresentIfProbed
  <2>5. ~Pending("unbind", c)' /\ ~Pending("untell", c)'
    BY <1>9, <1>10, <1>12, <2>3 DEF PendingMoved, Events
  <2>6. PresentIfProbed(c)' /\ EventsAreCurrent(c)'
    BY <1>6, <1>8, <2>4, <2>5 DEF PresentIfProbed, EventsAreCurrent
  <2>7. CASE unit[c] \in {"none", found}
    <3>1. Entries(calls) = {e, f}
      BY <1>4, <2>4, <2>7, EntriesOfFew
    <3>2. Pending("bind", c)' /\ Pending("tell", c)'
      BY <1>9, <1>12, <3>1 DEF PendingMoved
    <3>3. SubscribersAgree(c)'
      BY <3>2 DEF SubscribersAgree
    <3>4. QED
      BY <2>6, <3>3 DEF AgreeOn
  <2>8. CASE unit[c] \notin {"none", found}
    <3>1. (bound[c] <=> unit[c] # "none") /\ (view[c] <=> unit[c] # "none")
      BY <2>2, <2>3 DEF AgreeOn, SubscribersAgree, Events
    <3>2. unit[c] # "none" /\ unit'[c] # "none"
      BY <1>8, <2>4, <2>8
    <3>3. bound[c] /\ view[c]
      BY <3>1, <3>2
    <3>4. (bound'[c] <=> unit'[c] # "none") /\ (view'[c] <=> unit'[c] # "none")
      BY <1>6, <3>2, <3>3
    <3>5. SubscribersAgree(c)'
      BY <3>4 DEF SubscribersAgree
    <3>6. QED
      BY <2>6, <3>5 DEF AgreeOn
  <2>9. QED
    BY <2>7, <2>8
<1>18. QED
  BY <1>1, <1>6, <1>9, <1>10, <1>11, <1>13, <1>14, <1>15, <1>16, <1>17, OneCandidate

LEMMA MarkGoneKeeps ==
    ASSUME InventoryInv, NEW t \in Threads, MarkGone(t), UNCHANGED deviceVars PROVE InventoryInv'
<1>1. PICK c : c = Subject(t)
  OBVIOUS
<1>2. PICK e, f : e = Call("unbind", c) /\ f = Call("untell", c)
  OBVIOUS
<1>3. PICK calls : calls = IF unit'[c] # unit[c] THEN <<e, f>> ELSE <<>>
  OBVIOUS
<1>4. PICK o \in BOOLEAN : o = ((overtaken[c] /\ unit[c] = "none") \/ Contended(t, c))
  OBVIOUS
<1>5. /\ todo[t] # <<>> /\ Head(todo[t]).op = "gone" /\ Continue(t, calls)
      /\ cand' = [cand EXCEPT ![c] = IF @ = "unknown" THEN @ ELSE "gone"]
      /\ unit' = [unit EXCEPT ![c] = IF cand[c] = "unknown" THEN @ ELSE "none"]
      /\ UNCHANGED <<bound, view, listening, device, told, changes>>
  BY <1>1, <1>2, <1>3 DEF MarkGone, Doing, Idle, deviceVars
<1>6. overtaken' = [overtaken EXCEPT ![c] = o]
  BY <1>1, <1>4, Zenon DEF MarkGone
<1>7. c \in Candidates
  BY <1>1, <1>5, FirstCall
<1>8. e \in Calls /\ e.op = "unbind" /\ e.cand = c /\ f \in Calls /\ f.op = "untell" /\ f.cand = c
  BY <1>2, <1>7, FewCalls
<1>9. calls \in Seq(Calls) /\ \A g \in Entries(calls) : g = e \/ g = f
  <2>1. <<>> \in Seq(Calls) /\ <<e, f>> \in Seq(Calls)
    BY <1>8, FewCalls
  <2>2. Entries(<<>>) = {} /\ Entries(<<e, f>>) = {e, f}
    BY EntriesOfFew
  <2>3. QED
    BY <1>3, <2>1, <2>2
<1>10. Follows(calls, "gone")
  BY <1>3, <1>8 DEF Follows
<1>11. todo' \in [Threads -> Seq(Calls)] /\ PendingMoved(t, calls)
  BY <1>5, <1>8, <1>9, <1>10, CallDone
<1>12. /\ overtaken' \in [Candidates -> BOOLEAN] /\ overtaken'[c] = o
       /\ \A x \in Candidates : x # c => overtaken'[x] = overtaken[x]
  BY <1>6, <1>7 DEF InventoryInv, TypeOK, RegistryTypeOK
<1>13. /\ cand' \in [Candidates -> {"unknown", "present", "gone"}]
       /\ cand'[c] = "unknown" => cand[c] = "unknown"
       /\ \A x \in Candidates : x # c => cand'[x] = cand[x]
  BY <1>5, <1>7 DEF InventoryInv, TypeOK, RegistryTypeOK
<1>14. /\ unit' \in [Candidates -> Findings] /\ unit'[c] = "none"
       /\ \A x \in Candidates : x # c => unit'[x] = unit[x]
  BY <1>5, <1>7 DEF InventoryInv, TypeOK, RegistryTypeOK, UnknownHasNoUnit, Findings
<1>15. TypeOK'
  BY <1>5, <1>11, <1>12, <1>13, <1>14 DEF InventoryInv, TypeOK, RegistryTypeOK
<1>16. UnknownHasNoUnit'
  BY <1>13, <1>14 DEF InventoryInv, UnknownHasNoUnit
<1>17. ASSUME ~overtaken'[c] PROVE AgreeOn(c)'
  <2>1. ~Contended(t, c) /\ (overtaken[c] => unit[c] # "none")
    BY <1>4, <1>12, <1>17
  <2>2. /\ \A op \in Events : ~Pending(op, c)
        /\ ~Pending("probe", c) /\ ~Pending("submit", c)
    BY <1>1, <1>5, <2>1, NoEventsAlone
  <2>3. \A op : op \notin {"unbind", "untell"} => (Pending(op, c)' => Pending(op, c))
    BY <1>8, <1>9, <1>11 DEF PendingMoved
  <2>4. PresentIfProbed(c)' /\ EventsAreCurrent(c)'
    BY <1>14, <2>2, <2>3 DEF PresentIfProbed, EventsAreCurrent, Events
  <2>5. CASE unit[c] # "none"
    <3>1. Entries(calls) = {e, f}
      BY <1>3, <1>14, <2>5, EntriesOfFew
    <3>2. Pending("unbind", c)' /\ Pending("untell", c)'
      BY <1>8, <1>11, <3>1 DEF PendingMoved
    <3>3. SubscribersAgree(c)'
      BY <3>2 DEF SubscribersAgree
    <3>4. QED
      BY <2>4, <3>3 DEF AgreeOn
  <2>6. CASE unit[c] = "none"
    <3>1. AgreeOn(c)
      BY <1>7, <2>1, <2>6 DEF InventoryInv
    <3>2. (bound[c] <=> unit[c] # "none") /\ (view[c] <=> unit[c] # "none")
      BY <2>2, <3>1 DEF AgreeOn, SubscribersAgree, Events
    <3>3. (bound'[c] <=> unit'[c] # "none") /\ (view'[c] <=> unit'[c] # "none")
      BY <1>5, <1>14, <2>6, <3>2
    <3>4. SubscribersAgree(c)'
      BY <3>3 DEF SubscribersAgree
    <3>5. QED
      BY <2>4, <3>4 DEF AgreeOn
  <2>7. QED
    BY <2>5, <2>6
<1>18. QED
  BY <1>1, <1>5, <1>8, <1>9, <1>10, <1>12, <1>13, <1>14, <1>15, <1>16, <1>17, OneCandidate

-----------------------------------------------------------------------------
(* The steps of the monitors' threads and of the reprobe thread.             *)

\* An idle thread gets calls to make.
LEMMA CallsBegin ==
    ASSUME InventoryInv, NEW t \in Threads, Idle(t), NEW calls \in Seq(Calls), CallOrder(calls),
           todo' = [todo EXCEPT ![t] = calls]
    PROVE  /\ todo' \in [Threads -> Seq(Calls)] /\ \A s \in Threads : CallOrder(todo'[s])
           /\ \A op, x : Pending(op, x)' <=> Pending(op, x) \/ \E e \in Entries(calls) : e.op = op /\ e.cand = x
<1>1. /\ todo' \in [Threads -> Seq(Calls)] /\ todo'[t] = calls
      /\ \A s \in Threads \ {t} : todo'[s] = todo[s]
  BY DEF InventoryInv, TypeOK, RegistryTypeOK
<1>2. \A s \in Threads : CallOrder(todo'[s])
  BY <1>1, QueuesOfCalls
<1>3. Entries(todo[t]) = {}
  BY EntriesOfFew DEF Idle
<1>4. ASSUME NEW op, NEW x, Pending(op, x)'
      PROVE  Pending(op, x) \/ \E e \in Entries(calls) : e.op = op /\ e.cand = x
  <2>1. PICK s \in Threads : \E e \in Entries(todo'[s]) : e.op = op /\ e.cand = x
    BY <1>4 DEF Pending
  <2>2. CASE s = t
    BY <1>1, <2>1, <2>2
  <2>3. CASE s # t
    BY <1>1, <2>1, <2>3 DEF Pending
  <2>4. QED
    BY <2>2, <2>3
<1>5. ASSUME NEW op, NEW x, Pending(op, x) PROVE Pending(op, x)'
  <2>1. PICK s \in Threads : \E e \in Entries(todo[s]) : e.op = op /\ e.cand = x
    BY <1>5 DEF Pending
  <2>2. s # t
    BY <1>3, <2>1
  <2>3. QED
    BY <1>1, <2>1, <2>2 DEF Pending
<1>6. ASSUME NEW op, NEW x, \E e \in Entries(calls) : e.op = op /\ e.cand = x PROVE Pending(op, x)'
  BY <1>1, <1>6 DEF Pending
<1>7. QED
  BY <1>1, <1>2, <1>4, <1>5, <1>6

LEMMA MonitorCallbackKeeps ==
    ASSUME InventoryInv, NEW t \in Threads, NEW c \in Candidates, MonitorCallback(t, c) PROVE InventoryInv'
<1>1. PICK e : e = Call(IF device[c] = "none" THEN "gone" ELSE "upsert", c)
  OBVIOUS
<1>2. PICK calls : calls = <<e>>
  OBVIOUS
<1>3. /\ Idle(t) /\ todo' = [todo EXCEPT ![t] = calls] /\ told' = [told EXCEPT ![c] = device[c]]
      /\ UNCHANGED <<cand, unit, bound, view, listening, overtaken, device, changes>>
  BY <1>1, <1>2 DEF MonitorCallback
<1>4. e \in Calls /\ e.op \in {"gone", "upsert"}
  BY <1>1, FewCalls
<1>5. calls \in Seq(Calls) /\ Entries(calls) = {e} /\ Len(calls) = 1 /\ calls[1] = e
  BY <1>2, <1>4, FewCalls, EntriesOfFew
<1>6. CallOrder(calls)
  BY <1>4, <1>5 DEF CallOrder
<1>7. /\ todo' \in [Threads -> Seq(Calls)] /\ \A s \in Threads : CallOrder(todo'[s])
      /\ \A op, x : Pending(op, x)' <=> Pending(op, x) \/ \E f \in Entries(calls) : f.op = op /\ f.cand = x
  BY <1>3, <1>5, <1>6, CallsBegin
<1>8. \A op, x : op \notin {"gone", "upsert"} => (Pending(op, x)' <=> Pending(op, x))
  BY <1>4, <1>5, <1>7
<1>9. TypeOK'
  BY <1>3, <1>7 DEF InventoryInv, TypeOK, RegistryTypeOK
<1>10. UnknownHasNoUnit'
  BY <1>3 DEF InventoryInv, UnknownHasNoUnit
<1>11. ASSUME NEW x \in Candidates, ~overtaken'[x] PROVE AgreeOn(x)'
  <2>1. AgreeOn(x)
    BY <1>3, <1>11 DEF InventoryInv
  <2>2. PresentIfProbed(x)' /\ EventsAreCurrent(x)' /\ SubscribersAgree(x)'
    BY <1>3, <1>8, <2>1 DEF AgreeOn, PresentIfProbed, EventsAreCurrent, SubscribersAgree
  <2>3. QED
    BY <2>2 DEF AgreeOn
<1>12. QED
  BY <1>7, <1>9, <1>10, <1>11 DEF InventoryInv

LEMMA ReprobeKeeps ==
    ASSUME InventoryInv, Reprobe PROVE InventoryInv'
<1>1. PICK present : present = {c \in Candidates : cand[c] = "present"}
  OBVIOUS
<1>2. PICK listing \in Listings(present) :
         todo' = [todo EXCEPT ![ReprobeThread] = [i \in DOMAIN listing |-> Call("probe", listing[i])]]
  BY <1>1 DEF Reprobe
<1>3. PICK n \in Nat : listing \in [1..n -> present]
  <2>1. IsFiniteSet(present)
    BY <1>1, InventoryAssumption, FS_Subset
  <2>2. Cardinality(present) \in Nat
    BY <2>1, FS_CardinalityType
  <2>3. QED
    BY <2>2 DEF Listings
<1>4. PICK calls : calls = [i \in 1..n |-> Call("probe", listing[i])]
  OBVIOUS
<1>5. /\ ReprobeThread \in Threads /\ Idle(ReprobeThread) /\ todo' = [todo EXCEPT ![ReprobeThread] = calls]
      /\ UNCHANGED <<cand, unit, bound, view, listening, overtaken, device, told, changes>>
  BY <1>2, <1>3, <1>4, InventoryAssumption DEF Reprobe
<1>6. \A i \in 1..n : calls[i] \in Calls /\ calls[i].op = "probe" /\ cand[calls[i].cand] = "present"
  <2>1. ASSUME NEW i \in 1..n PROVE calls[i] \in Calls /\ calls[i].op = "probe" /\ calls[i].cand \in present
    <3>1. listing[i] \in present /\ listing[i] \in Candidates
      BY <1>1, <1>3
    <3>2. calls[i] = Call("probe", listing[i])
      BY <1>4
    <3>3. QED
      BY <3>1, <3>2, FewCalls
  <2>2. QED
    BY <1>1, <2>1
<1>7. calls \in Seq(Calls) /\ Len(calls) = n
  <2>1. calls \in [1..n -> Calls]
    BY <1>4, <1>6
  <2>2. QED
    BY <2>1, SeqDef, LenProperties
<1>8. CallOrder(calls)
  BY <1>6, <1>7 DEF CallOrder
<1>9. \A e \in Entries(calls) : e.op = "probe" /\ cand[e.cand] = "present"
  BY <1>6, <1>7 DEF Entries
<1>10. /\ todo' \in [Threads -> Seq(Calls)] /\ \A s \in Threads : CallOrder(todo'[s])
       /\ \A op, x : Pending(op, x)' <=> Pending(op, x) \/ \E f \in Entries(calls) : f.op = op /\ f.cand = x
  BY <1>5, <1>7, <1>8, CallsBegin
<1>11. \A op, x : op # "probe" => (Pending(op, x)' <=> Pending(op, x))
  BY <1>9, <1>10
<1>12. \A x : Pending("probe", x)' => Pending("probe", x) \/ cand[x] = "present"
  BY <1>9, <1>10
<1>13. TypeOK'
  BY <1>5, <1>10 DEF InventoryInv, TypeOK, RegistryTypeOK
<1>14. UnknownHasNoUnit'
  BY <1>5 DEF InventoryInv, UnknownHasNoUnit
<1>15. ASSUME NEW x \in Candidates, ~overtaken'[x] PROVE AgreeOn(x)'
  <2>1. AgreeOn(x)
    BY <1>5, <1>15 DEF InventoryInv
  <2>2. PresentIfProbed(x)'
    BY <1>5, <1>11, <1>12, <2>1 DEF AgreeOn, PresentIfProbed
  <2>3. EventsAreCurrent(x)' /\ SubscribersAgree(x)'
    BY <1>5, <1>11, <2>1 DEF AgreeOn, EventsAreCurrent, SubscribersAgree
  <2>4. QED
    BY <2>2, <2>3 DEF AgreeOn
<1>16. QED
  BY <1>10, <1>13, <1>14, <1>15 DEF InventoryInv

LEMMA OutsideKeeps ==
    ASSUME InventoryInv,
           \/ \E c \in Candidates : DeviceChanges(c)
           \/ StartScheduler
           \/ UNCHANGED inventoryVars
    PROVE  InventoryInv'
<1>1. UNCHANGED <<cand, unit, bound, view, todo, overtaken>>
  BY DEF DeviceChanges, StartScheduler, Listen, inventoryVars, registryVars
<1>2. TypeOK'
  <2>1. CASE \E c \in Candidates : DeviceChanges(c)
    <3>1. PICK c \in Candidates : DeviceChanges(c)
      BY <2>1
    <3>2. PICK state \in Findings : device' = [device EXCEPT ![c] = state]
      BY <3>1 DEF DeviceChanges, Findings
    <3>3. changes' \in 0..MaxChanges
      BY <3>1, InventoryAssumption DEF DeviceChanges, InventoryInv, TypeOK
    <3>4. device' \in [Candidates -> Findings] /\ UNCHANGED <<registryVars, told>>
      BY <3>1, <3>2 DEF DeviceChanges, InventoryInv, TypeOK
    <3>5. QED
      BY <3>3, <3>4 DEF InventoryInv, TypeOK, RegistryTypeOK, registryVars
  <2>2. CASE StartScheduler
    BY <2>2 DEF StartScheduler, Listen, InventoryInv, TypeOK, RegistryTypeOK
  <2>3. CASE UNCHANGED inventoryVars
    BY <2>3 DEF inventoryVars, registryVars, InventoryInv, TypeOK, RegistryTypeOK
  <2>4. QED
    BY <2>1, <2>2, <2>3
<1>3. \A op, x : Pending(op, x)' <=> Pending(op, x)
  BY <1>1 DEF Pending
<1>4. UnknownHasNoUnit' /\ \A t \in Threads : CallOrder(todo'[t])
  BY <1>1 DEF InventoryInv, UnknownHasNoUnit
<1>5. ASSUME NEW x \in Candidates, ~overtaken'[x] PROVE AgreeOn(x)'
  <2>1. AgreeOn(x)
    BY <1>1, <1>5 DEF InventoryInv
  <2>2. cand'[x] = cand[x] /\ unit'[x] = unit[x] /\ bound'[x] = bound[x] /\ view'[x] = view[x]
    BY <1>1
  <2>3. QED
    BY <1>3, <2>1, <2>2, OthersAgree
<1>6. QED
  BY <1>2, <1>4, <1>5 DEF InventoryInv

-----------------------------------------------------------------------------
LEMMA InventoryStep ==
    InventoryInv /\ [Next]_inventoryVars => InventoryInv'
<1> SUFFICES ASSUME InventoryInv, [Next]_inventoryVars PROVE InventoryInv'
  OBVIOUS
<1>1. CASE \/ \E c \in Candidates : DeviceChanges(c)
           \/ StartScheduler
           \/ UNCHANGED inventoryVars
  BY <1>1, OutsideKeeps
<1>2. CASE Reprobe
  BY <1>2, ReprobeKeeps
<1>3. ASSUME NEW t \in Threads, CallStep(t) PROVE InventoryInv'
  BY <1>3, UpsertKeeps, MarkGoneKeeps, SubmitKeeps, BindingKeeps, TellKeeps
     DEF CallStep, RegistryStep, deviceVars
<1>4. ASSUME NEW t \in Threads, ProbeStep(t) PROVE InventoryInv'
  <2>1. todo[t] # <<>> /\ UNCHANGED deviceVars
    BY <1>4 DEF ProbeStep, Doing, Idle, deviceVars
  <2>2. ProbeFinds(Subject(t)) \in Findings
    BY <2>1, FirstCall DEF ProbeFinds, InventoryInv, TypeOK, Findings
  <2>3. PICK found \in Findings : Probe(t, found)
    BY <1>4, <2>2 DEF ProbeStep
  <2>4. QED
    BY <2>1, <2>3, ProbeKeeps
<1>5. ASSUME NEW t \in Threads, NEW c \in Candidates, MonitorCallback(t, c) PROVE InventoryInv'
  BY <1>5, MonitorCallbackKeeps
<1>6. QED
  BY <1>1, <1>2, <1>3, <1>4, <1>5 DEF Next, ThreadStep

LEMMA InventoryStarts ==
    Init => InventoryInv
<1> SUFFICES ASSUME Init PROVE InventoryInv
  OBVIOUS
<1>1. TypeOK
  <2>1. <<>> \in Seq(Calls)
    BY FewCalls
  <2>2. RegistryTypeOK
    BY <2>1 DEF Init, InitRegistry, RegistryTypeOK, Findings
  <2>3. device \in [Candidates -> Findings] /\ told \in [Candidates -> Findings] /\ changes \in 0..MaxChanges
    BY InventoryAssumption DEF Init, Findings
  <2>4. QED
    BY <2>2, <2>3 DEF TypeOK
<1>2. \A t \in Threads : todo[t] = <<>> /\ Entries(todo[t]) = {}
  BY EntriesOfFew DEF Init, InitRegistry
<1>3. \A t \in Threads : CallOrder(todo[t])
  BY <1>2 DEF CallOrder
<1>4. \A op, x : ~Pending(op, x)
  BY <1>2 DEF Pending
<1>5. \A c \in Candidates : unit[c] = "none" /\ ~bound[c] /\ ~view[c]
  BY DEF Init, InitRegistry
<1>6. UnknownHasNoUnit
  BY <1>5 DEF UnknownHasNoUnit
<1>7. \A c \in Candidates : AgreeOn(c)
  BY <1>4, <1>5 DEF AgreeOn, PresentIfProbed, EventsAreCurrent, SubscribersAgree
<1>8. QED
  BY <1>1, <1>3, <1>6, <1>7 DEF InventoryInv

LEMMA InventoryInvariant == Spec => []InventoryInv
<1>1. QED
  BY InventoryStarts, InventoryStep, PTL DEF Spec

\* The registry's maps, the scanner bindings, the client's list and every thread's calls
\* stay what they are declared to be, for any number of devices: each event a registry call
\* emits is delivered by calls the subscribers know (registry.cpp, probe_scheduler.cpp).
THEOREM InventoryTypesHold == Spec => []TypeOK
<1>1. InventoryInv => TypeOK
  BY DEF InventoryInv
<1>2. QED
  BY <1>1, InventoryInvariant, PTL

\* When no thread is in the middle of anything about a candidate, the registry, the scanner
\* manager and the watching client agree about its unit, and a unit has a present candidate,
\* unless the candidate's entry was changed under a thread that was (registry.cpp emits its
\* events after it has released the mutex).
THEOREM SettledUnitsAgree == Spec => []SettledAgree
<1>1. InventoryInv => SettledAgree
  <2> SUFFICES ASSUME InventoryInv, NEW c \in Candidates, Settled(c), ~overtaken[c]
               PROVE  /\ bound[c] = (unit[c] # "none")
                      /\ view[c] = bound[c]
                      /\ unit[c] # "none" => cand[c] = "present"
    BY DEF SettledAgree
  <2>1. \A op : ~Pending(op, c)
    BY QueuesOfCalls DEF Settled, About, Pending, Entries
  <2>2. AgreeOn(c)
    BY DEF InventoryInv
  <2>3. (bound[c] <=> unit[c] # "none") /\ (view[c] <=> unit[c] # "none")
    BY <2>1, <2>2 DEF AgreeOn, SubscribersAgree
  <2>4. unit[c] # "none" => cand[c] = "present"
    BY <2>2 DEF AgreeOn, PresentIfProbed
  <2>5. bound[c] \in BOOLEAN /\ view[c] \in BOOLEAN
    BY DEF InventoryInv, TypeOK, RegistryTypeOK
  <2>6. QED
    BY <2>3, <2>4, <2>5
<1>2. QED
  BY <1>1, InventoryInvariant, PTL

==============================================================================
