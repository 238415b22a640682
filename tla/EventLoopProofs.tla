-------------------------- MODULE EventLoopProofs --------------------------
(***************************************************************************)
(* Theorems about EventLoop, for any number of clients, workers, pushes    *)
(* and exceptions.                                                         *)
(***************************************************************************)
EXTENDS EventLoop, SequenceTheorems, TLAPS

----------------------------------------------------------------------------
(* Facts about the elements of a sequence and about sequences without      *)
(* repetition, under the operations the queue and the batches use.         *)

LEMMA ElemsEmpty == Elems(<<>>) = {}
  BY DEF Elems

(* push_back adds one element. *)
LEMMA ElemsAppend ==
  ASSUME NEW S, NEW s \in Seq(S), NEW e \in S
  PROVE  Elems(Append(s, e)) = Elems(s) \cup {e}
  <1>1. Len(Append(s, e)) = Len(s) + 1 /\ Len(s) \in Nat
    OBVIOUS
  <1>2. \A i \in 1 .. Len(s) : Append(s, e)[i] = s[i]
    OBVIOUS
  <1>3. Append(s, e)[Len(s) + 1] = e
    OBVIOUS
  <1>4. 1 .. Len(Append(s, e)) = (1 .. Len(s)) \cup {Len(s) + 1}
    BY <1>1
  <1> QED
    BY <1>2, <1>3, <1>4 DEF Elems

(* pop_front removes the first element. *)
LEMMA ElemsHeadTail ==
  ASSUME NEW S, NEW s \in Seq(S), s # <<>>
  PROVE  /\ Head(s) \in S /\ Tail(s) \in Seq(S)
         /\ Elems(s) = {Head(s)} \cup Elems(Tail(s))
  <1>1. /\ Len(s) \in Nat /\ Len(s) >= 1 /\ Len(Tail(s)) = Len(s) - 1
        /\ Head(s) = s[1] /\ Head(s) \in S /\ Tail(s) \in Seq(S)
    OBVIOUS
  <1>2. \A i \in 1 .. Len(Tail(s)) : Tail(s)[i] = s[i + 1] /\ i + 1 \in 1 .. Len(s)
    BY <1>1
  <1>3. \A i \in 1 .. Len(s) : i = 1 \/ (i - 1 \in 1 .. Len(Tail(s)) /\ Tail(s)[i - 1] = s[i])
    BY <1>1
  <1>4. Elems(Tail(s)) \subseteq Elems(s)
    BY <1>2 DEF Elems
  <1>5. Head(s) \in Elems(s)
    BY <1>1 DEF Elems
  <1>6. ASSUME NEW x \in Elems(s), x # Head(s)
        PROVE  x \in Elems(Tail(s))
    BY <1>1, <1>3, <1>6 DEF Elems
  <1> QED
    BY <1>1, <1>4, <1>5, <1>6

LEMMA ElemsConcat ==
  ASSUME NEW S, NEW s \in Seq(S), NEW t \in Seq(S)
  PROVE  Elems(s \o t) = Elems(s) \cup Elems(t)
  <1>1. Len(s \o t) = Len(s) + Len(t) /\ Len(s) \in Nat /\ Len(t) \in Nat
    OBVIOUS
  <1>2. \A i \in 1 .. Len(s) : i \in 1 .. Len(s \o t) /\ (s \o t)[i] = s[i]
    BY <1>1
  <1>3. \A i \in 1 .. Len(t) : i + Len(s) \in 1 .. Len(s \o t) /\ (s \o t)[i + Len(s)] = t[i]
    BY <1>1
  <1>4. ASSUME NEW i \in 1 .. Len(s \o t)
        PROVE  (s \o t)[i] \in Elems(s) \cup Elems(t)
    <2>1. CASE i <= Len(s)
      BY <2>1, <1>1, <1>2 DEF Elems
    <2>2. CASE ~(i <= Len(s))
      <3>1. i - Len(s) \in 1 .. Len(t) /\ (s \o t)[i] = t[i - Len(s)]
        BY <2>2, <1>1
      <3> QED BY <3>1 DEF Elems
    <2> QED BY <2>1, <2>2
  <1>5. Elems(s) \subseteq Elems(s \o t)
    BY <1>2 DEF Elems
  <1>6. Elems(t) \subseteq Elems(s \o t)
    <2> SUFFICES ASSUME NEW i \in 1 .. Len(t) PROVE t[i] \in Elems(s \o t)
      BY DEF Elems
    <2> QED BY <1>3 DEF Elems
  <1>7. Elems(s \o t) \subseteq Elems(s) \cup Elems(t)
    BY <1>4 DEF Elems
  <1> QED
    BY <1>5, <1>6, <1>7

LEMMA DistinctAppend ==
  ASSUME NEW S, NEW s \in Seq(S), NEW e \in S, Distinct(s), e \notin Elems(s)
  PROVE  Distinct(Append(s, e))
  <1>1. Len(Append(s, e)) = Len(s) + 1 /\ Len(s) \in Nat
    OBVIOUS
  <1>2. \A i \in 1 .. Len(s) : Append(s, e)[i] = s[i] /\ s[i] # e
    BY DEF Elems
  <1>3. Append(s, e)[Len(s) + 1] = e
    OBVIOUS
  <1> QED
    BY <1>1, <1>2, <1>3 DEF Distinct

LEMMA DistinctTail ==
  ASSUME NEW S, NEW s \in Seq(S), s # <<>>, Distinct(s)
  PROVE  Distinct(Tail(s)) /\ Head(s) \notin Elems(Tail(s))
  <1>1. /\ Len(s) \in Nat /\ Len(s) >= 1 /\ Len(Tail(s)) = Len(s) - 1
        /\ Head(s) = s[1]
    OBVIOUS
  <1>2. \A i \in 1 .. Len(Tail(s)) : Tail(s)[i] = s[i + 1] /\ i + 1 \in 1 .. Len(s)
    BY <1>1
  <1>3. Distinct(Tail(s))
    BY <1>1, <1>2 DEF Distinct
  <1>4. \A i \in 1 .. Len(Tail(s)) : Tail(s)[i] # Head(s)
    BY <1>1, <1>2 DEF Distinct
  <1> QED
    BY <1>3, <1>4 DEF Elems

(* push_back on the second of two concatenated sequences. *)
LEMMA ConcatAppend ==
  ASSUME NEW S, NEW s \in Seq(S), NEW t \in Seq(S), NEW e \in S
  PROVE  s \o Append(t, e) = Append(s \o t, e)
  <1> DEFINE a == s \o Append(t, e)
             b == Append(s \o t, e)
  <1>1. /\ a \in Seq(S) /\ b \in Seq(S)
        /\ Len(a) = Len(s) + Len(t) + 1 /\ Len(b) = Len(s) + Len(t) + 1
        /\ Len(s) \in Nat /\ Len(t) \in Nat
    OBVIOUS
  <1>2. \A i \in 1 .. Len(a) : a[i] = b[i]
    OBVIOUS
  <1> HIDE DEF a, b
  <1>3. a = b
    BY <1>1, <1>2, SeqEqual
  <1> QED BY <1>3 DEF a, b

LEMMA ConcatEmpty ==
  ASSUME NEW S, NEW s \in Seq(S)
  PROVE  s \o <<>> = s
  OBVIOUS

----------------------------------------------------------------------------
(* What TypeOK needs to be inductive: a client in Push has a push left, and *)
(* stop()'s loop index is in range while the loop runs.                     *)
Counters ==
    /\ \A c \in Clients : cpc[c] = "locked" => sent[c] < MaxPushes
    /\ mpc \in {"serving", "draining"} => kill = 0
    /\ mpc \in {"killing", "joining"} => kill < NumWorkers

LEMMA TypeInductive == Spec => [](TypeOK /\ Counters)
<1> USE BoundsAssumption DEF BoundsAssumption
<1>1. Init => TypeOK /\ Counters
  <2>1. ASSUME Init PROVE TypeOK
    <3>1. <<>> \in Seq(Event)
      OBVIOUS
    <3>2. [w \in Workers |-> <<>>] \in [Workers -> Seq(Event)]
      BY <3>1
    <3>3. [w \in Workers |-> FALSE] \in [Workers -> BOOLEAN]
      BY Zenon
    <3>4. /\ events \in [Workers -> Seq(Event)] /\ handled \in [Workers -> Seq(Event)]
          /\ signal \in [Workers -> BOOLEAN] /\ torn \in BOOLEAN
      BY <2>1, <3>2, <3>3, Zenon DEF Init
    <3>5. /\ cpc \in [Clients -> {"app", "locked"}]
          /\ sent \in [Clients -> 0 .. MaxPushes]
          /\ wpc \in [Workers -> {"poll", "pop", "locked", "handle", "exited"}]
      BY <2>1 DEF Init
    <3>6. /\ queue \in Seq(Event) /\ pushed \in Seq(Event)
          /\ mutex \in Clients \cup Workers \cup {Free}
          /\ mpc \in {"serving", "draining", "killing", "joining", "stopped"}
          /\ kill \in 0 .. NumWorkers /\ throws \in 0 .. MaxThrows
          /\ beforeStop \subseteq Event
      BY <2>1 DEF Init
    <3> QED BY <3>4, <3>5, <3>6 DEF TypeOK
  <2>2. ASSUME Init PROVE Counters
    BY <2>2 DEF Init, Counters
  <2> QED BY <2>1, <2>2
<1>2. TypeOK /\ Counters /\ [Next]_vars => TypeOK' /\ Counters'
  <2> SUFFICES ASSUME TypeOK, Counters, [Next]_vars
               PROVE  TypeOK' /\ Counters'
    OBVIOUS
  <2>1. ASSUME NEW c \in Clients, PushLock(c) PROVE TypeOK' /\ Counters'
    BY <2>1 DEF PushLock, TypeOK, Counters
  <2>2. ASSUME NEW c \in Clients, Push(c) PROVE TypeOK' /\ Counters'
    <3>1. NextEvent(c) \in Event /\ sent[c] + 1 \in 0 .. MaxPushes
      BY <2>2 DEF Push, NextEvent, Event, TypeOK, Counters
    <3> QED BY <2>2, <3>1 DEF Push, TypeOK, Counters
  <2>3. ASSUME NEW w \in Workers, Poll(w) PROVE TypeOK' /\ Counters'
    BY <2>3 DEF Poll, TypeOK, Counters
  <2>4. ASSUME NEW w \in Workers, PopLock(w) PROVE TypeOK' /\ Counters'
    BY <2>4 DEF PopLock, TypeOK, Counters
  <2>5. ASSUME NEW w \in Workers, Pop(w) PROVE TypeOK' /\ Counters'
    <3>1. CASE queue = <<>>
      BY <2>5, <3>1 DEF Pop, TypeOK, Counters
    <3>2. CASE queue # <<>>
      <4>1. Head(queue) \in Event /\ Tail(queue) \in Seq(Event)
        BY <3>2, ElemsHeadTail DEF TypeOK
      <4>2. Append(events[w], Head(queue)) \in Seq(Event)
        BY <4>1 DEF TypeOK
      <4> QED BY <2>5, <3>2, <4>1, <4>2 DEF Pop, TypeOK, Counters
    <3> QED BY <3>1, <3>2
  <2>6. ASSUME NEW w \in Workers, HandleDone(w) PROVE TypeOK' /\ Counters'
    <3>1. handled[w] \o events[w] \in Seq(Event)
      BY DEF TypeOK
    <3> QED BY <2>6, <3>1 DEF HandleDone, TypeOK, Counters
  <2>7. ASSUME NEW w \in Workers, HandleThrow(w) PROVE TypeOK' /\ Counters'
    BY <2>7 DEF HandleThrow, TypeOK, Counters
  <2>8. CASE StopBegin
    BY <2>8 DEF StopBegin, TypeOK, Counters, Elems
  <2>9. CASE DrainEnds
    BY <2>9 DEF DrainEnds, QueueIsDrained, TypeOK, Counters
  <2>10. CASE StopSignal
    BY <2>10 DEF StopSignal, TypeOK, Counters, Workers
  <2>11. CASE StopJoin
    BY <2>11 DEF StopJoin, TypeOK, Counters, Workers
  <2>12. CASE Terminated \/ UNCHANGED vars
    BY <2>12 DEF Terminated, vars, TypeOK, Counters
  <2> QED
    BY <2>1, <2>2, <2>3, <2>4, <2>5, <2>6, <2>7, <2>8, <2>9, <2>10, <2>11, <2>12
    DEF Next, ClientStep, WorkerStep, StopStep
<1> QED
  BY <1>1, <1>2, PTL DEF Spec

(* The type invariant holds of every behaviour of the event path. *)
THEOREM TypeCorrect == Spec => []TypeOK
  BY TypeInductive, PTL

----------------------------------------------------------------------------
(* A client numbers its events consecutively, so the next one is new. *)
Fresh == \A e \in Elems(pushed) : e.num <= sent[e.client]

LEMMA HeldType ==
  ASSUME TypeOK, NEW w \in Workers
  PROVE  /\ handled[w] \in Seq(Event) /\ events[w] \in Seq(Event)
         /\ handled[w] \o events[w] \in Seq(Event)
         /\ Elems(handled[w] \o events[w]) = Held(w)
  <1>1. handled[w] \in Seq(Event) /\ events[w] \in Seq(Event)
    BY DEF TypeOK
  <1> QED BY <1>1, ElemsConcat DEF Held

LEMMA FreshEvent ==
  ASSUME TypeOK, TypeOK', Fresh, NEW c \in Clients, Push(c)
  PROVE  /\ NextEvent(c) \in Event
         /\ NextEvent(c).client = c /\ NextEvent(c).num = sent[c] + 1
         /\ NextEvent(c) \notin Elems(pushed)
  <1>1. sent[c] + 1 \in 1 .. MaxPushes /\ sent[c] \in Nat
    BY BoundsAssumption DEF Push, TypeOK, BoundsAssumption
  <1>2. /\ NextEvent(c) \in Event
        /\ NextEvent(c).client = c /\ NextEvent(c).num = sent[c] + 1
    BY <1>1 DEF NextEvent, Event
  <1> QED BY <1>1, <1>2 DEF Fresh

LEMMA PushKeepsOnePlace ==
  ASSUME TypeOK, TypeOK', EachEventInOnePlace, Fresh, NEW c \in Clients, Push(c)
  PROVE  EachEventInOnePlace' /\ Fresh'
  <1> DEFINE e == NextEvent(c)
  <1>1. e \in Event /\ e.client = c /\ e.num = sent[c] + 1 /\ sent[c] \in Nat
    BY FreshEvent, BoundsAssumption DEF TypeOK, BoundsAssumption
  <1>2. e \notin Elems(pushed)
    BY FreshEvent
  <1>3. /\ Elems(queue') = Elems(queue) \cup {e}
        /\ Elems(pushed') = Elems(pushed) \cup {e}
    BY <1>1, ElemsAppend DEF Push, TypeOK
  <1>4. \A w \in Workers : Held(w)' = Held(w)
    BY DEF Push, Held
  <1>5. e \notin Elems(queue) /\ \A w \in Workers : e \notin Held(w)
    BY <1>2 DEF EachEventInOnePlace
  <1>6. Distinct(queue')
    BY <1>1, <1>5, DistinctAppend DEF Push, TypeOK, EachEventInOnePlace
  <1>7. \A w \in Workers : Distinct(handled'[w] \o events'[w])
    BY DEF Push, EachEventInOnePlace
  <1>8. Fresh'
    <2> SUFFICES ASSUME NEW f \in Elems(pushed') PROVE f.num <= sent'[f.client]
      BY DEF Fresh
    <2>1. sent' = [sent EXCEPT ![c] = sent[c] + 1]
      BY DEF Push
    <2>2. CASE f = e
      BY <2>1, <2>2, <1>1 DEF TypeOK
    <2>3. CASE f \in Elems(pushed)
      <3>1. f \in Event /\ f.client \in Clients /\ f.num \in Nat
        <4>1. f \in Event
          BY <2>3 DEF TypeOK, Elems
        <4> QED BY <4>1, BoundsAssumption DEF Event, BoundsAssumption
      <3>2. f.num <= sent[f.client]
        BY <2>3 DEF Fresh
      <3>3. sent'[f.client] = sent[f.client] \/ sent'[f.client] = sent[f.client] + 1
        BY <2>1, <3>1 DEF TypeOK
      <3>4. sent[f.client] \in Nat
        BY <3>1, BoundsAssumption DEF TypeOK, BoundsAssumption
      <3> QED BY <3>1, <3>2, <3>3, <3>4
    <2> QED BY <2>2, <2>3, <1>3
  <1> HIDE DEF e
  <1>9. Elems(pushed') = Elems(queue') \cup UNION {Held(w)' : w \in Workers}
    BY <1>3, <1>4 DEF EachEventInOnePlace
  <1>10. \A w \in Workers : Elems(queue') \cap Held(w)' = {}
    BY <1>3, <1>4, <1>5 DEF EachEventInOnePlace
  <1>11. \A v, w \in Workers : v # w => Held(v)' \cap Held(w)' = {}
    BY <1>4 DEF EachEventInOnePlace
  <1> QED
    BY <1>6, <1>7, <1>8, <1>9, <1>10, <1>11 DEF EachEventInOnePlace

LEMMA PopKeepsOnePlace ==
  ASSUME TypeOK, EachEventInOnePlace, Fresh, NEW w \in Workers, Pop(w),
         queue # <<>>
  PROVE  EachEventInOnePlace' /\ Fresh'
  <1> DEFINE h == Head(queue)
  <1>1. /\ h \in Event /\ Tail(queue) \in Seq(Event)
        /\ Elems(queue) = {h} \cup Elems(queue')
        /\ h \notin Elems(queue') /\ Distinct(queue')
    <2>1. queue \in Seq(Event) /\ Distinct(queue) /\ queue' = Tail(queue)
      BY DEF TypeOK, Pop, EachEventInOnePlace
    <2>2. /\ Head(queue) \in Event /\ Tail(queue) \in Seq(Event)
          /\ Elems(queue) = {Head(queue)} \cup Elems(Tail(queue))
      BY <2>1, ElemsHeadTail
    <2>3. Distinct(Tail(queue)) /\ Head(queue) \notin Elems(Tail(queue))
      BY <2>1, DistinctTail
    <2> QED BY <2>1, <2>2, <2>3
  <1>2. /\ events' = [events EXCEPT ![w] = Append(events[w], h)]
        /\ UNCHANGED <<handled, pushed, sent>>
    BY DEF Pop
  <1>3. /\ events'[w] = Append(events[w], h)
        /\ \A v \in Workers : v # w => events'[v] = events[v]
    BY <1>2 DEF TypeOK
  <1> HIDE DEF h
  <1>4. Held(w)' = Held(w) \cup {h}
    BY <1>1, <1>2, <1>3, ElemsAppend, HeldType DEF Held
  <1>5. \A v \in Workers : v # w => Held(v)' = Held(v)
    BY <1>2, <1>3 DEF Held
  <1>6. \A v \in Workers : h \notin Held(v)
    BY <1>1 DEF EachEventInOnePlace
  <1>7. \A v \in Workers : Distinct(handled'[v] \o events'[v])
    <2>1. handled'[w] \o events'[w] = Append(handled[w] \o events[w], h)
      <3>1. handled[w] \in Seq(Event) /\ events[w] \in Seq(Event)
        BY HeldType
      <3>2. \A s, t \in Seq(Event) : \A e \in Event :
                s \o Append(t, e) = Append(s \o t, e)
        BY ConcatAppend
      <3>3. h \in Event
        BY <1>1
      <3>4. handled[w] \o Append(events[w], h) = Append(handled[w] \o events[w], h)
        BY <3>1, <3>2, <3>3, Zenon
      <3> QED BY <1>2, <1>3, <3>4
    <2>2. Distinct(handled'[w] \o events'[w])
      <3> DEFINE s == handled[w] \o events[w]
      <3>1. s \in Seq(Event) /\ h \notin Elems(s)
        BY <1>6, HeldType
      <3>2. Distinct(s)
        BY DEF EachEventInOnePlace
      <3> HIDE DEF s
      <3>3. Distinct(Append(s, h))
        BY <1>1, <3>1, <3>2, DistinctAppend
      <3> QED BY <2>1, <3>3 DEF s
    <2> QED BY <2>2, <1>2, <1>3 DEF EachEventInOnePlace
  <1>8. Elems(pushed') = Elems(queue') \cup UNION {Held(v)' : v \in Workers}
    <2>1. Elems(pushed') = Elems(queue) \cup UNION {Held(v) : v \in Workers}
      BY <1>2 DEF EachEventInOnePlace
    <2>2. UNION {Held(v)' : v \in Workers} = {h} \cup UNION {Held(v) : v \in Workers}
      BY <1>4, <1>5
    <2> QED BY <2>1, <2>2, <1>1
  <1>9. \A v \in Workers : Elems(queue') \cap Held(v)' = {}
    BY <1>1, <1>4, <1>5 DEF EachEventInOnePlace
  <1>10. \A u, v \in Workers : u # v => Held(u)' \cap Held(v)' = {}
    BY <1>4, <1>5, <1>6 DEF EachEventInOnePlace
  <1>11. Fresh'
    BY <1>2 DEF Fresh
  <1> QED
    BY <1>1, <1>7, <1>8, <1>9, <1>10, <1>11 DEF EachEventInOnePlace

LEMMA HandleKeepsOnePlace ==
  ASSUME TypeOK, EachEventInOnePlace, Fresh, NEW w \in Workers, HandleDone(w)
  PROVE  EachEventInOnePlace' /\ Fresh'
  <1>1. UNCHANGED <<queue, pushed, sent>>
    BY DEF HandleDone
  <1>2. /\ handled'[w] = handled[w] \o events[w] /\ events'[w] = <<>>
        /\ \A v \in Workers : v # w => /\ handled'[v] = handled[v]
                                       /\ events'[v] = events[v]
    BY DEF HandleDone, TypeOK
  <1>3. \A v \in Workers : Held(v)' = Held(v)
    BY <1>2, HeldType, ElemsEmpty DEF Held
  <1>4. \A v \in Workers : Distinct(handled'[v] \o events'[v])
    <2>1. handled'[w] \o events'[w] = handled[w] \o events[w]
      BY <1>2, HeldType, ConcatEmpty
    <2> QED BY <2>1, <1>2 DEF EachEventInOnePlace
  <1> QED
    BY <1>1, <1>3, <1>4 DEF EachEventInOnePlace, Fresh

LEMMA OnePlaceInductive == Spec => [](EachEventInOnePlace /\ Fresh)
<1>1. Init => EachEventInOnePlace /\ Fresh
  <2> SUFFICES ASSUME Init PROVE EachEventInOnePlace /\ Fresh
    OBVIOUS
  <2>1. Elems(queue) = {} /\ Elems(pushed) = {} /\ \A w \in Workers : Held(w) = {}
    BY ElemsEmpty DEF Init, Held
  <2>2. Distinct(queue) /\ \A w \in Workers : Distinct(handled[w] \o events[w])
    <3>1. Distinct(<<>>) /\ <<>> \o <<>> = <<>>
      BY DEF Distinct
    <3> QED BY <3>1 DEF Init
  <2> QED BY <2>1, <2>2 DEF EachEventInOnePlace, Fresh
<1>2. ASSUME TypeOK, TypeOK', EachEventInOnePlace, Fresh, [Next]_vars
      PROVE  EachEventInOnePlace' /\ Fresh'
  <2>1. ASSUME NEW c \in Clients, Push(c) PROVE EachEventInOnePlace' /\ Fresh'
    BY <1>2, <2>1, PushKeepsOnePlace
  <2>2. ASSUME NEW w \in Workers, Pop(w), queue # <<>>
        PROVE  EachEventInOnePlace' /\ Fresh'
    BY <1>2, <2>2, PopKeepsOnePlace
  <2>3. ASSUME NEW w \in Workers, HandleDone(w)
        PROVE  EachEventInOnePlace' /\ Fresh'
    BY <1>2, <2>3, HandleKeepsOnePlace
  <2>4. CASE UNCHANGED <<queue, events, handled, pushed, sent>>
    BY <1>2, <2>4 DEF EachEventInOnePlace, Fresh, Held
  <2>5. ASSUME NEW c \in Clients, PushLock(c)
        PROVE  UNCHANGED <<queue, events, handled, pushed, sent>>
    BY <2>5 DEF PushLock
  <2>6. ASSUME NEW w \in Workers,
               Poll(w) \/ PopLock(w) \/ HandleThrow(w) \/ (Pop(w) /\ queue = <<>>)
        PROVE  UNCHANGED <<queue, events, handled, pushed, sent>>
    BY <2>6 DEF Poll, PopLock, HandleThrow, Pop
  <2>7. CASE StopBegin \/ StopStep \/ Terminated \/ UNCHANGED vars
    BY <2>4, <2>7
    DEF StopBegin, StopStep, DrainEnds, StopSignal, StopJoin, Terminated, vars
  <2> QED
    BY <1>2, <2>1, <2>2, <2>3, <2>4, <2>5, <2>6, <2>7
    DEF Next, ClientStep, WorkerStep
<1> QED
  BY <1>1, <1>2, TypeCorrect, PTL DEF Spec

(***************************************************************************)
(* The queue, the batches and the retry after an exception lose no event   *)
(* and deliver none twice, with any number of clients and workers.         *)
(***************************************************************************)
THEOREM OnePlace == Spec => []EachEventInOnePlace
  BY OnePlaceInductive, PTL

----------------------------------------------------------------------------
(* The strengthening that makes StopDrainsUnlessTorn inductive. *)

(* With batches of one, a worker holds nothing outside a call of handle. *)
EmptyHands ==
    throws = 0 => \A w \in Workers : wpc[w] # "handle" => events[w] = <<>>

(* Once the drain loop has ended on a true zero, the only event pushed before *)
(* stop() that the queue may still hold is the one being popped.             *)
DrainedQueue ==
    mpc \in {"killing", "joining", "stopped"} /\ ~torn =>
        \A e \in beforeStop \cap Elems(queue) :
            mutex \in Workers /\ e = Head(queue)

Joined ==
    /\ \A w \in Workers : w < kill => wpc[w] = "exited"
    /\ mpc = "stopped" => kill = NumWorkers

DrainInv ==
    /\ MutexExcludes
    /\ beforeStop \subseteq Elems(pushed)
    /\ EmptyHands
    /\ DrainedQueue
    /\ Joined

(* The lock is taken only when free and released by its holder, so it       *)
(* excludes.                                                                *)
LEMMA MutexStep ==
  ASSUME TypeOK, MutexExcludes, [Next]_vars
  PROVE  MutexExcludes'
  <1> USE NamesAssumption DEF NamesAssumption, MutexExcludes
  <1>1. ASSUME NEW c \in Clients, PushLock(c) PROVE MutexExcludes'
    BY <1>1 DEF PushLock, TypeOK
  <1>2. ASSUME NEW c \in Clients, Push(c) PROVE MutexExcludes'
    BY <1>2 DEF Push, TypeOK
  <1>3. ASSUME NEW w \in Workers, Poll(w) PROVE MutexExcludes'
    BY <1>3 DEF Poll, TypeOK
  <1>4. ASSUME NEW w \in Workers, PopLock(w) PROVE MutexExcludes'
    BY <1>4 DEF PopLock, TypeOK
  <1>5. ASSUME NEW w \in Workers, Pop(w) PROVE MutexExcludes'
    BY <1>5 DEF Pop, TypeOK
  <1>6. ASSUME NEW w \in Workers, HandleDone(w) \/ HandleThrow(w) PROVE MutexExcludes'
    BY <1>6 DEF HandleDone, HandleThrow, TypeOK
  <1>7. CASE StopBegin \/ StopStep \/ Terminated \/ UNCHANGED vars
    BY <1>7 DEF StopBegin, StopStep, DrainEnds, StopSignal, StopJoin, Terminated, vars
  <1> QED
    BY <1>1, <1>2, <1>3, <1>4, <1>5, <1>6, <1>7 DEF Next, ClientStep, WorkerStep

LEMMA EmptyHandsStep ==
  ASSUME MAX_PREFETCH_EVENTS <= 1, TypeOK, EmptyHands, [Next]_vars
  PROVE  EmptyHands'
  <1>1. ASSUME NEW c \in Clients, ClientStep(c) PROVE EmptyHands'
    BY <1>1 DEF ClientStep, PushLock, Push, EmptyHands
  <1>2. ASSUME NEW w \in Workers, Poll(w) \/ PopLock(w) PROVE EmptyHands'
    BY <1>2 DEF Poll, PopLock, EmptyHands, TypeOK
  <1>3. ASSUME NEW w \in Workers, Pop(w) PROVE EmptyHands'
    <2>1. CASE queue = <<>>
      <3>1. throws = 0 => events[w] = <<>>
        BY <1>3 DEF Pop, EmptyHands
      <3> QED BY <1>3, <2>1, <3>1 DEF Pop, EmptyHands, TypeOK
    <2>2. CASE queue # <<>>
      <3>1. Append(events[w], Head(queue)) \in Seq(Event)
        BY <2>2, ElemsHeadTail DEF TypeOK
      <3>2. BatchReady(Append(events[w], Head(queue)))
        <4>1. Len(Append(events[w], Head(queue))) >= 1
          BY <2>2, ElemsHeadTail DEF TypeOK
        <4> QED BY <3>1, <4>1, BoundsAssumption DEF BatchReady, BoundsAssumption
      <3>3. /\ events'[w] = Append(events[w], Head(queue))
            /\ wpc'[w] = "handle"
        BY <1>3, <2>2, <3>2 DEF Pop, TypeOK
      <3> QED BY <1>3, <2>2, <3>3 DEF Pop, EmptyHands, TypeOK
    <2> QED BY <2>1, <2>2
  <1>4. ASSUME NEW w \in Workers, HandleDone(w) PROVE EmptyHands'
    BY <1>4 DEF HandleDone, EmptyHands, TypeOK
  <1>5. ASSUME NEW w \in Workers, HandleThrow(w) PROVE EmptyHands'
    BY <1>5, BoundsAssumption DEF HandleThrow, EmptyHands, TypeOK, BoundsAssumption
  <1>6. CASE StopBegin \/ StopStep \/ Terminated \/ UNCHANGED vars
    BY <1>6 DEF StopBegin, StopStep, DrainEnds, StopSignal, StopJoin, Terminated,
                vars, EmptyHands
  <1> QED
    BY <1>1, <1>2, <1>3, <1>4, <1>5, <1>6 DEF Next, WorkerStep

LEMMA DrainedQueueStep ==
  ASSUME TypeOK, TypeOK', EachEventInOnePlace, Fresh, DrainInv, [Next]_vars
  PROVE  DrainedQueue' /\ (beforeStop \subseteq Elems(pushed))'
  <1> DEFINE Goal == DrainedQueue' /\ (beforeStop \subseteq Elems(pushed))'
  <1>1. ASSUME NEW c \in Clients, PushLock(c) PROVE Goal
    BY <1>1, NamesAssumption
    DEF PushLock, DrainInv, DrainedQueue, NamesAssumption
  <1>2. ASSUME NEW c \in Clients, Push(c) PROVE Goal
    <2> DEFINE e == NextEvent(c)
    <2>1. mutex = c /\ mutex \notin Workers
      BY <1>2, NamesAssumption DEF Push, DrainInv, MutexExcludes, NamesAssumption
    <2>2. e \notin Elems(pushed) /\ e \in Event
      BY <1>2, FreshEvent
    <2>3. /\ Elems(queue') = Elems(queue) \cup {e}
          /\ Elems(pushed') = Elems(pushed) \cup {e}
      BY <1>2, <2>2, ElemsAppend DEF Push, TypeOK
    <2>4. UNCHANGED <<mpc, torn, beforeStop>>
      BY <1>2 DEF Push
    <2>5. beforeStop \cap Elems(queue') = beforeStop \cap Elems(queue)
      BY <2>2, <2>3 DEF DrainInv
    <2> HIDE DEF e
    <2> QED BY <2>1, <2>3, <2>4, <2>5 DEF DrainInv, DrainedQueue
  <1>3. ASSUME NEW w \in Workers, PopLock(w) PROVE Goal
    BY <1>3, NamesAssumption
    DEF PopLock, DrainInv, DrainedQueue, NamesAssumption
  <1>4. ASSUME NEW w \in Workers, Pop(w) PROVE Goal
    <2>1. mutex = w /\ UNCHANGED <<mpc, torn, beforeStop, pushed>>
      BY <1>4 DEF Pop, DrainInv, MutexExcludes
    <2>2. CASE queue = <<>>
      BY <1>4, <2>1, <2>2, ElemsEmpty DEF Pop, DrainInv, DrainedQueue
    <2>3. CASE queue # <<>>
      <3>1. queue \in Seq(Event) /\ Distinct(queue) /\ queue' = Tail(queue)
        BY <1>4, <2>3 DEF Pop, TypeOK, EachEventInOnePlace
      <3>2. Elems(queue) = {Head(queue)} \cup Elems(Tail(queue))
        BY <2>3, <3>1, ElemsHeadTail
      <3>3. Head(queue) \notin Elems(Tail(queue))
        BY <2>3, <3>1, DistinctTail
      <3> QED BY <2>1, <3>1, <3>2, <3>3 DEF DrainInv, DrainedQueue
    <2> QED BY <2>2, <2>3
  <1>5. ASSUME NEW w \in Workers, Poll(w) \/ HandleDone(w) \/ HandleThrow(w)
        PROVE  Goal
    BY <1>5 DEF Poll, HandleDone, HandleThrow, DrainInv, DrainedQueue
  <1>6. CASE StopBegin
    BY <1>6 DEF StopBegin, DrainInv, DrainedQueue
  <1>7. CASE DrainEnds
    <2>1. UNCHANGED <<queue, mutex, pushed, beforeStop>> /\ torn' = ~QueueIsDrained
      BY <1>7 DEF DrainEnds
    <2>2. ASSUME ~torn', NEW e \in Elems(queue)
          PROVE  mutex \in Workers /\ e = Head(queue)
      <3>1. QueueIsDrained
        BY <2>1, <2>2
      <3>2. queue # <<>> /\ queue \in Seq(Event)
        BY <2>2, ElemsEmpty DEF TypeOK
      <3>3. mutex \in Workers /\ Len(queue) = 1
        BY <3>1, <3>2 DEF QueueIsDrained
      <3> QED BY <2>2, <3>2, <3>3 DEF Elems
    <2> QED BY <2>1, <2>2 DEF DrainInv, DrainedQueue
  <1>8. CASE StopSignal \/ StopJoin \/ Terminated \/ UNCHANGED vars
    BY <1>8 DEF StopSignal, StopJoin, Terminated, vars, DrainInv, DrainedQueue
  <1> QED
    BY <1>1, <1>2, <1>3, <1>4, <1>5, <1>6, <1>7, <1>8
    DEF Next, ClientStep, WorkerStep, StopStep

LEMMA JoinedStep ==
  ASSUME TypeOK, Counters, Joined, [Next]_vars
  PROVE  Joined'
  <1> USE BoundsAssumption DEF BoundsAssumption, Joined
  <1>1. ASSUME NEW c \in Clients, ClientStep(c) PROVE Joined'
    BY <1>1 DEF ClientStep, PushLock, Push
  <1>2. ASSUME NEW w \in Workers, WorkerStep(w) PROVE Joined'
    <2>1. \A v \in Workers : wpc[v] = "exited" => wpc'[v] = "exited"
      BY <1>2 DEF WorkerStep, Poll, PopLock, Pop, HandleDone, HandleThrow, TypeOK
    <2>2. UNCHANGED <<mpc, kill>>
      BY <1>2 DEF WorkerStep, Poll, PopLock, Pop, HandleDone, HandleThrow
    <2> QED BY <2>1, <2>2
  <1>3. CASE DrainEnds
    BY <1>3 DEF DrainEnds, Counters
  <1>4. CASE StopJoin
    BY <1>4 DEF StopJoin, TypeOK, Workers
  <1>5. CASE StopBegin \/ StopSignal \/ Terminated \/ UNCHANGED vars
    BY <1>5 DEF StopBegin, StopSignal, Terminated, vars
  <1> QED
    BY <1>1, <1>2, <1>3, <1>4, <1>5 DEF Next, StopStep

LEMMA DrainImplies ==
  ASSUME TypeOK, EachEventInOnePlace, DrainInv
  PROVE  StopDrainsUnlessTorn
  <1> SUFFICES ASSUME mpc = "stopped", throws = 0, ~torn
               PROVE  AllHandled(beforeStop)
    BY DEF StopDrainsUnlessTorn
  <1>1. \A w \in Workers : wpc[w] = "exited"
    BY BoundsAssumption DEF DrainInv, Joined, Workers, BoundsAssumption
  <1>2. \A w \in Workers : Held(w) = Elems(handled[w])
    BY <1>1, ElemsEmpty DEF DrainInv, EmptyHands, Held
  <1>3. mutex \notin Workers
    BY <1>1 DEF DrainInv, MutexExcludes
  <1>4. beforeStop \cap Elems(queue) = {}
    BY <1>3 DEF DrainInv, DrainedQueue
  <1>5. beforeStop \subseteq UNION {Held(w) : w \in Workers}
    BY <1>4 DEF DrainInv, EachEventInOnePlace
  <1> QED
    BY <1>2, <1>5 DEF AllHandled

(***************************************************************************)
(* With the batch size the code has (1), for any number of clients and     *)
(* workers: when stop() returns, every event pushed before it was called   *)
(* has been handled, unless the handler threw or the unlocked Size read    *)
(* was wrong.                                                              *)
(***************************************************************************)
THEOREM DrainSafe ==
  ASSUME MAX_PREFETCH_EVENTS <= 1
  PROVE  Spec => []StopDrainsUnlessTorn
<1>1. Init => DrainInv
  <2> SUFFICES ASSUME Init PROVE DrainInv
    OBVIOUS
  <2>1. MutexExcludes
    BY NamesAssumption DEF Init, MutexExcludes, NamesAssumption
  <2>2. EmptyHands /\ beforeStop \subseteq Elems(pushed) /\ DrainedQueue
    BY DEF Init, EmptyHands, DrainedQueue
  <2>3. Joined
    BY DEF Init, Joined, Workers
  <2> QED BY <2>1, <2>2, <2>3 DEF DrainInv
<1>2. ASSUME TypeOK, TypeOK', Counters, EachEventInOnePlace, Fresh, DrainInv, [Next]_vars
      PROVE  DrainInv'
  <2>1. MutexExcludes'
    BY <1>2, MutexStep DEF DrainInv
  <2>2. EmptyHands'
    BY <1>2, EmptyHandsStep DEF DrainInv
  <2>3. DrainedQueue' /\ (beforeStop \subseteq Elems(pushed))'
    BY <1>2, DrainedQueueStep
  <2>4. Joined'
    BY <1>2, JoinedStep DEF DrainInv
  <2> QED BY <2>1, <2>2, <2>3, <2>4 DEF DrainInv
<1>3. TypeOK /\ EachEventInOnePlace /\ DrainInv => StopDrainsUnlessTorn
  BY DrainImplies
<1> QED
  BY <1>1, <1>2, <1>3, TypeInductive, OnePlaceInductive, PTL DEF Spec


----------------------------------------------------------------------------
(* The order of the events. *)

(* What is in the queue is what was pushed last, in that order; what a      *)
(* worker has taken was pushed before all of it.                            *)
QueueIsRest ==
    /\ Len(queue) <= Len(pushed)
    /\ \A i \in 1 .. Len(queue) : queue[i] = pushed[Len(pushed) - Len(queue) + i]

TakenEarlier ==
    \A w \in Workers : \A e \in Held(w) : PushedAt(e) <= Len(pushed) - Len(queue)

OrderInv ==
    /\ Distinct(pushed)
    /\ QueueIsRest
    /\ TakenEarlier
    /\ HandledInPushOrder

LEMMA PushedAtIs ==
  ASSUME Distinct(pushed), NEW i \in 1 .. Len(pushed)
  PROVE  PushedAt(pushed[i]) = i
  <1>1. PushedAt(pushed[i]) \in 1 .. Len(pushed) /\ pushed[PushedAt(pushed[i])] = pushed[i]
    BY DEF PushedAt
  <1> QED
    BY <1>1 DEF Distinct

LEMMA PushedAtType ==
  ASSUME NEW e \in Elems(pushed)
  PROVE  PushedAt(e) \in 1 .. Len(pushed) /\ pushed[PushedAt(e)] = e
  <1>1. \E i \in 1 .. Len(pushed) : pushed[i] = e
    BY DEF Elems
  <1> QED
    BY <1>1 DEF PushedAt

(* A push comes after everything pushed so far. *)
LEMMA PushKeepsOrder ==
  ASSUME TypeOK, TypeOK', EachEventInOnePlace, Fresh, OrderInv, NEW c \in Clients, Push(c)
  PROVE  OrderInv'
  <1> DEFINE e == NextEvent(c)
  <1>1. e \in Event /\ e \notin Elems(pushed)
    BY FreshEvent
  <1>2. /\ queue' = Append(queue, e) /\ pushed' = Append(pushed, e)
        /\ UNCHANGED <<handled, events>>
    BY DEF Push
  <1> HIDE DEF e
  <1>3. /\ queue \in Seq(Event) /\ pushed \in Seq(Event)
        /\ Len(queue) \in Nat /\ Len(pushed) \in Nat
    BY DEF TypeOK
  <1>4. /\ Len(queue') = Len(queue) + 1 /\ Len(pushed') = Len(pushed) + 1
        /\ \A i \in 1 .. Len(pushed) : pushed'[i] = pushed[i]
        /\ \A i \in 1 .. Len(queue) : queue'[i] = queue[i]
        /\ pushed'[Len(pushed) + 1] = e /\ queue'[Len(queue) + 1] = e
    BY <1>1, <1>2, <1>3
  <1>5. Distinct(pushed')
    BY <1>1, <1>2, <1>3, DistinctAppend DEF OrderInv
  <1>6. QueueIsRest'
    <2>1. Len(queue) <= Len(pushed)
      BY DEF OrderInv, QueueIsRest
    <2>2. Len(queue') <= Len(pushed') /\ Len(pushed') - Len(queue') = Len(pushed) - Len(queue)
      BY <1>3, <1>4, <2>1
    <2>3. ASSUME NEW i \in 1 .. Len(queue')
          PROVE  queue'[i] = pushed'[Len(pushed') - Len(queue') + i]
      <3>1. CASE i = Len(queue) + 1
        <4>1. Len(pushed') - Len(queue') + i = Len(pushed) + 1
          BY <1>3, <2>2, <3>1
        <4> QED
          BY <1>4, <3>1, <4>1
      <3>2. CASE i \in 1 .. Len(queue)
        <4>1. Len(pushed) - Len(queue) + i \in 1 .. Len(pushed)
          BY <1>3, <2>1, <3>2
        <4>2. queue[i] = pushed[Len(pushed) - Len(queue) + i]
          BY <3>2 DEF OrderInv, QueueIsRest
        <4> QED
          BY <1>4, <2>2, <3>2, <4>1, <4>2
      <3> QED
        BY <1>3, <1>4, <3>1, <3>2
    <2> QED
      BY <2>2, <2>3 DEF QueueIsRest
  <1>7. ASSUME NEW f \in Elems(pushed) PROVE PushedAt(f)' = PushedAt(f)
    <2>1. PushedAt(f) \in 1 .. Len(pushed) /\ pushed[PushedAt(f)] = f
      BY PushedAtType
    <2> DEFINE p == PushedAt(f)
    <2>2. p \in 1 .. Len(pushed') /\ pushed'[p] = f
      BY <1>3, <1>4, <2>1
    <2>3. \A i \in 1 .. Len(pushed') : pushed'[i] = f => i = p
      BY <1>5, <2>2 DEF Distinct
    <2>4. PushedAt(f)' = CHOOSE i \in 1 .. Len(pushed') : pushed'[i] = f
      BY DEF PushedAt
    <2> HIDE DEF p
    <2>5. PushedAt(f)' = p
      BY <2>2, <2>3, <2>4
    <2> QED
      BY <2>5 DEF p
  <1>8. \A w \in Workers : Held(w)' = Held(w) /\ Held(w) \subseteq Elems(pushed)
    BY <1>2 DEF Held, EachEventInOnePlace
  <1>9. TakenEarlier'
    <2>1. Len(pushed') - Len(queue') = Len(pushed) - Len(queue)
      BY <1>3, <1>4
    <2> QED
      BY <1>7, <1>8, <2>1 DEF TakenEarlier, OrderInv
  <1>10. HandledInPushOrder'
    <2> SUFFICES ASSUME NEW w \in Workers,
                        NEW i \in 1 .. Len(handled[w] \o events[w]),
                        NEW j \in 1 .. Len(handled[w] \o events[w]), i < j
                 PROVE  PushedAt((handled[w] \o events[w])[i])'
                          < PushedAt((handled[w] \o events[w])[j])'
      BY <1>2 DEF HandledInPushOrder
    <2> DEFINE s == handled[w] \o events[w]
    <2>1. s[i] \in Elems(pushed) /\ s[j] \in Elems(pushed)
      <3>1. s[i] \in Elems(s) /\ s[j] \in Elems(s)
        BY DEF Elems
      <3> QED
        BY <1>8, <3>1, HeldType
    <2>2. PushedAt(s[i]) < PushedAt(s[j])
      BY DEF OrderInv, HandledInPushOrder
    <2>3. (handled[w] \o events[w])' = s
      BY <1>2
    <2> QED
      BY <1>7, <2>1, <2>2, <2>3
  <1> QED
    BY <1>5, <1>6, <1>9, <1>10 DEF OrderInv

(* A pop takes the oldest event of the queue, which is younger than all     *)
(* that was taken before.                                                   *)
LEMMA PopKeepsOrder ==
  ASSUME TypeOK, EachEventInOnePlace, OrderInv, NEW w \in Workers, Pop(w), queue # <<>>
  PROVE  OrderInv'
  <1> DEFINE h == Head(queue)
             n == Len(pushed) - Len(queue)
  <1>1. /\ queue' = Tail(queue) /\ events' = [events EXCEPT ![w] = Append(events[w], h)]
        /\ UNCHANGED <<handled, pushed>>
    BY DEF Pop
  <1>2. /\ queue \in Seq(Event) /\ pushed \in Seq(Event)
        /\ Len(queue) \in Nat /\ Len(pushed) \in Nat /\ Len(queue) >= 1
        /\ Len(queue) <= Len(pushed)
    BY DEF TypeOK, OrderInv, QueueIsRest
  <1>3. /\ Len(queue') = Len(queue) - 1 /\ h = queue[1] /\ h \in Event
        /\ \A i \in 1 .. Len(queue') : queue'[i] = queue[i + 1]
    BY <1>1, <1>2
  <1>4. n \in Nat /\ n + 1 \in 1 .. Len(pushed) /\ h = pushed[n + 1]
    BY <1>2, <1>3 DEF OrderInv, QueueIsRest
  <1>5. PushedAt(h) = n + 1
    BY <1>4, PushedAtIs DEF OrderInv
  <1>6. \A e : PushedAt(e)' = PushedAt(e)
    BY <1>1 DEF PushedAt
  <1>7. Len(pushed') - Len(queue') = n + 1
    BY <1>1, <1>2, <1>3
  <1>8. Distinct(pushed')
    BY <1>1 DEF OrderInv
  <1>9. QueueIsRest'
    <2>1. Len(queue') <= Len(pushed')
      BY <1>1, <1>2, <1>3
    <2>2. ASSUME NEW i \in 1 .. Len(queue')
          PROVE  queue'[i] = pushed'[Len(pushed') - Len(queue') + i]
      <3>1. i \in Int /\ i + 1 \in 1 .. Len(queue) /\ queue'[i] = queue[i + 1]
        BY <1>2, <1>3
      <3>2. queue[i + 1] = pushed[Len(pushed) - Len(queue) + (i + 1)]
        BY <3>1 DEF OrderInv, QueueIsRest
      <3>3. Len(pushed') - Len(queue') + i = Len(pushed) - Len(queue) + (i + 1)
        BY <1>2, <1>7, <3>1
      <3> QED
        BY <1>1, <3>1, <3>2, <3>3
    <2> QED
      BY <2>1, <2>2 DEF QueueIsRest
  <1>10. /\ events'[w] = Append(events[w], h)
         /\ \A v \in Workers : v # w => events'[v] = events[v]
    BY <1>1 DEF TypeOK
  <1> HIDE DEF h, n
  <1>11. /\ Held(w)' = Held(w) \cup {h}
         /\ \A v \in Workers : v # w => Held(v)' = Held(v)
    BY <1>1, <1>3, <1>10, ElemsAppend, HeldType DEF Held
  <1>12. ASSUME NEW v \in Workers, NEW e \in Held(v)
         PROVE  PushedAt(e) \in Nat /\ PushedAt(e) <= n
    <2>1. e \in Elems(pushed)
      BY DEF EachEventInOnePlace
    <2> QED
      BY <1>2, <2>1, PushedAtType DEF OrderInv, TakenEarlier, n
  <1>13. TakenEarlier'
    <2> SUFFICES ASSUME NEW v \in Workers, NEW e \in Held(v)'
                 PROVE  PushedAt(e)' <= Len(pushed') - Len(queue')
      BY DEF TakenEarlier
    <2>1. CASE e \in Held(v)
      BY <1>4, <1>6, <1>7, <1>12, <2>1
    <2>2. CASE e = h
      BY <1>4, <1>5, <1>6, <1>7, <2>2
    <2> QED
      BY <1>11, <2>1, <2>2
  <1>14. HandledInPushOrder'
    <2> SUFFICES ASSUME NEW v \in Workers,
                        NEW i \in 1 .. Len(handled'[v] \o events'[v]),
                        NEW j \in 1 .. Len(handled'[v] \o events'[v]), i < j
                 PROVE  PushedAt((handled'[v] \o events'[v])[i])
                          < PushedAt((handled'[v] \o events'[v])[j])
      BY <1>6 DEF HandledInPushOrder
    <2> DEFINE s == handled[v] \o events[v]
               t == handled'[v] \o events'[v]
    <2>1. CASE v # w
      BY <1>1, <1>10, <2>1 DEF OrderInv, HandledInPushOrder
    <2>2. CASE v = w
      <3>1. t = Append(s, h)
        <4>1. handled[w] \in Seq(Event) /\ events[w] \in Seq(Event) /\ h \in Event
          BY <1>3, HeldType
        <4>2. \A x, y \in Seq(Event) : \A e \in Event : x \o Append(y, e) = Append(x \o y, e)
          BY ConcatAppend
        <4>3. handled[w] \o Append(events[w], h) = Append(handled[w] \o events[w], h)
          BY <4>1, <4>2, Zenon
        <4> QED
          BY <1>1, <1>10, <2>2, <4>3
      <3>2. s \in Seq(Event) /\ Elems(s) = Held(v)
        BY HeldType
      <3>3. \A x, y \in 1 .. Len(s) : x < y => PushedAt(s[x]) < PushedAt(s[y])
        BY DEF OrderInv, HandledInPushOrder
      <3>4. i \in 1 .. Len(t) /\ j \in 1 .. Len(t)
        OBVIOUS
      <3> HIDE DEF s, t
      <3>5. /\ Len(t) = Len(s) + 1 /\ Len(s) \in Nat /\ t[Len(s) + 1] = h
            /\ \A x \in 1 .. Len(s) : t[x] = s[x] /\ s[x] \in Held(v)
        BY <1>3, <3>1, <3>2 DEF Elems
      <3>6. i \in 1 .. Len(s) /\ (j \in 1 .. Len(s) \/ j = Len(s) + 1)
        BY <3>4, <3>5
      <3>7. PushedAt(t[i]) < PushedAt(t[j])
        <4>1. CASE j \in 1 .. Len(s)
          BY <3>3, <3>5, <3>6, <4>1
        <4>2. CASE j = Len(s) + 1
          <5>1. t[i] \in Held(v) /\ t[j] = h
            BY <3>5, <3>6, <4>2
          <5>2. PushedAt(t[i]) \in Nat /\ PushedAt(t[i]) <= n /\ PushedAt(t[j]) = n + 1
            BY <1>5, <1>12, <5>1
          <5> QED
            BY <1>4, <5>2
        <4> QED
          BY <3>6, <4>1, <4>2
      <3> QED
        BY <3>7 DEF t
    <2> QED
      BY <2>1, <2>2
  <1> QED
    BY <1>8, <1>9, <1>13, <1>14 DEF OrderInv

LEMMA HandleKeepsOrder ==
  ASSUME TypeOK, OrderInv, NEW w \in Workers, HandleDone(w)
  PROVE  OrderInv'
  <1>1. UNCHANGED <<queue, pushed>>
    BY DEF HandleDone
  <1>2. /\ handled'[w] = handled[w] \o events[w] /\ events'[w] = <<>>
        /\ \A v \in Workers : v # w => /\ handled'[v] = handled[v]
                                       /\ events'[v] = events[v]
    BY DEF HandleDone, TypeOK
  <1>3. \A v \in Workers : handled'[v] \o events'[v] = handled[v] \o events[v]
    BY <1>2, HeldType, ConcatEmpty
  <1>4. \A v \in Workers : Held(v)' = Held(v)
    BY <1>2, HeldType, ElemsEmpty DEF Held
  <1>5. \A e : PushedAt(e)' = PushedAt(e)
    BY <1>1 DEF PushedAt
  <1> QED
    BY <1>1, <1>3, <1>4, <1>5
    DEF OrderInv, QueueIsRest, TakenEarlier, HandledInPushOrder, Distinct

(* A worker handles events in the order in which they were pushed           *)
(* (runClientServerInternal over Push and Pop), with any number of clients  *)
(* and workers, and when a batch is handled again after an exception too.   *)
THEOREM PushOrderIsKept == Spec => []HandledInPushOrder
<1>1. Init => OrderInv
  <2> SUFFICES ASSUME Init PROVE OrderInv
    OBVIOUS
  <2>1. /\ queue = <<>> /\ pushed = <<>>
        /\ \A w \in Workers : handled[w] = <<>> /\ events[w] = <<>>
    BY DEF Init
  <2>2. Distinct(pushed) /\ QueueIsRest
    BY <2>1 DEF Distinct, QueueIsRest
  <2>3. \A w \in Workers : Held(w) = {} /\ handled[w] \o events[w] = <<>>
    BY <2>1, ElemsEmpty DEF Held
  <2>4. \A w \in Workers : 1 .. Len(handled[w] \o events[w]) = {}
    <3>1. 1 .. Len(<<>>) = {}
      OBVIOUS
    <3> QED
      BY <2>3, <3>1, Zenon
  <2>5. HandledInPushOrder
    BY <2>4 DEF HandledInPushOrder
  <2> QED
    BY <2>2, <2>3, <2>5 DEF OrderInv, TakenEarlier
<1>2. ASSUME TypeOK, TypeOK', EachEventInOnePlace, Fresh, OrderInv, [Next]_vars
      PROVE  OrderInv'
  <2>1. ASSUME NEW c \in Clients, Push(c) PROVE OrderInv'
    BY <1>2, <2>1, PushKeepsOrder
  <2>2. ASSUME NEW w \in Workers, Pop(w), queue # <<>> PROVE OrderInv'
    BY <1>2, <2>2, PopKeepsOrder
  <2>3. ASSUME NEW w \in Workers, HandleDone(w) PROVE OrderInv'
    BY <1>2, <2>3, HandleKeepsOrder
  <2>4. CASE UNCHANGED <<queue, events, handled, pushed>>
    <3>1. (\A e : PushedAt(e)' = PushedAt(e)) /\ \A w \in Workers : Held(w)' = Held(w)
      BY <2>4 DEF PushedAt, Held
    <3>2. HandledInPushOrder'
      BY <1>2, <2>4, <3>1 DEF OrderInv, HandledInPushOrder
    <3>3. TakenEarlier'
      BY <1>2, <2>4, <3>1 DEF OrderInv, TakenEarlier
    <3>4. QueueIsRest' /\ Distinct(pushed')
      BY <1>2, <2>4 DEF OrderInv, QueueIsRest
    <3> QED
      BY <3>2, <3>3, <3>4 DEF OrderInv
  <2>5. ASSUME NEW c \in Clients, PushLock(c)
        PROVE  UNCHANGED <<queue, events, handled, pushed>>
    BY <2>5 DEF PushLock
  <2>6. ASSUME NEW w \in Workers,
               Poll(w) \/ PopLock(w) \/ HandleThrow(w) \/ (Pop(w) /\ queue = <<>>)
        PROVE  UNCHANGED <<queue, events, handled, pushed>>
    BY <2>6 DEF Poll, PopLock, HandleThrow, Pop
  <2>7. CASE StopBegin \/ StopStep \/ Terminated \/ UNCHANGED vars
    BY <2>4, <2>7
    DEF StopBegin, StopStep, DrainEnds, StopSignal, StopJoin, Terminated, vars
  <2> QED
    BY <1>2, <2>1, <2>2, <2>3, <2>4, <2>5, <2>6, <2>7
    DEF Next, ClientStep, WorkerStep
<1>3. OrderInv => HandledInPushOrder
  BY DEF OrderInv
<1> QED
  BY <1>1, <1>2, <1>3, TypeInductive, OnePlaceInductive, PTL DEF Spec
=============================================================================
