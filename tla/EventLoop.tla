----------------------------- MODULE EventLoop -----------------------------
(***************************************************************************)
(* The event path of one HFetch server: client processes push I/O events   *)
(* into the server's shared-memory queue (Server::pushEvents over          *)
(* DistributedMessageQueue::Push), worker threads poll, pop and handle     *)
(* them (Server::runClientServerInternal), and the main thread shuts the   *)
(* workers down (Server::stop).                                            *)
(*                                                                         *)
(* The queue is protected by one interprocess mutex, except in Size, which *)
(* reads the deque with no lock at all.  A step that holds the mutex is    *)
(* therefore split in two (lock; mutate and unlock) so that the unlocked   *)
(* reader can fall between them.                                           *)
(*                                                                         *)
(* What an event says (file, segment, type, time) does not matter here: an *)
(* event is named by its client and its number in that client's program    *)
(* order.  A client process is sequential, so it has one push in flight.   *)
(***************************************************************************)
EXTENDS Naturals, Sequences, FiniteSets

CONSTANTS
    Clients,                \* application processes attached to this server
    NumWorkers,             \* async_run's numWorker
    MAX_PREFETCH_EVENTS,    \* size of a batch (1 in common/constants.h)
    MaxPushes,              \* bound: events per client
    MaxThrows,              \* bound: exceptions thrown by EventManager::handle
    Free                    \* the mutex when nobody holds it

Workers == 0 .. (NumWorkers - 1)

ASSUME BoundsAssumption ==
    /\ NumWorkers \in Nat
    /\ MAX_PREFETCH_EVENTS \in Nat
    /\ MaxPushes \in Nat
    /\ MaxThrows \in Nat

ASSUME NamesAssumption ==
    /\ Clients \cap Workers = {}
    /\ Free \notin Clients \cup Workers

VARIABLES
    queue,      \* the deque of events in shared memory
    mutex,      \* who holds the interprocess mutex
    cpc,        \* client: "app" (in the application) or "locked" (inside Push)
    sent,       \* client: events it has pushed
    wpc,        \* worker: where it is in its loop
    events,     \* worker: its local vector of events
    signal,     \* worker: its exit promise has been set
    mpc,        \* main thread: "serving", "draining", "killing", "stopped"
    kill,       \* main thread: loop index of stop()
    throws      \* exceptions thrown so far

\* History, read by the properties only: the order of the pushes, the events
\* each worker has handled, the pushes that precede stop(), and whether the
\* size that ended the drain loop was wrong.
VARIABLES pushed, handled, beforeStop, torn

vars == <<queue, mutex, cpc, sent, wpc, events, signal, mpc, kill, throws,
          pushed, handled, beforeStop, torn>>

Event == [client : Clients, num : 1 .. MaxPushes]

Elems(s) == {s[i] : i \in 1 .. Len(s)}

TypeOK ==
    /\ queue \in Seq(Event)
    /\ mutex \in Clients \cup Workers \cup {Free}
    /\ cpc \in [Clients -> {"app", "locked"}]
    /\ sent \in [Clients -> 0 .. MaxPushes]
    /\ wpc \in [Workers -> {"poll", "pop", "locked", "handle", "exited"}]
    /\ events \in [Workers -> Seq(Event)]
    /\ signal \in [Workers -> BOOLEAN]
    /\ mpc \in {"serving", "draining", "killing", "joining", "stopped"}
    /\ kill \in 0 .. NumWorkers
    /\ throws \in 0 .. MaxThrows
    /\ pushed \in Seq(Event)
    /\ handled \in [Workers -> Seq(Event)]
    /\ beforeStop \subseteq Event
    /\ torn \in BOOLEAN

----------------------------------------------------------------------------
(* Server::async_run has started the workers. *)
Init ==
    /\ queue = <<>>
    /\ mutex = Free
    /\ cpc = [c \in Clients |-> "app"]
    /\ sent = [c \in Clients |-> 0]
    /\ wpc = [w \in Workers |-> "poll"]
    /\ events = [w \in Workers |-> <<>>]
    /\ signal = [w \in Workers |-> FALSE]
    /\ mpc = "serving"
    /\ kill = 0
    /\ throws = 0
    /\ pushed = <<>>
    /\ handled = [w \in Workers |-> <<>>]
    /\ beforeStop = {}
    /\ torn = FALSE

----------------------------------------------------------------------------
(* Clients: Server::pushEvents, DistributedMessageQueue::Push (local). *)

PushLock(c) ==
    /\ cpc[c] = "app" /\ sent[c] < MaxPushes
    /\ mutex = Free
    /\ mutex' = c
    /\ cpc' = [cpc EXCEPT ![c] = "locked"]
    /\ UNCHANGED <<queue, sent, wpc, events, signal, mpc, kill, throws,
                   pushed, handled, beforeStop, torn>>

NextEvent(c) == [client |-> c, num |-> sent[c] + 1]

\* Mutant of Push: push_front.
PushAtFront(c) ==
    /\ cpc[c] = "locked"
    /\ queue' = <<NextEvent(c)>> \o queue
    /\ pushed' = Append(pushed, NextEvent(c))
    /\ sent' = [sent EXCEPT ![c] = sent[c] + 1]
    /\ mutex' = Free
    /\ cpc' = [cpc EXCEPT ![c] = "app"]
    /\ UNCHANGED <<wpc, events, signal, mpc, kill, throws, handled,
                   beforeStop, torn>>

Push(c) ==
    /\ cpc[c] = "locked"
    /\ queue' = Append(queue, NextEvent(c))
    /\ pushed' = Append(pushed, NextEvent(c))
    /\ sent' = [sent EXCEPT ![c] = sent[c] + 1]
    /\ mutex' = Free
    /\ cpc' = [cpc EXCEPT ![c] = "app"]
    /\ UNCHANGED <<wpc, events, signal, mpc, kill, throws, handled,
                   beforeStop, torn>>

----------------------------------------------------------------------------
(* Workers: Server::runClientServerInternal. *)

(* futureObj.wait_for(1ms): go on only if it times out. *)
Poll(w) ==
    /\ wpc[w] = "poll"
    /\ wpc' = [wpc EXCEPT ![w] = IF signal[w] THEN "exited" ELSE "pop"]
    /\ UNCHANGED <<queue, mutex, cpc, sent, events, signal, mpc, kill, throws,
                   pushed, handled, beforeStop, torn>>

PopLock(w) ==
    /\ wpc[w] = "pop"
    /\ mutex = Free
    /\ mutex' = w
    /\ wpc' = [wpc EXCEPT ![w] = "locked"]
    /\ UNCHANGED <<queue, cpc, sent, events, signal, mpc, kill, throws,
                   pushed, handled, beforeStop, torn>>

(* The worker goes on to handle whatever it holds once that fills a batch:  *)
(* what a throwing handler left behind counts too.                          *)
BatchOverfull(batch) == Len(batch) > MAX_PREFETCH_EVENTS \* mutant: > for >=

BatchReady(batch) == Len(batch) > 0 /\ Len(batch) >= MAX_PREFETCH_EVENTS

\* Mutant of Pop: front() without pop_front().
PopKeepsFront(w) ==
    /\ wpc[w] = "locked"
    /\ IF queue = <<>>
       THEN UNCHANGED events
       ELSE events' = [events EXCEPT ![w] = Append(events[w], Head(queue))]
    /\ wpc' = [wpc EXCEPT ![w] = IF BatchReady(events'[w]) THEN "handle"
                                                           ELSE "poll"]
    /\ mutex' = Free
    /\ UNCHANGED <<queue, cpc, sent, signal, mpc, kill, throws, pushed,
                   handled, beforeStop, torn>>

\* Mutant of Pop: the flag of the returned pair is ignored, so an empty queue
\* delivers a default-constructed event.
PopDefault(w) ==
    /\ wpc[w] = "locked"
    /\ events' = [events EXCEPT ![w] = Append(events[w],
                     IF queue = <<>> THEN [client |-> Free, num |-> 0]
                                     ELSE Head(queue))]
    /\ queue' = IF queue = <<>> THEN queue ELSE Tail(queue)
    /\ wpc' = [wpc EXCEPT ![w] = IF BatchReady(events'[w]) THEN "handle"
                                                           ELSE "poll"]
    /\ mutex' = Free
    /\ UNCHANGED <<cpc, sent, signal, mpc, kill, throws, pushed, handled,
                   beforeStop, torn>>

(* DistributedMessageQueue::Pop (local), push_back, and the test on size(). *)
Pop(w) ==
    /\ wpc[w] = "locked"
    /\ IF queue = <<>>
       THEN UNCHANGED <<queue, events>>
       ELSE /\ queue' = Tail(queue)
            /\ events' = [events EXCEPT ![w] = Append(events[w], Head(queue))]
    /\ wpc' = [wpc EXCEPT ![w] = IF BatchReady(events'[w]) THEN "handle"
                                                           ELSE "poll"]
    /\ mutex' = Free
    /\ UNCHANGED <<cpc, sent, signal, mpc, kill, throws, pushed, handled,
                   beforeStop, torn>>

(* eventManager->handle(events); events.clear(). *)
HandleDone(w) ==
    /\ wpc[w] = "handle"
    /\ handled' = [handled EXCEPT ![w] = handled[w] \o events[w]]
    /\ events' = [events EXCEPT ![w] = <<>>]
    /\ wpc' = [wpc EXCEPT ![w] = "poll"]
    /\ UNCHANGED <<queue, mutex, cpc, sent, signal, mpc, kill, throws, pushed,
                   beforeStop, torn>>

(* handle throws: the catch block swallows it and events is NOT cleared, so *)
(* the whole batch is handled again after the next pop.                     *)
HandleThrow(w) ==
    /\ wpc[w] = "handle"
    /\ throws < MaxThrows
    /\ throws' = throws + 1
    /\ wpc' = [wpc EXCEPT ![w] = "poll"]
    /\ UNCHANGED <<queue, mutex, cpc, sent, events, signal, mpc, kill, pushed,
                   handled, beforeStop, torn>>

----------------------------------------------------------------------------
(* Main thread: Server::stop. *)

StopBegin ==
    /\ mpc = "serving"
    /\ mpc' = "draining"
    /\ beforeStop' = Elems(pushed)
    /\ UNCHANGED <<queue, mutex, cpc, sent, wpc, events, signal, kill, throws,
                   pushed, handled, torn>>

(* DistributedMessageQueue::Size takes no lock.  With no push or pop under *)
(* way it returns the size; while one rewrites the deque's start and       *)
(* finish positions the read races with it and may return anything.        *)
SizeMayReadZero == queue = <<>> \/ mutex # Free

(* The size the queue really has, not counting an element being popped. *)
QueueIsDrained ==
    \/ queue = <<>>
    \/ mutex \in Workers /\ Len(queue) = 1

(* The drain loop reads zero and ends.  (Reading anything else is a step    *)
(* that changes nothing.)                                                   *)
DrainEnds ==
    /\ mpc = "draining"
    /\ SizeMayReadZero
    /\ torn' = ~QueueIsDrained
    /\ mpc' = IF NumWorkers = 0 THEN "stopped" ELSE "killing"
    /\ UNCHANGED <<queue, mutex, cpc, sent, wpc, events, signal, kill, throws,
                   pushed, handled, beforeStop>>

\* Mutant of StopSignal: always the first worker's promise.
StopSignalFirst ==
    /\ mpc = "killing"
    /\ signal' = [signal EXCEPT ![0] = TRUE]
    /\ mpc' = "joining"
    /\ UNCHANGED <<queue, mutex, cpc, sent, wpc, events, kill, throws, pushed,
                   handled, beforeStop, torn>>

(* client_server_exit_signal[i].set_value() *)
StopSignal ==
    /\ mpc = "killing"
    /\ signal' = [signal EXCEPT ![kill] = TRUE]
    /\ mpc' = "joining"
    /\ UNCHANGED <<queue, mutex, cpc, sent, wpc, events, kill, throws, pushed,
                   handled, beforeStop, torn>>

\* Mutant of StopJoin: detach instead of join.
StopDetach ==
    /\ mpc = "joining"
    /\ kill' = kill + 1
    /\ mpc' = IF kill + 1 = NumWorkers THEN "stopped" ELSE "killing"
    /\ UNCHANGED <<queue, mutex, cpc, sent, wpc, events, signal, throws,
                   pushed, handled, beforeStop, torn>>

(* client_server_workers[i].join(), then the next worker *)
StopJoin ==
    /\ mpc = "joining"
    /\ wpc[kill] = "exited"
    /\ kill' = kill + 1
    /\ mpc' = IF kill + 1 = NumWorkers THEN "stopped" ELSE "killing"
    /\ UNCHANGED <<queue, mutex, cpc, sent, wpc, events, signal, throws,
                   pushed, handled, beforeStop, torn>>

----------------------------------------------------------------------------
(* Every client has finished its pushes and the server is down. *)
Terminated ==
    /\ mpc = "stopped"
    /\ \A c \in Clients : cpc[c] = "app" /\ sent[c] = MaxPushes
    /\ UNCHANGED vars

ClientStep(c) == PushLock(c) \/ Push(c)

WorkerStep(w) ==
    Poll(w) \/ PopLock(w) \/ Pop(w) \/ HandleDone(w) \/ HandleThrow(w)

StopStep == DrainEnds \/ StopSignal \/ StopJoin

Next ==
    \/ \E c \in Clients : ClientStep(c)
    \/ \E w \in Workers : WorkerStep(w)
    \/ StopBegin
    \/ StopStep
    \/ Terminated

(***************************************************************************)
(* Threads that are not blocked run.  A worker that waits for the mutex    *)
(* gets it although other workers take it again and again, because each of *)
(* them sleeps 1 ms in wait_for between two uses: strong fairness of       *)
(* PopLock.  A client need never push, and stop() need never be called.    *)
(***************************************************************************)
Fairness ==
    /\ \A c \in Clients : WF_vars(Push(c))
    /\ \A w \in Workers : /\ WF_vars(Poll(w) \/ Pop(w) \/ HandleDone(w))
                          /\ SF_vars(PopLock(w))
    /\ WF_vars(StopStep)

Spec == Init /\ [][Next]_vars

FairSpec == Spec /\ Fairness

----------------------------------------------------------------------------
(* What a worker has taken from the queue, handled or still in hand. *)
Held(w) == Elems(handled[w]) \cup Elems(events[w])

Distinct(s) == \A i, j \in 1 .. Len(s) : s[i] = s[j] => i = j

(***************************************************************************)
(* Every event that was pushed is in exactly one place: in the queue, in   *)
(* the hands of one worker, or handled by one worker, once.  Nothing is    *)
(* lost or delivered twice by the queue or by the catch block that keeps   *)
(* the batch (runClientServerInternal, Push, Pop).                         *)
(***************************************************************************)
EachEventInOnePlace ==
    /\ Elems(pushed) = Elems(queue) \cup UNION {Held(w) : w \in Workers}
    /\ \A w \in Workers : Elems(queue) \cap Held(w) = {}
    /\ \A v, w \in Workers : v # w => Held(v) \cap Held(w) = {}
    /\ Distinct(queue)
    /\ \A w \in Workers : Distinct(handled[w] \o events[w])

(***************************************************************************)
(* A worker handles events in the order in which they were pushed, across  *)
(* retried batches too: the k-th event of what it handled or holds was     *)
(* pushed before the next one.                                             *)
(***************************************************************************)
PushedAt(e) == CHOOSE i \in 1 .. Len(pushed) : pushed[i] = e

HandledInPushOrder ==
    \A w \in Workers :
        LET s == handled[w] \o events[w]
        IN  \A i, j \in 1 .. Len(s) :
                i < j => PushedAt(s[i]) < PushedAt(s[j])

(***************************************************************************)
(* The mutex does exclude: whoever is between lock and unlock holds it.    *)
(***************************************************************************)
MutexExcludes ==
    /\ \A c \in Clients : cpc[c] = "locked" <=> mutex = c
    /\ \A w \in Workers : wpc[w] = "locked" <=> mutex = w

(***************************************************************************)
(* stop() returns only after everything pushed before it was called has    *)
(* been handled, unless the handler threw or the unlocked Size was wrong:  *)
(* the drain loop, the signal that is only looked at between two batches   *)
(* and the join together leave no other way to lose an event.              *)
(***************************************************************************)
AllHandled(E) == E \subseteq UNION {Elems(handled[w]) : w \in Workers}

StopDrainsUnlessTorn ==
    mpc = "stopped" /\ throws = 0 /\ ~torn => AllHandled(beforeStop)

(***************************************************************************)
(* The same without the excuse of a wrong size: stop() prints "No Events   *)
(* in Queue" (server.h:187) and goes on because Size, documented to return *)
(* "a size of the queue", returned zero.                                   *)
(***************************************************************************)
StopDrains ==
    mpc = "stopped" /\ throws = 0 => AllHandled(beforeStop)

(***************************************************************************)
(* An event in the queue is eventually handled, unless stop() is called    *)
(* (FairSpec).                                                             *)
(***************************************************************************)
PushedIsHandled ==
    \A e \in Event :
        e \in Elems(queue) ~> (AllHandled({e}) \/ mpc # "serving")

(***************************************************************************)
(* stop() returns: the drain loop ends and every worker can be joined.     *)
(***************************************************************************)
StopReturns == mpc = "draining" ~> mpc = "stopped"
=============================================================================
