-------------------------- MODULE NotificationBus --------------------------
(***************************************************************************)
(* The asynchronous event bus of Src_Simulation (include/notification.hpp):*)
(* threads publish into a queue, one worker takes the events out and calls *)
(* the subscribers, flush() waits for it, and the destructor drains what   *)
(* is left.  Two mutexes: one for the queue, one for the subscribers, the  *)
(* latter held by the worker over a whole dispatch round, callbacks        *)
(* included.  A section under the queue's mutex is one action; notifying a *)
(* condition variable comes after it and is an action of its own, so that  *)
(* a lost wake-up would be seen.  A callback takes time: it begins and it  *)
(* ends.                                                                   *)
(*                                                                         *)
(* Events are numbered in the order they are published.  No callback of    *)
(* the program calls the bus.                                              *)
(***************************************************************************)
EXTENDS Integers, SequencesExt

CONSTANTS
  Threads,      \* threads that publish, subscribe and flush
  Subscribers,  \* the SubscriptionIds given out, each once
  MaxEvents     \* bound: events published

ASSUME BusAssumption ==
  /\ Threads # {}
  /\ Subscribers \subseteq Nat \ {0}
  /\ MaxEvents \in Nat

Events == 1 .. MaxEvents
NoEvent == 0
NoOne == 0
Never == MaxEvents + 1

VARIABLES
  queue,        \* queue_
  stopping,     \* stopping_
  inFlight,     \* in_flight_
  subscribers,  \* subscribers_
  worker,       \* where worker_ is in run()
  event,        \* the event it has popped
  toCall,       \* the subscribers it has still to call in this round
  calling,      \* the subscriber whose callback runs
  pc,           \* where each thread is
  destroyer,    \* where the destructor is
  published,    \* history: events published
  mark,         \* history: events published when the thread called flush()
  since,        \* history: events published when the subscriber was added
  received      \* history: the events each subscriber was called with

busVars == <<queue, stopping, inFlight, subscribers, worker, event, toCall, calling, pc,
             destroyer, published, mark, since, received>>

queueVars == <<queue, stopping, inFlight, published>>
roundVars == <<event, toCall, calling, received>>
subscriptionVars == <<subscribers, since>>

WorkerStates == {"awake", "asleep", "popped", "round", "counting", "notify", "ended"}
ThreadStates == {"idle", "notify", "flush", "asleep"}
DestroyerStates == {"none", "notify", "join", "gone"}

TypeOK ==
  /\ queue \in Seq(Events)
  /\ stopping \in BOOLEAN
  /\ inFlight \in Nat
  /\ subscribers \subseteq Subscribers
  /\ worker \in WorkerStates
  /\ event \in Events \cup {NoEvent}
  /\ toCall \subseteq Subscribers
  /\ calling \in Subscribers \cup {NoOne}
  /\ pc \in [Threads -> ThreadStates]
  /\ destroyer \in DestroyerStates
  /\ published \in 0 .. MaxEvents
  /\ mark \in [Threads -> 0 .. MaxEvents]
  /\ since \in [Subscribers -> 0 .. Never]
  /\ received \in [Subscribers -> Seq(Events)]

BusInit ==
  /\ queue = <<>>
  /\ stopping = FALSE
  /\ inFlight = 0
  /\ subscribers = {}
  /\ worker = "awake"
  /\ event = NoEvent
  /\ toCall = {}
  /\ calling = NoOne
  /\ pc = [t \in Threads |-> "idle"]
  /\ destroyer = "none"
  /\ published = 0
  /\ mark = [t \in Threads |-> 0]
  /\ since = [s \in Subscribers |-> Never]
  /\ received = [s \in Subscribers |-> <<>>]

Go(t, state) == pc' = [pc EXCEPT ![t] = state]

\* Nobody uses the bus once it is being destroyed.
Usable(t) == pc[t] = "idle" /\ destroyer = "none"

-----------------------------------------------------------------------------
\* publish

\* Slip: a stack.
Pushed(q, e) == <<e>> \o q

Queued(q, e) == Append(q, e)

Publish(t) ==
  /\ Usable(t)
  /\ published < MaxEvents
  /\ published' = published + 1
  /\ queue' = Queued(queue, published + 1)
  /\ Go(t, "notify")
  /\ UNCHANGED <<stopping, inFlight, worker, roundVars, subscriptionVars, destroyer, mark>>

\* Slip: the worker is not notified.
LeftAsleep(state) == state

Woken(state) == IF state = "asleep" THEN "awake" ELSE state

\* cv_.notify_one
NotifyWorker(t) ==
  /\ pc[t] = "notify"
  /\ worker' = Woken(worker)
  /\ Go(t, "idle")
  /\ UNCHANGED <<queueVars, roundVars, subscriptionVars, destroyer, mark>>

-----------------------------------------------------------------------------
\* subscribe, unsubscribe

\* Slip: the subscribers' mutex is not taken.
Unguarded == TRUE

SubscribersFree == worker # "round"

Subscribe(t, s) ==
  /\ Usable(t)
  /\ SubscribersFree
  /\ since[s] = Never
  /\ subscribers' = subscribers \cup {s}
  /\ since' = [since EXCEPT ![s] = published]
  /\ UNCHANGED <<queueVars, worker, roundVars, pc, destroyer, mark>>

Unsubscribe(t, s) ==
  /\ Usable(t)
  /\ SubscribersFree
  /\ s \in subscribers
  /\ subscribers' = subscribers \ {s}
  /\ UNCHANGED <<queueVars, worker, roundVars, pc, destroyer, mark, since>>

-----------------------------------------------------------------------------
\* flush

Flush(t) ==
  /\ Usable(t)
  /\ Go(t, "flush")
  /\ mark' = [mark EXCEPT ![t] = published]
  /\ UNCHANGED <<queueVars, worker, roundVars, subscriptionVars, destroyer>>

\* Slip: pending() == 0 is taken for enough.
NothingPending == queue = <<>>

Delivered == queue = <<>> /\ inFlight = 0

\* idle_cv_.wait: the predicate is tested under the mutex; the thread goes on,
\* or goes to sleep before anyone else can take the mutex.
FlushTest(t) ==
  /\ pc[t] = "flush"
  /\ IF Delivered
       THEN Go(t, "idle") /\ mark' = [mark EXCEPT ![t] = 0]
       ELSE Go(t, "asleep") /\ UNCHANGED mark
  /\ UNCHANGED <<queueVars, worker, roundVars, subscriptionVars, destroyer>>

-----------------------------------------------------------------------------
\* run

MayEnd == queue = <<>> /\ stopping

\* cv_.wait with nothing to do.
Sleep ==
  /\ worker = "awake"
  /\ queue = <<>>
  /\ ~stopping
  /\ worker' = "asleep"
  /\ UNCHANGED <<queueVars, roundVars, subscriptionVars, pc, destroyer, mark>>

End ==
  /\ worker = "awake"
  /\ MayEnd
  /\ worker' = "ended"
  /\ UNCHANGED <<queueVars, roundVars, subscriptionVars, pc, destroyer, mark>>

\* Slip: an event is counted only when it has been dispatched.
NotCounted(n) == n

Counted(n) == n + 1

Pop ==
  /\ worker = "awake"
  /\ queue # <<>>
  /\ event' = Head(queue)
  /\ queue' = Tail(queue)
  /\ inFlight' = Counted(inFlight)
  /\ worker' = "popped"
  /\ UNCHANGED <<stopping, published, toCall, calling, received, subscriptionVars, pc,
                 destroyer, mark>>

\* The subscribers' mutex is taken, for all the callbacks.
BeginRound ==
  /\ worker = "popped"
  /\ toCall' = subscribers
  /\ worker' = "round"
  /\ UNCHANGED <<queueVars, event, calling, received, subscriptionVars, pc, destroyer,
                 mark>>

BeginCallback(s) ==
  /\ worker = "round"
  /\ calling = NoOne
  /\ s \in toCall
  /\ calling' = s
  /\ toCall' = toCall \ {s}
  /\ UNCHANGED <<queueVars, worker, event, received, subscriptionVars, pc, destroyer,
                 mark>>

EndCallback ==
  /\ calling # NoOne
  /\ received' = [received EXCEPT ![calling] = Append(@, event)]
  /\ calling' = NoOne
  /\ UNCHANGED <<queueVars, worker, event, toCall, subscriptionVars, pc, destroyer, mark>>

EndRound ==
  /\ worker = "round"
  /\ calling = NoOne
  /\ toCall = {}
  /\ worker' = "counting"
  /\ UNCHANGED <<queueVars, roundVars, subscriptionVars, pc, destroyer, mark>>

CountDown ==
  /\ worker = "counting"
  /\ inFlight' = inFlight - 1
  /\ event' = NoEvent
  /\ worker' = "notify"
  /\ UNCHANGED <<queue, stopping, published, toCall, calling, received,
                 subscriptionVars, pc, destroyer, mark>>

\* Slip: notify_one, for the flushers: the one it wakes is the first.
WokenOne(at) ==
  [t \in Threads |-> IF t = CHOOSE u \in Threads : TRUE
     THEN IF at[t] = "asleep" THEN "flush" ELSE at[t]
     ELSE at[t]]

WokenAll(at) == [t \in Threads |-> IF at[t] = "asleep" THEN "flush" ELSE at[t]]

\* idle_cv_.notify_all
NotifyFlushers ==
  /\ worker = "notify"
  /\ pc' = WokenAll(pc)
  /\ worker' = "awake"
  /\ UNCHANGED <<queueVars, roundVars, subscriptionVars, destroyer, mark>>

\* A condition variable may wake a waiter for no reason.
SpuriousWake ==
  /\ \/ /\ worker = "asleep"
        /\ worker' = "awake"
        /\ UNCHANGED pc
     \/ /\ \E t \in Threads : pc[t] = "asleep" /\ Go(t, "flush")
        /\ UNCHANGED worker
  /\ UNCHANGED <<queueVars, roundVars, subscriptionVars, destroyer, mark>>

-----------------------------------------------------------------------------
\* ~NotificationBus: the owner of the bus destroys it when no thread uses it.

Destroy ==
  /\ destroyer = "none"
  /\ \A t \in Threads : pc[t] = "idle"
  /\ stopping' = TRUE
  /\ destroyer' = "notify"
  /\ UNCHANGED <<queue, inFlight, published, worker, roundVars, subscriptionVars, pc,
                 mark>>

Roused(state) == Woken(state)

\* cv_.notify_all
DestroyNotify ==
  /\ destroyer = "notify"
  /\ worker' = Roused(worker)
  /\ destroyer' = "join"
  /\ UNCHANGED <<queueVars, roundVars, subscriptionVars, pc, mark>>

Join ==
  /\ destroyer = "join"
  /\ worker = "ended"
  /\ destroyer' = "gone"
  /\ UNCHANGED <<queueVars, worker, roundVars, subscriptionVars, pc, mark>>

-----------------------------------------------------------------------------

WorkerStep ==
  \/ Sleep \/ End \/ Pop \/ BeginRound \/ EndCallback \/ EndRound \/ CountDown
  \/ NotifyFlushers
  \/ \E s \in Subscribers : BeginCallback(s)

BusNext ==
  \/ \E t \in Threads :
       Publish(t) \/ NotifyWorker(t) \/ Flush(t) \/ FlushTest(t)
  \/ \E t \in Threads, s \in Subscribers : Subscribe(t, s) \/ Unsubscribe(t, s)
  \/ WorkerStep
  \/ SpuriousWake
  \/ Destroy \/ DestroyNotify \/ Join

\* The worker runs and every callback returns; a thread that has entered a call
\* goes on, and so does the destructor.  Nobody has to call, and no spurious
\* wake-up may be relied on.
BusFairness ==
  /\ WF_busVars(WorkerStep)
  /\ \A t \in Threads : WF_busVars(NotifyWorker(t)) /\ WF_busVars(FlushTest(t))
  /\ WF_busVars(DestroyNotify)
  /\ WF_busVars(Join)

BusSpec == BusInit /\ [][BusNext]_busVars /\ BusFairness

-----------------------------------------------------------------------------
\* Properties

Got(s, e) == Contains(received[s], e)

\* A subscriber sees consecutive events in the order they were published: none
\* skipped, none twice, whoever subscribes or unsubscribes meanwhile.
InOrder ==
  \A s \in Subscribers : \A i \in DOMAIN received[s] :
    received[s][i] = received[s][1] + i - 1

\* No callback runs for a subscriber that has been removed: what unsubscribe()
\* promises to the destructors that call it (notification.hpp:60).
NeverCalledWhenGone == calling # NoOne => calling \in subscribers

\* flush() returns to its caller only when every event published before the call
\* has been delivered to every subscriber that was there when it was published
\* (notification.hpp:79-81).
FlushDelivers ==
  [][\A t \in Threads : pc[t] = "flush" /\ pc'[t] = "idle" =>
       \A s \in subscribers : \A e \in since[s] + 1 .. mark[t] : Got(s, e)]_busVars

\* The destructor drains the queue: when the worker has ended, each remaining
\* subscriber has had every event published since it subscribed.
DestroyedEmpty ==
  worker = "ended" =>
    \A s \in subscribers : \A e \in since[s] + 1 .. published : Got(s, e)

\* Every event reaches every subscriber that stays, without waiting for another.
EventsArrive ==
  \A s \in Subscribers, e \in Events :
    s \in subscribers /\ since[s] < e /\ e <= published ~> Got(s, e) \/ s \notin subscribers

\* A flush() that was called returns, once publishing pauses (as the bound makes
\* it), for each of the threads that wait together; and the destructor returns,
\* whoever misses its notification.
CallsReturn ==
  /\ \A t \in Threads : pc[t] \in {"flush", "asleep"} ~> pc[t] = "idle"
  /\ stopping ~> destroyer = "gone"
=============================================================================
