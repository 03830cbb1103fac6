------------------------------ MODULE SyncQueue ------------------------------
(***************************************************************************)
(* SyncQueue of jwt/cplus/io/RingBufferTest/RingBufferTest/main.cpp and    *)
(* the program that tests it: a producer pushes its values, sets done and  *)
(* calls stop(); consumers pop until done is set and the queue is empty.   *)
(*                                                                         *)
(* stop() takes no lock, so pop's wait is split where stop can come in:    *)
(* between the test of its predicate and the wait that releases the mutex. *)
(***************************************************************************)
EXTENDS Naturals, Sequences, FiniteSets, SequencesExt

CONSTANTS
    Consumers,
    Values  \* kNumOperations

Nobody == "nobody"

ASSUME SyncAssumption == Values \in Nat /\ Consumers # {} /\ Nobody \notin Consumers

VARIABLES
    queue,    \* queue_
    owner,    \* the consumer that holds mutex_ across a step, or Nobody
    running,  \* running_
    done,     \* the program's own flag
    ppc,      \* the producer: "push", "stop", "notify", "ended"
    pushed,   \* values pushed so far
    cpc,      \* per consumer: its place in the loop and in pop
    popped    \* count's values, in the order they were popped

vars == <<queue, owner, running, done, ppc, pushed, cpc, popped>>

Init ==
    /\ queue = <<>> /\ owner = Nobody /\ running = TRUE /\ done = FALSE
    /\ ppc = "push" /\ pushed = 0
    /\ cpc = [c \in Consumers |-> "test"] /\ popped = <<>>

-----------------------------------------------------------------------------
(* The producer *)

Waiting == {c \in Consumers : cpc[c] = "waiting"}
NotifyNobody == UNCHANGED cpc  \* weakened
NotifyOne ==
    IF Waiting = {} THEN UNCHANGED cpc
    ELSE \E c \in Waiting : cpc' = [cpc EXCEPT ![c] = "check"]
NotifyAll == cpc' = [c \in Consumers |-> IF c \in Waiting THEN "check" ELSE cpc[c]]

MoreByOne == pushed <= Values  \* weakened: one value too many
More == pushed < Values

\* The whole of push is under the mutex.
Push ==
    /\ ppc = "push" /\ More /\ owner = Nobody
    /\ pushed' = pushed + 1
    /\ queue' = Append(queue, pushed)
    /\ NotifyOne
    /\ UNCHANGED <<owner, running, done, ppc, popped>>

SetDone ==
    /\ ppc = "push" /\ pushed = Values
    /\ done' = TRUE /\ ppc' = "stop"
    /\ UNCHANGED <<queue, owner, running, pushed, cpc, popped>>

\* stop(), without the mutex.
StopRunning ==
    /\ ppc = "stop"
    /\ running' = FALSE /\ ppc' = "notify"
    /\ UNCHANGED <<queue, owner, done, pushed, cpc, popped>>

StopNotify ==
    /\ ppc = "notify"
    /\ NotifyAll /\ ppc' = "ended"
    /\ UNCHANGED <<queue, owner, running, done, pushed, popped>>

-----------------------------------------------------------------------------
(* A consumer: while (!done || !queue.empty()) pop *)

AfterDoneEnds == "ended"  \* weakened: done alone ends the loop
AfterDone == "testEmpty"

LoopTestDone(c) ==
    /\ cpc[c] = "test"
    /\ cpc' = [cpc EXCEPT ![c] = IF done THEN AfterDone ELSE "check"]
    /\ UNCHANGED <<queue, owner, running, done, ppc, pushed, popped>>

LoopTestEmpty(c) ==
    /\ cpc[c] = "testEmpty" /\ owner = Nobody
    /\ cpc' = [cpc EXCEPT ![c] = IF queue = <<>> THEN "ended" ELSE "check"]
    /\ UNCHANGED <<queue, owner, running, done, ppc, pushed, popped>>

OldestIsLast == Len(queue)  \* weakened: values come out at the end they went in
Oldest == 1

\* pop with the mutex: the predicate holds and a value is there ...
PopValue(c) ==
    /\ cpc[c] = "check" /\ owner = Nobody /\ queue # <<>>
    /\ popped' = Append(popped, queue[Oldest])
    /\ queue' = RemoveAt(queue, Oldest)
    /\ cpc' = [cpc EXCEPT ![c] = "test"]
    /\ UNCHANGED <<owner, running, done, ppc, pushed>>

\* ... or the queue was stopped ...
PopStopped(c) ==
    /\ cpc[c] = "check" /\ owner = Nobody /\ queue = <<>> /\ ~running
    /\ cpc' = [cpc EXCEPT ![c] = "test"]
    /\ UNCHANGED <<queue, owner, running, done, ppc, pushed, popped>>

\* ... or it does not hold, and the consumer, still with the mutex, is about to wait.
PopMustWait(c) ==
    /\ cpc[c] = "check" /\ owner = Nobody /\ queue = <<>> /\ running
    /\ owner' = c
    /\ cpc' = [cpc EXCEPT ![c] = "blocking"]
    /\ UNCHANGED <<queue, running, done, ppc, pushed, popped>>

\* The wait releases the mutex and blocks, in one.
PopBlock(c) ==
    /\ cpc[c] = "blocking"
    /\ owner' = Nobody
    /\ cpc' = [cpc EXCEPT ![c] = "waiting"]
    /\ UNCHANGED <<queue, running, done, ppc, pushed, popped>>

\* A condition variable may wake a waiter for no reason.
SpuriousWakeup(c) ==
    /\ cpc[c] = "waiting"
    /\ cpc' = [cpc EXCEPT ![c] = "check"]
    /\ UNCHANGED <<queue, owner, running, done, ppc, pushed, popped>>

-----------------------------------------------------------------------------
Produce == Push \/ SetDone \/ StopRunning \/ StopNotify
Consume(c) ==
    \/ LoopTestDone(c) \/ LoopTestEmpty(c)
    \/ PopValue(c) \/ PopStopped(c) \/ PopMustWait(c) \/ PopBlock(c)

Quiet ==
    /\ ppc = "ended" /\ \A c \in Consumers : cpc[c] = "ended"
    /\ UNCHANGED vars

Next ==
    \/ Produce
    \/ \E c \in Consumers : Consume(c) \/ SpuriousWakeup(c)
    \/ Quiet

\* Threads are scheduled and the mutex does not starve one; nothing promises a
\* spurious wakeup.
Fairness ==
    /\ WF_vars(SetDone \/ StopRunning \/ StopNotify) /\ SF_vars(Push)
    /\ \A c \in Consumers : SF_vars(Consume(c))

Spec == Init /\ [][Next]_vars
FairSpec == Spec /\ Fairness

-----------------------------------------------------------------------------
(* Properties *)

\* Every variable has its type.
TypeOK ==
    /\ queue \in Seq(Nat) /\ owner \in Consumers \cup {Nobody}
    /\ running \in BOOLEAN /\ done \in BOOLEAN
    /\ ppc \in {"push", "stop", "notify", "ended"}
    /\ pushed \in 0 .. Values /\ popped \in Seq(Nat)
    /\ cpc \in [Consumers -> {"test", "testEmpty", "check", "blocking", "waiting", "ended"}]

\* Values come out once each, in the order they went in.
PoppedInOrder == popped \o queue = [i \in 1 .. pushed |-> i - 1]

\* A value in the queue never finds every consumer asleep or gone: push notifies
\* under the mutex, and a consumer leaves only a stopped, empty queue.
NoSleeperWithWork ==
    queue # <<>> => \E c \in Consumers : cpc[c] \notin {"waiting", "blocking", "ended"}

\* Every value that is pushed is popped: the consumers' loop tests done and the
\* queue in two steps, and ends only when all were popped.
PushedArePopped == \A n \in 1 .. Values : (pushed >= n) ~> (Len(popped) >= n)

\* stop() wakes the consumers: the program's join of each of them returns.
ConsumersEnd == \A c \in Consumers : <>(cpc[c] = "ended")
=============================================================================
