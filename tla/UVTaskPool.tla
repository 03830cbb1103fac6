----------------------------- MODULE UVTaskPool -----------------------------
(***************************************************************************)
(* UVTaskPool and UVTaskConcurrentPool of wss/tasktest/main.cpp: tasks     *)
(* posted by any thread run on one libuv loop thread.  Producers queue     *)
(* tasks and wake the loop by an async handle; stop() wakes it by another, *)
(* whose callback runs what is queued, closes the timers and the handles,  *)
(* and lets the thread end.  The first class appends under a mutex to the  *)
(* one of two buffers the loop is not executing; the second has a          *)
(* moodycamel queue, which keeps the order of each producer, and no        *)
(* timers.  Here its queue is buffer 0 and the index never moves.          *)
(*                                                                         *)
(* The grain is the code's: each atomic read, each critical section and    *)
(* each task run is a step of its own.                                     *)
(***************************************************************************)
EXTENDS Naturals, Sequences, FiniteSets, SequencesExt

CONSTANTS
    Producers,  \* threads calling post, createTimer, cancelTimer
    Stoppers,   \* threads calling stop, or running the destructor
    Kinds,      \* what UVTaskPool is given: tasks, one-shot or repeating timers, cancels
    MaxPosts,   \* bound: calls of each producer
    Repeaters   \* bound: the producers that make so many, the others make one call

AllKinds == {"plain", "once", "repeat", "cancel"}

ASSUME PoolAssumption == Kinds \subseteq AllKinds /\ MaxPosts \in Nat \ {0}

Calls(p) == IF p \in Repeaters THEN MaxPosts ELSE 1
Ids == Producers \X (1 .. MaxPosts)
Tasks == [id : Ids, kind : AllKinds, timer : Ids]
NoBuffer == 2

VARIABLES
    concurrent,  \* the pool is a UVTaskConcurrentPool
    loopPc,      \* the loop thread: where runLoop is
    stopFlag,    \* loopStopFlag
    initFlag,    \* hasLoopInitFlag
    asyncOpen,   \* taskAsync and stopAsync are initialised and not closed
    taskPending, stopPending,  \* sent to, and not yet served by its callback
    buffer,      \* swapTasks
    index,       \* swapTaskIndex: the buffer producers append to
    running,     \* the buffer executeTasksInLoop takes tasks from, or NoBuffer
    next,        \* its position
    timers,      \* timerTasksMapInLoop: [id, kind], each with an open uv handle
    ppc, posts, task,  \* per producer: where post is, calls so far, its task
    spc,         \* per stopper: where stop is
    enqueued,    \* history: tasks in the order they entered the buffers
    executed,    \* history: tasks in the order they ran
    beforeStop,  \* history: how many were enqueued when loopStopFlag was set
    beforeInit,  \* history: how many were enqueued when hasLoopInitFlag was set
    closedSend   \* history: an async_send reached a closed handle

placeVars == <<concurrent, asyncOpen>>
drainVars == <<running, next, timers, executed>>
loopVars == <<placeVars, loopPc, drainVars>>
flagVars == <<stopFlag, initFlag, beforeStop, beforeInit>>
queueVars == <<buffer, index, enqueued>>
threadVars == <<ppc, posts, task, spc>>
wakeVars == <<taskPending, stopPending, closedSend>>
vars == <<loopVars, flagVars, queueVars, threadVars, wakeVars>>

\* The loop pointer is not null.
LoopSet == loopPc \notin {"new", "failed", "ended"}

NoTask(p) == [id |-> <<p, 1>>, kind |-> "plain", timer |-> <<p, 1>>]

Init ==
    /\ concurrent \in BOOLEAN
    /\ loopPc = "new"
    /\ stopFlag = FALSE /\ initFlag = FALSE /\ asyncOpen = FALSE
    /\ taskPending = FALSE /\ stopPending = FALSE /\ closedSend = FALSE
    /\ buffer = [b \in 0 .. 1 |-> <<>>]
    /\ index = 0 /\ running = NoBuffer /\ next = 1
    /\ timers = {}
    /\ ppc = [p \in Producers |-> "idle"] /\ spc = [s \in Stoppers |-> "idle"]
    /\ posts = [p \in Producers |-> 0] /\ task = [p \in Producers |-> NoTask(p)]
    /\ enqueued = <<>> /\ executed = <<>> /\ beforeStop = 0 /\ beforeInit = 0

-----------------------------------------------------------------------------
(* post *)

\* A timer that can be named is one whose createTimer has returned.
KnownTimers ==
    {id \in Ids : id[2] <= posts[id[1]] /\ (id[2] = posts[id[1]] => ppc[id[1]] = "idle")}

\* The first read of loopStopFlag decides whether the task is queued at all.
PostCheck(p) ==
    /\ ppc[p] = "idle" /\ posts[p] < Calls(p)
    /\ LET id == <<p, posts[p] + 1>> IN
       \E kind \in IF concurrent THEN {"plain"} ELSE Kinds :
       \E timer \in IF kind = "cancel" THEN KnownTimers ELSE {id} :
           task' = [task EXCEPT ![p] = [id |-> id, kind |-> kind, timer |-> timer]]
    /\ posts' = [posts EXCEPT ![p] = @ + 1]
    /\ ppc' = [ppc EXCEPT ![p] = IF stopFlag THEN "wake" ELSE "enqueue"]
    /\ UNCHANGED <<loopVars, flagVars, queueVars, wakeVars, spc>>

QueuedInFront(q, t) == <<t>> \o q  \* weakened
Queued(q, t) == Append(q, t)

\* Under tasksMutex, or by the concurrent queue.
PostEnqueue(p) ==
    /\ ppc[p] = "enqueue"
    /\ buffer' = [buffer EXCEPT ![index] = Queued(@, task[p])]
    /\ enqueued' = Append(enqueued, task[p])
    /\ ppc' = [ppc EXCEPT ![p] = "wake"]
    /\ UNCHANGED <<loopVars, flagVars, index, wakeVars, posts, task, spc>>

WakeNever == FALSE  \* weakened: no wakeup, or one that tests no flag
WakeAlways == LoopSet
MayWake == initFlag /\ LoopSet /\ ~stopFlag

\* Under stopMutex, as the stop callback's change of the flags is.
PostWake(p) ==
    /\ ppc[p] = "wake"
    /\ ppc' = [ppc EXCEPT ![p] = "idle"]
    /\ task' = [task EXCEPT ![p] = NoTask(p)]
    /\ taskPending' = (taskPending \/ MayWake)
    /\ closedSend' = (closedSend \/ (MayWake /\ ~asyncOpen))
    /\ UNCHANGED <<loopVars, flagVars, queueVars, stopPending, posts, spc>>

-----------------------------------------------------------------------------
(* stop *)

StopGoes(s, from, to) ==
    /\ spc[s] = from
    /\ spc' = [spc EXCEPT ![s] = to]
    /\ UNCHANGED <<loopVars, flagVars, queueVars, taskPending, ppc, posts, task>>

StopCheck(s) ==
    StopGoes(s, "idle", IF stopFlag THEN "done" ELSE "wait") /\ UNCHANGED wakeVars

LoopInitialised == initFlag  \* weakened: stop waits for a loop that could not be made
LoopDecided == initFlag \/ stopFlag

\* The sleep loop ends once the loop is initialised or could not be.
StopWait(s) == LoopDecided /\ StopGoes(s, "wait", "lock") /\ UNCHANGED wakeVars

\* Under stopMutex.
StopSend(s) ==
    LET sends == LoopSet /\ ~stopFlag IN
    /\ StopGoes(s, "lock", IF sends THEN "join" ELSE "done")
    /\ stopPending' = (stopPending \/ sends)
    /\ closedSend' = (closedSend \/ (sends /\ ~asyncOpen))

StopJoin(s) == loopPc = "ended" /\ StopGoes(s, "join", "done") /\ UNCHANGED wakeVars

-----------------------------------------------------------------------------
(* runLoop *)

\* uv_loop_new, which may run out of memory, and the two uv_async_init.
LoopNew ==
    /\ loopPc = "new"
    /\ \/ /\ loopPc' = "inited" /\ asyncOpen' = TRUE
          /\ UNCHANGED <<stopFlag, beforeStop>>
       \/ /\ loopPc' = "failed" /\ stopFlag' = TRUE /\ beforeStop' = Len(enqueued)
          /\ UNCHANGED asyncOpen
    /\ UNCHANGED <<concurrent, initFlag, beforeInit, drainVars, queueVars, threadVars, wakeVars>>

\* Nothing wakes the loop for the tasks that are queued already.
LoopReady ==
    /\ loopPc = "inited" /\ loopPc' = "poll"
    /\ initFlag' = TRUE /\ beforeInit' = Len(enqueued)
    /\ UNCHANGED <<stopFlag, beforeStop, placeVars, drainVars, queueVars, threadVars, wakeVars>>

IndexSame == index  \* weakened: the index does not move, or does not wrap
IndexNoWrap == index + 1
OtherIndex == IF concurrent THEN index ELSE (index + 1) % 2

\* executeTasksInLoop, its critical section: take the filled buffer, offer the other.
Swap(to) ==
    /\ running' = index /\ next' = 1
    /\ index' = OtherIndex
    /\ loopPc' = to
    /\ UNCHANGED <<placeVars, timers, executed, flagVars, buffer, enqueued, threadVars>>

\* The taskAsync callback.
TaskCallback ==
    /\ loopPc = "poll" /\ taskPending
    /\ Swap("drain")
    /\ taskPending' = FALSE /\ UNCHANGED <<stopPending, closedSend>>

Draining == loopPc \in {"drain", "finalDrain"}

\* createTimerInLoop and cancelTimerInLoop are tasks, too.
TimersAfter(t) ==
    CASE t.kind \in {"once", "repeat"} -> timers \cup {[id |-> t.id, kind |-> t.kind]}
      [] t.kind = "cancel" -> {e \in timers : e.id # t.timer}
      [] OTHER -> timers

Run(t) ==
    /\ executed' = Append(executed, t) /\ timers' = TimersAfter(t)
    /\ UNCHANGED <<placeVars, loopPc, running, flagVars, index, enqueued, threadVars, wakeVars>>

\* The next of the buffer, which stays there until the buffer is cleared ...
RunOneTask ==
    /\ Draining /\ ~concurrent /\ next <= Len(buffer[running])
    /\ Run(buffer[running][next])
    /\ next' = next + 1 /\ UNCHANGED buffer

AnyTask(q, i) == TRUE  \* weakened: the concurrent queue keeps no order

\* ... or any producer's oldest in the concurrent queue.
Oldest(q, i) == \A j \in 1 .. i - 1 : q[j].id[1] # q[i].id[1]
DequeueOneTask ==
    /\ Draining /\ concurrent
    /\ \E i \in 1 .. Len(buffer[running]) :
           /\ Oldest(buffer[running], i)
           /\ Run(buffer[running][i])
           /\ buffer' = [buffer EXCEPT ![running] = RemoveAt(@, i)]
    /\ UNCHANGED next

Cleared == [buffer EXCEPT ![running] = <<>>]

\* executeTasks->clear(), without the mutex; or the concurrent queue was found empty.
EndDrain ==
    /\ Draining /\ next > Len(buffer[running])
    /\ buffer' = Cleared
    /\ running' = NoBuffer /\ next' = 1
    /\ loopPc' = IF loopPc = "drain" THEN "poll" ELSE "clean"
    /\ UNCHANGED <<placeVars, timers, executed, flagVars, index, enqueued, threadVars, wakeVars>>

\* A timer expires: its function runs, and a timer without interval is cancelled.
TimerFires ==
    /\ loopPc = "poll"
    /\ \E t \in timers : timers' = IF t.kind = "once" THEN timers \ {t} ELSE timers
    /\ UNCHANGED <<placeVars, loopPc, running, next, executed, flagVars, queueVars,
                   threadVars, wakeVars>>

AfterStopNoDrain == "clean"  \* weakened: what is queued is not run
AfterStop == "stopping"

\* The stopAsync callback sets the flags under stopMutex ...
StopCallback ==
    /\ loopPc = "poll" /\ stopPending
    /\ stopFlag' = TRUE /\ initFlag' = FALSE /\ beforeStop' = Len(enqueued)
    /\ loopPc' = AfterStop /\ stopPending' = FALSE
    /\ UNCHANGED <<beforeInit, placeVars, drainVars, queueVars, threadVars, taskPending,
                   closedSend>>

\* ... then runs what is queued ...
FinalSwap == loopPc = "stopping" /\ Swap("finalDrain") /\ UNCHANGED wakeVars

\* ... and closes the timers and both handles, which drops the wakeups they hold.
CleanAll ==
    /\ loopPc = "clean" /\ loopPc' = "leave"
    /\ timers' = {} /\ asyncOpen' = FALSE
    /\ taskPending' = FALSE /\ stopPending' = FALSE
    /\ UNCHANGED <<concurrent, running, next, executed, flagVars, queueVars, threadVars,
                   closedSend>>

\* uv_run has returned: the loop is deleted and the thread ends.
LoopEnd ==
    /\ loopPc = "leave" /\ loopPc' = "ended"
    /\ UNCHANGED <<placeVars, drainVars, flagVars, queueVars, threadVars, wakeVars>>

-----------------------------------------------------------------------------
Post(p) == PostCheck(p) \/ PostEnqueue(p) \/ PostWake(p)
Stop(s) == StopCheck(s) \/ StopWait(s) \/ StopSend(s) \/ StopJoin(s)
LoopStep ==
    \/ LoopNew \/ LoopReady \/ TaskCallback \/ RunOneTask \/ DequeueOneTask \/ EndDrain
    \/ StopCallback \/ FinalSwap \/ CleanAll \/ LoopEnd

\* Every call was made and has returned, and the thread is gone.
Quiet ==
    /\ \A p \in Producers : ppc[p] = "idle" /\ posts[p] = Calls(p)
    /\ \A s \in Stoppers : spc[s] = "done"
    /\ loopPc \in {"failed", "ended"}
    /\ UNCHANGED vars

Next ==
    \/ \E p \in Producers : Post(p)
    \/ \E s \in Stoppers : Stop(s)
    \/ LoopStep \/ TimerFires
    \/ Quiet

\* Threads are scheduled; a thread that has called post or stop goes on.
Fairness ==
    /\ WF_vars(LoopStep)
    /\ \A p \in Producers : WF_vars(PostEnqueue(p) \/ PostWake(p))
    /\ \A s \in Stoppers : WF_vars(StopWait(s) \/ StopSend(s) \/ StopJoin(s))

Spec == Init /\ [][Next]_vars
FairSpec == Spec /\ Fairness

-----------------------------------------------------------------------------
(* Properties *)

\* Every variable has its type.
TypeOK ==
    /\ concurrent \in BOOLEAN
    /\ loopPc \in {"new", "inited", "poll", "drain", "stopping", "finalDrain", "clean",
                   "leave", "ended", "failed"}
    /\ stopFlag \in BOOLEAN /\ initFlag \in BOOLEAN /\ asyncOpen \in BOOLEAN
    /\ taskPending \in BOOLEAN /\ stopPending \in BOOLEAN
    /\ buffer \in [0 .. 1 -> Seq(Tasks)] /\ index \in 0 .. 1
    /\ running \in 0 .. NoBuffer /\ next \in Nat \ {0}
    /\ timers \subseteq [id : Ids, kind : {"once", "repeat"}]
    /\ ppc \in [Producers -> {"idle", "enqueue", "wake"}]
    /\ posts \in [Producers -> 0 .. MaxPosts] /\ task \in [Producers -> Tasks]
    /\ spc \in [Stoppers -> {"idle", "wait", "lock", "join", "done"}]
    /\ enqueued \in Seq(Tasks) /\ executed \in Seq(Tasks)
    /\ beforeStop \in Nat /\ beforeInit \in Nat
    /\ closedSend \in BOOLEAN

Ran(n) == n <= Len(enqueued) /\ enqueued[n] \in ToSet(executed)

InProducerOrder(q) == \A i, j \in 1 .. Len(q) :
    i < j /\ q[i].id[1] = q[j].id[1] => q[i].id[2] < q[j].id[2]

\* Tasks run once, those of the two buffers in the order they were queued, and those of
\* one producer in either pool in the order it posted them, over any number of swaps and
\* drains that meet later posts.
ExecutedInOrder ==
    /\ IsInjective(executed) /\ ToSet(executed) \subseteq ToSet(enqueued)
    /\ ~concurrent => IsPrefix(executed, enqueued)
    /\ InProducerOrder(executed)

\* Producers never append to the buffer the loop iterates over: only the swap is
\* under the mutex, the iteration and the clear are not.
BuffersDisjoint == ~concurrent => running # index

\* A cancelled timer stays cancelled: its create task, posted before its cancel by
\* whatever thread, never runs after it.
CancelledStaysCancelled ==
    \A i \in 1 .. Len(executed) :
        executed[i].kind = "cancel" => \A t \in timers : t.id # executed[i].timer

\* uv_async_send never reaches a handle that is closed or not initialised.
NoSendToClosedHandle == ~closedSend

\* The final drain misses no task queued before the stop callback set the flag (what
\* is dropped was queued while stop was under way), and leaves no timer open.
DrainedBeforeEnd ==
    loopPc = "ended" => timers = {} /\ \A n \in 1 .. beforeStop : Ran(n)

\* A task at rest on a running loop without a wakeup on its way is one queued
\* before the loop was initialised.
Attended(n) ==
    \/ Ran(n) \/ n <= beforeInit \/ taskPending \/ stopPending
    \/ loopPc # "poll" \/ \E p \in Producers : ppc[p] = "wake"
NoLostWakeup == \A n \in 1 .. Len(enqueued) : Attended(n)

\* A task queued on an initialised loop that does not stop is run.
QueuedTasksRun ==
    \A n \in 1 .. Cardinality(Ids) :
        (n > beforeInit /\ n <= Len(enqueued) /\ initFlag) ~> (Ran(n) \/ stopFlag)

\* Every stop() returns.
StopReturns == \A s \in Stoppers : spc[s] = "wait" ~> spc[s] = "done"
=============================================================================
