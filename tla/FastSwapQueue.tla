---------------------------- MODULE FastSwapQueue ----------------------------
(***************************************************************************)
(* FastSwapQueue of wss/tasktest/FastSwapQueue.h: producers append tasks   *)
(* to the current one of two vectors under tasksMutex, and the first after *)
(* a consumption asks an executor to consume.  consumeTasks takes the      *)
(* current vector, offers another, and runs the tasks without a lock.  For *)
(* several consumers a taken vector is replaced by a pooled or a new one.  *)
(*                                                                         *)
(* The executor (boost::asio::post in the program that uses the queue) is  *)
(* a counter of the calls it owes.                                         *)
(***************************************************************************)
EXTENDS Naturals, Sequences, FiniteSets, SequencesExt

CONSTANTS
    Producers,      \* threads calling post
    Consumers,      \* executor threads
    Solo,           \* the one of them that consumes a single-consumer queue
    PoolLimit,      \* 1024 in the code
    MaxPosts        \* bound: posts of each producer

ASSUME QueueAssumption ==
    /\ Solo \in Consumers /\ IsFiniteSet(Consumers)
    /\ PoolLimit \in Nat /\ MaxPosts \in Nat

Tasks == Producers \X (1 .. MaxPosts)

\* Vectors are heap objects: two slots, one for each consumer, and the pool.
Vectors == 0 .. Cardinality(Consumers) + PoolLimit + 2
NoVector == Cardinality(Consumers) + PoolLimit + 3

VARIABLES
    multiConsumer,  \* the constructor's argument, constant from then on
    slots,    \* swapTasks
    index,    \* swapTaskIndex
    content,  \* the tasks each vector holds
    pools,    \* emptied vectors for reuse
    flag,     \* hasWeakUpFlag
    owed,     \* consumeTasks calls posted to the executor and not begun
    ppc, posts,       \* per producer: where post is, posts so far
    cpc, held, next,  \* per consumer: where consumeTasks is, its vector and position
    appended,         \* history: tasks in the order they were appended
    executed          \* history: tasks in the order they ran

bufferVars == <<slots, index, content, pools>>
producerVars == <<ppc, posts, appended>>
consumerVars == <<cpc, held, next, executed>>
vars == <<multiConsumer, bufferVars, flag, owed, producerVars, consumerVars>>

Init ==
    /\ multiConsumer \in BOOLEAN
    /\ slots = [i \in 0 .. 1 |-> i] /\ index = 0
    /\ content = [v \in Vectors |-> <<>>]
    /\ pools = <<>> /\ flag = FALSE /\ owed = 0
    /\ ppc = [p \in Producers |-> "idle"] /\ posts = [p \in Producers |-> 0]
    /\ cpc = [c \in Consumers |-> "idle"]
    /\ held = [c \in Consumers |-> NoVector] /\ next = [c \in Consumers |-> 1]
    /\ appended = <<>> /\ executed = <<>>

-----------------------------------------------------------------------------
(* post *)

PostAppend(p) ==
    /\ ppc[p] = "idle" /\ posts[p] < MaxPosts
    /\ posts' = [posts EXCEPT ![p] = @ + 1]
    /\ content' = [content EXCEPT ![slots[index]] = Append(@, <<p, posts[p] + 1>>)]
    /\ appended' = Append(appended, <<p, posts[p] + 1>>)
    /\ ppc' = [ppc EXCEPT ![p] = "signal"]
    /\ UNCHANGED <<multiConsumer, slots, index, pools, flag, owed, consumerVars>>

\* test_and_set: only the first since the last consumption calls consumeFunc.
PostSignal(p) ==
    /\ ppc[p] = "signal"
    /\ flag' = TRUE
    /\ ppc' = [ppc EXCEPT ![p] = IF flag THEN "idle" ELSE "call"]
    /\ UNCHANGED <<multiConsumer, bufferVars, owed, posts, appended, consumerVars>>

PostCall(p) ==
    /\ ppc[p] = "call"
    /\ owed' = owed + 1
    /\ ppc' = [ppc EXCEPT ![p] = "idle"]
    /\ UNCHANGED <<multiConsumer, bufferVars, flag, posts, appended, consumerVars>>

-----------------------------------------------------------------------------
(* consumeTasks *)

FlagKept == flag  \* weakened: it stays set
FlagCleared == FALSE

\* The flag is cleared before the lock, so a later post signals again.
ConsumeBegin(c) ==
    /\ cpc[c] = "idle" /\ owed > 0
    /\ owed' = owed - 1
    /\ flag' = FlagCleared
    /\ cpc' = [cpc EXCEPT ![c] = "take"]
    /\ UNCHANGED <<multiConsumer, bufferVars, producerVars, held, next, executed>>

InUse == ToSet(pools) \cup {slots[0], slots[1]} \cup {held[c] : c \in Consumers}
NewVector == CHOOSE v \in Vectors : v \notin InUse

\* The slots after the current vector is taken, and the pool.
Replaced == IF pools = <<>> THEN NewVector ELSE Head(pools)
SlotsAfterTakeShared == slots  \* weakened: several consumers share two vectors
SlotsAfterTake == IF multiConsumer THEN [slots EXCEPT ![index] = Replaced] ELSE slots
PoolsAfterTake == IF multiConsumer /\ pools # <<>> THEN Tail(pools) ELSE pools

OtherIndexSame == index  \* weakened: it does not move
OtherIndex == 1 - index

\* getConsumeTasks, under tasksMutex and poolMutex.
ConsumeTake(c) ==
    /\ cpc[c] = "take"
    /\ held' = [held EXCEPT ![c] = slots[index]]
    /\ slots' = SlotsAfterTake
    /\ pools' = PoolsAfterTake
    /\ index' = OtherIndex
    /\ cpc' = [cpc EXCEPT ![c] = "run"]
    /\ UNCHANGED <<multiConsumer, content, flag, owed, producerVars, next, executed>>

ConsumeRun(c) ==
    /\ cpc[c] = "run" /\ next[c] <= Len(content[held[c]])
    /\ executed' = Append(executed, content[held[c]][next[c]])
    /\ next' = [next EXCEPT ![c] = @ + 1]
    /\ UNCHANGED <<multiConsumer, bufferVars, flag, owed, producerVars, cpc, held>>

\* The loop is over; producers may run before the vector is cleared.
ConsumeEnd(c) ==
    /\ cpc[c] = "run" /\ next[c] > Len(content[held[c]])
    /\ cpc' = [cpc EXCEPT ![c] = "clear"]
    /\ UNCHANGED <<multiConsumer, bufferVars, flag, owed, producerVars, held, next, executed>>

ClearedNot(v) == content[v]  \* weakened: it goes back with its tasks
Cleared(v) == <<>>

\* The vector is cleared without a lock; a single consumer lets go of it here.
ConsumeClear(c) ==
    /\ cpc[c] = "clear"
    /\ content' = [content EXCEPT ![held[c]] = Cleared(held[c])]
    /\ next' = [next EXCEPT ![c] = 1]
    /\ IF multiConsumer
       THEN cpc' = [cpc EXCEPT ![c] = "recycle"] /\ UNCHANGED held
       ELSE /\ cpc' = [cpc EXCEPT ![c] = "idle"]
            /\ held' = [held EXCEPT ![c] = NoVector]
    /\ UNCHANGED <<multiConsumer, slots, index, pools, flag, owed, producerVars, executed>>

RecycledOneMore(v) == IF Len(pools) <= PoolLimit THEN Append(pools, v) ELSE pools  \* weakened

\* A full pool lets the vector be freed.
Recycled(v) == IF Len(pools) < PoolLimit THEN Append(pools, v) ELSE pools

ConsumeRecycle(c) ==
    /\ cpc[c] = "recycle"
    /\ pools' = Recycled(held[c])
    /\ held' = [held EXCEPT ![c] = NoVector]
    /\ cpc' = [cpc EXCEPT ![c] = "idle"]
    /\ UNCHANGED <<multiConsumer, slots, index, content, flag, owed, producerVars, next, executed>>

-----------------------------------------------------------------------------
Post(p) == PostAppend(p) \/ PostSignal(p) \/ PostCall(p)
Consume(c) ==
    \/ ConsumeBegin(c) \/ ConsumeTake(c) \/ ConsumeRun(c)
    \/ ConsumeEnd(c) \/ ConsumeClear(c) \/ ConsumeRecycle(c)

Quiet ==
    /\ \A p \in Producers : ppc[p] = "idle" /\ posts[p] = MaxPosts
    /\ \A c \in Consumers : cpc[c] = "idle"
    /\ owed = 0
    /\ UNCHANGED vars

\* A queue constructed for one consumer is consumed by one.
Active == IF multiConsumer THEN Consumers ELSE {Solo}

Next ==
    \/ \E p \in Producers : Post(p)
    \/ \E c \in Active : Consume(c)
    \/ Quiet

\* A thread inside post or consumeTasks goes on; the executor serves what it owes.
Fairness ==
    /\ \A p \in Producers : WF_vars(PostSignal(p) \/ PostCall(p))
    /\ \A c \in Consumers : WF_vars(c \in Active /\ Consume(c))

Spec == Init /\ [][Next]_vars
FairSpec == Spec /\ Fairness

-----------------------------------------------------------------------------
(* Properties *)

\* Every variable has its type; the pool stays within its limit.
TypeOK ==
    /\ multiConsumer \in BOOLEAN
    /\ slots \in [0 .. 1 -> Vectors] /\ index \in 0 .. 1
    /\ content \in [Vectors -> Seq(Tasks)]
    /\ pools \in Seq(Vectors) /\ Len(pools) <= PoolLimit
    /\ flag \in BOOLEAN /\ owed \in Nat
    /\ ppc \in [Producers -> {"idle", "signal", "call"}]
    /\ posts \in [Producers -> 0 .. MaxPosts]
    /\ cpc \in [Consumers -> {"idle", "take", "run", "clear", "recycle"}]
    /\ held \in [Consumers -> Vectors \cup {NoVector}]
    /\ next \in [Consumers -> Nat \ {0}]
    /\ appended \in Seq(Tasks) /\ executed \in Seq(Tasks)

\* A vector that a consumer reads or clears without a lock is neither the one
\* producers append to, nor another consumer's, nor in the pool.
VectorsDisjoint ==
    \A c \in Consumers : held[c] # NoVector =>
        /\ held[c] # slots[index]
        /\ held[c] \notin ToSet(pools)
        /\ \A d \in Consumers \ {c} : held[d] # held[c]

\* No task runs twice, however consumptions overlap, and a single consumer runs
\* them in the order they were appended, across swaps.
RunInOrder == IsInjective(executed) /\ (~multiConsumer => IsPrefix(executed, appended))

\* Tasks waiting in the current vector have a consumption on its way: a producer
\* about to signal or call, a call owed, or a consumer about to take them.
NoLostWakeup ==
    content[slots[index]] # <<>> =>
        \/ \E p \in Producers : ppc[p] \in {"signal", "call"}
        \/ owed > 0
        \/ \E c \in Consumers : cpc[c] = "take"

\* Every task that was posted runs.
PostedTasksRun ==
    \A t \in Tasks : (t \in ToSet(appended)) ~> (t \in ToSet(executed))
=============================================================================
