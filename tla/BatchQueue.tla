----------------------------- MODULE BatchQueue -----------------------------
(***************************************************************************)
(* BatchQueue of jwt/cplus/io/QueueTest/QueueTest/BatchQueue.h, in the use *)
(* main.cpp of that directory makes of it: producers add elements, a full  *)
(* batch is handed to the executor at once, a smaller one when a timer     *)
(* flushes it, and every producer flushes when it has added its last.      *)
(*                                                                         *)
(* Each atomic access, each critical section and each call of the batch    *)
(* action or of the timer function is a step.  A pooled vector is always   *)
(* empty, so the pool only tells how many there are.                       *)
(***************************************************************************)
EXTENDS Naturals, Sequences, FiniteSets, SequencesExt

CONSTANTS
    Producers,  \* threads that add, and flush at the end
    Executors,  \* threads running the timers and the batches
    BatchSize,  \* the constructor's argument
    PoolLimit,  \* 1024 in the code
    MaxAdds     \* bound: elements of each producer

ASSUME BatchAssumption ==
    /\ BatchSize \in Nat \ {0} /\ PoolLimit \in Nat /\ MaxAdds \in Nat
    /\ Producers # {} /\ Producers \cap Executors = {}

Threads == Producers \cup Executors
Elements == Producers \X (1 .. MaxAdds)

\* What a vector constructed with a size holds.
Blank == <<>>

VARIABLES
    elements,  \* the vector being filled
    flag,      \* hasSetFlushTimerFlag
    pool,      \* number of pooled vectors
    timers,    \* armed flush timers
    batches,   \* handed to the executor, not begun
    pc,        \* per thread: its place in add, flush, flushForce or a batch
    batch,     \* per thread: the batch it hands over or runs
    adds,      \* per producer: elements added so far; MaxAdds + 1 after its flush
    ran,       \* counter's elements, in the order they ran
    handed     \* history: the batches in the order they were taken

vars == <<elements, flag, pool, timers, batches, pc, batch, adds, ran, handed>>

Init ==
    /\ elements = [i \in 1 .. BatchSize |-> Blank]  \* make_shared<vector>(batchSize)
    /\ flag = FALSE /\ pool = 0 /\ timers = 0 /\ batches = <<>>
    /\ pc = [t \in Threads |-> "idle"] /\ batch = [t \in Threads |-> <<>>]
    /\ adds = [p \in Producers |-> 0]
    /\ ran = <<>> /\ handed = <<>>

Goto(t, place) == pc' = [pc EXCEPT ![t] = place]

-----------------------------------------------------------------------------
(* add *)

AddAppend(p) ==
    /\ pc[p] = "idle" /\ adds[p] < MaxAdds
    /\ adds' = [adds EXCEPT ![p] = @ + 1]
    /\ elements' = Append(elements, <<p, adds[p] + 1>>)
    /\ Goto(p, IF Len(elements) + 1 >= BatchSize THEN "force" ELSE "signal")
    /\ UNCHANGED <<flag, pool, timers, batches, batch, ran, handed>>

AddSignal(p) ==
    /\ pc[p] = "signal"
    /\ flag' = TRUE
    /\ Goto(p, IF flag THEN "idle" ELSE "arm")
    /\ UNCHANGED <<elements, pool, timers, batches, batch, adds, ran, handed>>

AddArm(p) ==
    /\ pc[p] = "arm"
    /\ timers' = timers + 1
    /\ Goto(p, "idle")
    /\ UNCHANGED <<elements, flag, pool, batches, batch, adds, ran, handed>>

-----------------------------------------------------------------------------
(* flush, by a timer or by a producer that has added its last element *)


\* The first critical section only looks whether there is anything.
FlushCheck(t) == Goto(t, IF elements # <<>> THEN "clear" ELSE "clearOnly")

TimerFlush(x) ==
    /\ pc[x] = "idle" /\ timers > 0
    /\ timers' = timers - 1
    /\ FlushCheck(x)
    /\ UNCHANGED <<elements, flag, pool, batches, batch, adds, ran, handed>>

FinalFlush(p) ==
    /\ pc[p] = "idle" /\ adds[p] = MaxAdds
    /\ adds' = [adds EXCEPT ![p] = MaxAdds + 1]
    /\ FlushCheck(p)
    /\ UNCHANGED <<elements, flag, pool, timers, batches, batch, ran, handed>>

AfterFlushNothing == [clear |-> "idle", clearOnly |-> "idle"]  \* weakened
AfterFlush == [clear |-> "force", clearOnly |-> "idle"]

FlushClear(t) ==
    /\ pc[t] \in {"clear", "clearOnly"}
    /\ flag' = FALSE
    /\ Goto(t, AfterFlush[pc[t]])
    /\ UNCHANGED <<elements, pool, timers, batches, batch, adds, ran, handed>>

-----------------------------------------------------------------------------
(* flushForce *)

ForceClear(t) ==
    /\ pc[t] = "force"
    /\ flag' = FALSE
    /\ Goto(t, "take")
    /\ UNCHANGED <<elements, pool, timers, batches, batch, adds, ran, handed>>

\* Another thread may have taken the batch meanwhile.
ForceTakeNothing(t) ==
    /\ pc[t] = "take" /\ elements = <<>>
    /\ Goto(t, "idle")
    /\ UNCHANGED <<elements, flag, pool, timers, batches, batch, adds, ran, handed>>

ReplacementKept == elements  \* weakened: the vector handed over stays the current one
Replacement == <<>>

ForceTake(t) ==
    /\ pc[t] = "take" /\ elements # <<>>
    /\ batch' = [batch EXCEPT ![t] = elements]
    /\ handed' = Append(handed, elements)
    /\ elements' = Replacement
    /\ pool' = IF pool > 0 THEN pool - 1 ELSE pool
    /\ Goto(t, "hand")
    /\ UNCHANGED <<flag, timers, batches, adds, ran>>

\* _onBatchAction posts the batch to the executor.
ForceHand(t) ==
    /\ pc[t] = "hand"
    /\ batches' = Append(batches, batch[t])
    /\ batch' = [batch EXCEPT ![t] = <<>>]
    /\ Goto(t, "idle")
    /\ UNCHANGED <<elements, flag, pool, timers, adds, ran, handed>>

-----------------------------------------------------------------------------
(* The executor *)

BatchBegin(x) ==
    /\ pc[x] = "idle" /\ batches # <<>>
    /\ batch' = [batch EXCEPT ![x] = Head(batches)]
    /\ batches' = Tail(batches)
    /\ Goto(x, "run")
    /\ UNCHANGED <<elements, flag, pool, timers, adds, ran, handed>>

BatchRunOne(x) ==
    /\ pc[x] = "run" /\ batch[x] # <<>>
    /\ ran' = Append(ran, Head(batch[x]))
    /\ batch' = [batch EXCEPT ![x] = Tail(@)]
    /\ UNCHANGED <<elements, flag, pool, timers, batches, pc, adds, handed>>

RecycledAll == pool + 1  \* weakened: the pool has no limit
Recycled == IF pool < PoolLimit THEN pool + 1 ELSE pool

Recycle(x) ==
    /\ pc[x] = "run" /\ batch[x] = <<>>
    /\ pool' = Recycled
    /\ Goto(x, "idle")
    /\ UNCHANGED <<elements, flag, timers, batches, batch, adds, ran, handed>>

-----------------------------------------------------------------------------
FlushForce(t) == FlushClear(t) \/ ForceClear(t) \/ ForceTakeNothing(t) \/ ForceTake(t) \/ ForceHand(t)
Produce(p) == AddAppend(p) \/ AddSignal(p) \/ AddArm(p) \/ FinalFlush(p) \/ FlushForce(p)
Execute(x) == TimerFlush(x) \/ BatchBegin(x) \/ BatchRunOne(x) \/ Recycle(x) \/ FlushForce(x)

Flushed(p) == adds[p] > MaxAdds /\ pc[p] = "idle"

Quiet ==
    /\ \A p \in Producers : Flushed(p)
    /\ \A x \in Executors : pc[x] = "idle"
    /\ timers = 0 /\ batches = <<>>
    /\ UNCHANGED vars

Next ==
    \/ \E p \in Producers : Produce(p)
    \/ \E x \in Executors : Execute(x)
    \/ Quiet

\* Producers run to their end, and the executor's threads serve what is due.
Fairness ==
    /\ \A p \in Producers : WF_vars(Produce(p))
    /\ \A x \in Executors : WF_vars(Execute(x))

Spec == Init /\ [][Next]_vars
FairSpec == Spec /\ Fairness

-----------------------------------------------------------------------------
(* Properties *)

\* Every variable has its type.
TypeOK ==
    /\ elements \in Seq(Elements \cup {Blank})
    /\ flag \in BOOLEAN /\ pool \in 0 .. PoolLimit /\ timers \in Nat
    /\ batches \in Seq(Seq(Elements \cup {Blank}))
    /\ pc \in [Threads -> {"idle", "signal", "arm", "clear", "clearOnly", "force", "take",
                           "hand", "run"}]
    /\ batch \in [Threads -> Seq(Elements \cup {Blank})]
    /\ adds \in [Producers -> 0 .. MaxAdds + 1]
    /\ ran \in Seq(Elements \cup {Blank}) /\ handed \in Seq(Seq(Elements \cup {Blank}))

\* The batches taken one after the other hold each producer's elements once, in order
\* and without a gap, whichever of add, a timer and a final flush take the vector.
Handed(e) == \E b \in DOMAIN handed : \E i \in DOMAIN handed[b] : handed[b][i] = e
HandedBefore(e, f) ==
    \E b, c \in DOMAIN handed : \E i \in DOMAIN handed[b], j \in DOMAIN handed[c] :
        /\ b < c \/ (b = c /\ i < j)
        /\ handed[b][i] = e /\ handed[c][j] = f
ProducerOrderKept ==
    \A p \in Producers, m, n \in 1 .. MaxAdds :
        /\ HandedBefore(<<p, m>>, <<p, n>>) => m < n
        /\ Handed(<<p, n>>) /\ m < n => Handed(<<p, m>>)

\* Once every producer has flushed, nothing waits in the queue for a timer.
NothingLeftAfterFlush == (\A p \in Producers : Flushed(p)) => elements = <<>>

\* The loop that waits for all tasks ends when as many have run as were added;
\* all that were added have run by then.
Finished == Len(ran) >= Cardinality(Elements)
FinishedMeansAllRan == Finished => Elements \subseteq ToSet(ran)

=============================================================================
