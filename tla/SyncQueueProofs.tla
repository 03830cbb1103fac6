--------------------------- MODULE SyncQueueProofs ---------------------------
(***************************************************************************)
(* Safety of SyncQueue for any number of consumers and of values.          *)
(***************************************************************************)
EXTENDS SyncQueue, SequenceTheorems, TLAPS

-----------------------------------------------------------------------------
(* The inductive invariant *)

\* What came out and what is still queued are the values 0, 1, ... without a gap.
Consecutive ==
    /\ Len(popped) + Len(queue) = pushed
    /\ \A i \in 1 .. Len(popped) : popped[i] = i - 1
    /\ \A i \in 1 .. Len(queue) : queue[i] = Len(popped) + i - 1

\* Only a consumer about to block holds the mutex across a step.
OwnerBlocks == \A c \in Consumers : cpc[c] = "blocking" <=> owner = c

\* Nothing is pushed any more once done is set, and only then does a consumer look
\* for the end.
DoneLast ==
    /\ done => ppc # "push"
    /\ ppc # "push" => done /\ pushed = Values
    /\ \A c \in Consumers : cpc[c] \in {"testEmpty", "ended"} => done

\* A consumer that has left, left an empty queue.
LeftEmpty == \A c \in Consumers : cpc[c] = "ended" => queue = <<>>

IInv == TypeOK /\ Consecutive /\ OwnerBlocks /\ DoneLast /\ LeftEmpty /\ NoSleeperWithWork

\* Consecutive values are the ones PoppedInOrder names.
LEMMA ConsecutiveInOrder == TypeOK /\ Consecutive => PoppedInOrder
<1> SUFFICES ASSUME TypeOK, Consecutive PROVE PoppedInOrder
  OBVIOUS
<1> DEFINE s == popped \o queue
           t == [i \in 1 .. pushed |-> i - 1]
<1>1. /\ popped \in Seq(Nat) /\ queue \in Seq(Nat) /\ Len(popped) \in Nat /\ Len(queue) \in Nat
      /\ pushed \in Nat /\ Len(popped) + Len(queue) = pushed
  BY LenProperties, SyncAssumption DEF TypeOK, Consecutive
<1>2. /\ s \in Seq(Nat) /\ Len(s) = pushed
      /\ \A i \in 1 .. pushed :
             s[i] = IF i <= Len(popped) THEN popped[i] ELSE queue[i - Len(popped)]
  BY <1>1, ConcatProperties
<1>3. t \in Seq(Nat) /\ Len(t) = pushed
  BY <1>1
<1>4. \A i \in 1 .. pushed : s[i] = i - 1
  <2>1. SUFFICES ASSUME NEW i \in 1 .. pushed PROVE s[i] = i - 1
    OBVIOUS
  <2> HIDE DEF s
  <2>2. CASE i <= Len(popped)
    <3>1. i \in 1 .. Len(popped) /\ s[i] = popped[i]
      BY <1>1, <1>2, <2>2
    <3>2. QED
      BY <3>1 DEF Consecutive
  <2>3. CASE ~(i <= Len(popped))
    <3>1. i - Len(popped) \in 1 .. Len(queue)
      BY <1>1, <2>3
    <3>2. queue[i - Len(popped)] = Len(popped) + (i - Len(popped)) - 1
      BY <3>1 DEF Consecutive
    <3>3. QED
      BY <1>1, <1>2, <2>3, <3>2
  <2>4. QED
    BY <2>2, <2>3
<1>5. \A i \in 1 .. pushed : t[i] = i - 1
  OBVIOUS
<1> HIDE DEF s, t
<1>6. s = t
  BY <1>2, <1>3, <1>4, <1>5, SeqEqual
<1>7. QED
  BY <1>6 DEF PoppedInOrder, s, t

\* In the beginning the queue is empty and nobody waits.
LEMMA InitKeeps == Init => IInv
<1> SUFFICES ASSUME Init PROVE IInv
  OBVIOUS
<1>1. queue = <<>> /\ popped = <<>> /\ Len(<<>>) = 0 /\ <<>> \in Seq(Nat)
  BY EmptySeq DEF Init
<1>2. TypeOK /\ LeftEmpty /\ NoSleeperWithWork
  <2>1. pushed \in 0 .. Values
    BY SyncAssumption DEF Init
  <2>2. owner \in Consumers \cup {Nobody} /\ ppc = "push" /\ running = TRUE /\ done = FALSE
    BY DEF Init
  <2>3. cpc \in [Consumers -> {"test", "testEmpty", "check", "blocking", "waiting", "ended"}]
    BY DEF Init
  <2>4. TypeOK
    BY <1>1, <2>1, <2>2, <2>3 DEF TypeOK
  <2>5. LeftEmpty /\ NoSleeperWithWork
    BY <1>1 DEF LeftEmpty, NoSleeperWithWork
  <2>6. QED
    BY <2>4, <2>5
<1>3. Consecutive
  BY <1>1 DEF Init, Consecutive
<1>4. OwnerBlocks /\ DoneLast
  BY SyncAssumption DEF Init, OwnerBlocks, DoneLast
<1>5. QED
  BY <1>2, <1>3, <1>4 DEF IInv

-----------------------------------------------------------------------------
(* The producer's steps *)

\* push: the value goes to the end, and a sleeper is woken if there is one.
LEMMA PushKeeps == IInv /\ Push => IInv'
<1> SUFFICES ASSUME IInv, Push PROVE IInv'
  OBVIOUS
<1>1. /\ TypeOK /\ Consecutive /\ OwnerBlocks /\ DoneLast
      /\ ppc = "push" /\ pushed < Values /\ owner = Nobody /\ ~done
      /\ pushed' = pushed + 1 /\ queue' = Append(queue, pushed)
      /\ owner' = owner /\ running' = running /\ done' = done /\ ppc' = ppc
      /\ popped' = popped
  BY DEF IInv, Push, More, DoneLast
<1>2. /\ queue \in Seq(Nat) /\ pushed \in Nat /\ pushed + 1 \in 0 .. Values
      /\ Len(popped) \in Nat /\ Len(queue) \in Nat
  BY <1>1, LenProperties, SyncAssumption DEF TypeOK
<1>3. /\ queue' \in Seq(Nat) /\ Len(queue') = Len(queue) + 1
      /\ queue'[Len(queue) + 1] = pushed
      /\ \A i \in 1 .. Len(queue) : queue'[i] = queue[i]
  BY <1>1, <1>2, AppendProperties
<1>4. \/ cpc' = cpc /\ Waiting = {}
      \/ \E c \in Waiting : cpc' = [cpc EXCEPT ![c] = "check"]
  BY DEF Push, NotifyOne
<1>5. \A c \in Consumers : cpc[c] # "blocking" /\ cpc[c] # "ended" /\ cpc[c] # "testEmpty"
  BY <1>1, SyncAssumption DEF OwnerBlocks, DoneLast
<1>6. /\ cpc' \in [Consumers -> {"test", "testEmpty", "check", "blocking", "waiting", "ended"}]
      /\ \A c \in Consumers : cpc'[c] \in {cpc[c], "check"}
      /\ \E c \in Consumers : cpc'[c] \notin {"waiting", "blocking", "ended"}
  <2>1. CASE cpc' = cpc /\ Waiting = {}
    BY <1>1, <1>5, <2>1, SyncAssumption DEF TypeOK, Waiting
  <2>2. ASSUME NEW c \in Waiting, cpc' = [cpc EXCEPT ![c] = "check"]
        PROVE  /\ cpc' \in [Consumers ->
                      {"test", "testEmpty", "check", "blocking", "waiting", "ended"}]
               /\ \A d \in Consumers : cpc'[d] \in {cpc[d], "check"}
               /\ cpc'[c] = "check" /\ c \in Consumers
    BY <1>1, <2>2 DEF TypeOK, Waiting
  <2>3. QED
    BY <1>4, <2>1, <2>2
<1>7. TypeOK'
  BY <1>1, <1>2, <1>3, <1>6 DEF TypeOK
<1>8. Consecutive'
  BY <1>1, <1>2, <1>3 DEF Consecutive
<1>9. OwnerBlocks' /\ DoneLast' /\ LeftEmpty' /\ NoSleeperWithWork'
  BY <1>1, <1>5, <1>6, SyncAssumption DEF OwnerBlocks, DoneLast, LeftEmpty, NoSleeperWithWork
<1>10. QED
  BY <1>7, <1>8, <1>9 DEF IInv

\* The steps that end the producer touch neither the queue nor the mutex; the last
\* one wakes every sleeper.
LEMMA EndOfProducerKeeps == IInv /\ (SetDone \/ StopRunning \/ StopNotify) => IInv'
<1> SUFFICES ASSUME IInv, SetDone \/ StopRunning \/ StopNotify PROVE IInv'
  OBVIOUS
<1>1. TypeOK /\ Consecutive /\ OwnerBlocks /\ DoneLast /\ LeftEmpty /\ NoSleeperWithWork
  BY DEF IInv
<1>2. queue' = queue /\ owner' = owner /\ pushed' = pushed /\ popped' = popped
  BY DEF SetDone, StopRunning, StopNotify
<1>3. Consecutive'
  BY <1>1, <1>2 DEF Consecutive
<1>4. CASE SetDone
  BY <1>1, <1>2, <1>3, <1>4 DEF SetDone, IInv, TypeOK, OwnerBlocks, DoneLast, LeftEmpty,
       NoSleeperWithWork
<1>5. CASE StopRunning
  BY <1>1, <1>2, <1>3, <1>5 DEF StopRunning, IInv, TypeOK, OwnerBlocks, DoneLast, LeftEmpty,
       NoSleeperWithWork
<1>6. CASE StopNotify
  <2>1. /\ cpc' \in [Consumers -> {"test", "testEmpty", "check", "blocking", "waiting", "ended"}]
        /\ \A c \in Consumers : cpc'[c] = IF cpc[c] = "waiting" THEN "check" ELSE cpc[c]
    BY <1>1, <1>6 DEF StopNotify, NotifyAll, Waiting, TypeOK
  <2>2. running' = running /\ done' = done /\ ppc = "notify" /\ ppc' = "ended"
    BY <1>6 DEF StopNotify
  <2>3. TypeOK'
    BY <1>1, <1>2, <2>1, <2>2 DEF TypeOK
  <2>4. OwnerBlocks' /\ DoneLast' /\ LeftEmpty' /\ NoSleeperWithWork'
    BY <1>1, <1>2, <2>1, <2>2 DEF OwnerBlocks, DoneLast, LeftEmpty, NoSleeperWithWork
  <2>5. QED
    BY <1>3, <2>3, <2>4 DEF IInv
<1>7. QED
  BY <1>4, <1>5, <1>6

-----------------------------------------------------------------------------
(* A consumer's steps *)

\* pop takes the oldest value: what is left follows what came out.
LEMMA PopValueKeeps == ASSUME IInv, NEW c \in Consumers, PopValue(c) PROVE IInv'
<1>1. /\ TypeOK /\ Consecutive /\ OwnerBlocks /\ DoneLast /\ LeftEmpty /\ NoSleeperWithWork
      /\ cpc[c] = "check" /\ queue # <<>>
      /\ popped' = Append(popped, queue[1]) /\ queue' = RemoveAt(queue, 1)
      /\ cpc' = [cpc EXCEPT ![c] = "test"]
      /\ owner' = owner /\ running' = running /\ done' = done /\ ppc' = ppc
      /\ pushed' = pushed
  BY DEF IInv, PopValue, Oldest
<1>2. /\ queue \in Seq(Nat) /\ popped \in Seq(Nat) /\ Len(queue) \in Nat \ {0}
      /\ Len(popped) \in Nat /\ queue[1] \in Nat /\ pushed \in Nat
  BY <1>1, EmptySeq, LenProperties, ElementOfSeq, SyncAssumption DEF TypeOK
<1>3. queue' = Tail(queue)
  <2>1. SubSeq(queue, 1, 1 - 1) = <<>>
    BY SubSeqEmpty
  <2>2. SubSeq(queue, 1 + 1, Len(queue)) = Tail(queue)
    BY <1>1, <1>2, TailIsSubSeq
  <2>3. Tail(queue) \in Seq(Nat)
    BY <1>1, <1>2, HeadTailProperties
  <2>4. <<>> \o Tail(queue) = Tail(queue)
    BY <2>3, ConcatEmptySeq
  <2>5. QED
    BY <1>1, <2>1, <2>2, <2>4 DEF RemoveAt
<1>4. /\ queue' \in Seq(Nat) /\ Len(queue') = Len(queue) - 1
      /\ \A i \in 1 .. Len(queue') : queue'[i] = queue[i + 1]
  BY <1>1, <1>2, <1>3, HeadTailProperties
<1>5. /\ popped' \in Seq(Nat) /\ Len(popped') = Len(popped) + 1
      /\ popped'[Len(popped) + 1] = queue[1]
      /\ \A i \in 1 .. Len(popped) : popped'[i] = popped[i]
  BY <1>1, <1>2, AppendProperties
<1>6. Consecutive'
  <2>1. Len(popped') + Len(queue') = pushed'
    <3>1. Len(popped) + Len(queue) = pushed
      BY <1>1 DEF Consecutive
    <3> DEFINE out == Len(popped)  left == Len(queue)
               outNow == Len(popped')  leftNow == Len(queue')
    <3>2. /\ out \in Nat /\ left \in Nat /\ outNow = out + 1 /\ leftNow = left - 1
          /\ out + left = pushed /\ pushed' = pushed
      BY <1>1, <1>2, <1>4, <1>5, <3>1
    <3> HIDE DEF out, left, outNow, leftNow
    <3>3. outNow + leftNow = pushed'
      BY <3>2
    <3>4. QED
      BY <3>3 DEF outNow, leftNow
  <2>2. ASSUME NEW i \in 1 .. Len(popped') PROVE popped'[i] = i - 1
    <3>1. 1 \in 1 .. Len(queue)
      BY <1>2
    <3>2. queue[1] = Len(popped) + 1 - 1
      BY <1>1, <3>1 DEF Consecutive
    <3>3. QED
      BY <1>1, <1>2, <1>5, <3>2 DEF Consecutive
  <2>3. ASSUME NEW i \in 1 .. Len(queue') PROVE queue'[i] = Len(popped') + i - 1
    <3>1. i + 1 \in 1 .. Len(queue) /\ queue'[i] = queue[i + 1]
      BY <1>2, <1>4
    <3>2. queue[i + 1] = Len(popped) + (i + 1) - 1
      BY <1>1, <3>1 DEF Consecutive
    <3>3. QED
      BY <1>2, <1>5, <3>1, <3>2
  <2>4. QED
    BY <2>1, <2>2, <2>3 DEF Consecutive
<1>7. cpc' \in [Consumers -> {"test", "testEmpty", "check", "blocking", "waiting", "ended"}]
      /\ cpc'[c] = "test" /\ \A d \in Consumers \ {c} : cpc'[d] = cpc[d]
  BY <1>1 DEF TypeOK
<1>8. TypeOK'
  BY <1>1, <1>4, <1>5, <1>7 DEF TypeOK
<1>9. OwnerBlocks' /\ DoneLast' /\ NoSleeperWithWork'
  BY <1>1, <1>7 DEF OwnerBlocks, DoneLast, NoSleeperWithWork
<1>10. LeftEmpty'
  BY <1>1, <1>7 DEF LeftEmpty
<1>11. QED
  BY <1>6, <1>8, <1>9, <1>10 DEF IInv

\* The steps of the loop and of pop that leave the queue alone.
LEMMA ConsumerKeeps ==
    ASSUME IInv, NEW c \in Consumers,
           \/ LoopTestDone(c) \/ LoopTestEmpty(c) \/ PopStopped(c) \/ PopMustWait(c)
           \/ PopBlock(c) \/ SpuriousWakeup(c)
    PROVE  IInv'
<1>1. TypeOK /\ Consecutive /\ OwnerBlocks /\ DoneLast /\ LeftEmpty /\ NoSleeperWithWork
  BY DEF IInv
<1>2. /\ queue' = queue /\ running' = running /\ done' = done /\ ppc' = ppc
      /\ pushed' = pushed /\ popped' = popped
  BY DEF LoopTestDone, LoopTestEmpty, PopStopped, PopMustWait, PopBlock, SpuriousWakeup
<1>3. Consecutive'
  BY <1>1, <1>2 DEF Consecutive
<1>4. CASE LoopTestDone(c)
  BY <1>1, <1>2, <1>3, <1>4 DEF LoopTestDone, AfterDone, IInv, TypeOK, OwnerBlocks, DoneLast,
       LeftEmpty, NoSleeperWithWork
<1>5. CASE LoopTestEmpty(c)
  BY <1>1, <1>2, <1>3, <1>5 DEF LoopTestEmpty, IInv, TypeOK, OwnerBlocks, DoneLast,
       LeftEmpty, NoSleeperWithWork
<1>6. CASE PopStopped(c)
  BY <1>1, <1>2, <1>3, <1>6 DEF PopStopped, IInv, TypeOK, OwnerBlocks, DoneLast,
       LeftEmpty, NoSleeperWithWork
<1>7. CASE PopMustWait(c)
  BY <1>1, <1>2, <1>3, <1>7, SyncAssumption DEF PopMustWait, IInv, TypeOK, OwnerBlocks,
       DoneLast, LeftEmpty, NoSleeperWithWork
<1>8. CASE PopBlock(c)
  BY <1>1, <1>2, <1>3, <1>8, SyncAssumption DEF PopBlock, IInv, TypeOK, OwnerBlocks, DoneLast,
       LeftEmpty, NoSleeperWithWork
<1>9. CASE SpuriousWakeup(c)
  BY <1>1, <1>2, <1>3, <1>9 DEF SpuriousWakeup, IInv, TypeOK, OwnerBlocks, DoneLast,
       LeftEmpty, NoSleeperWithWork
<1>10. QED
  BY <1>4, <1>5, <1>6, <1>7, <1>8, <1>9

\* A step that changes nothing.
LEMMA StutterKeeps == IInv /\ UNCHANGED vars => IInv'
BY DEF IInv, TypeOK, Consecutive, OwnerBlocks, DoneLast, LeftEmpty, NoSleeperWithWork, vars

\* Every step keeps the invariant.
LEMMA NextKeeps == IInv /\ [Next]_vars => IInv'
BY PushKeeps, EndOfProducerKeeps, PopValueKeeps, ConsumerKeeps, StutterKeeps
   DEF Next, Produce, Consume, Quiet

-----------------------------------------------------------------------------
(* The theorems *)

\* The inductive invariant holds in every reachable state.
THEOREM Invariance == Spec => []IInv
BY InitKeeps, NextKeeps, PTL DEF Spec

\* Every variable keeps its type (TypeOK).
THEOREM TypeCorrect == Spec => []TypeOK
<1>1. IInv => TypeOK
  BY DEF IInv
<1>2. QED
  BY <1>1, Invariance, PTL

\* push and pop hand every value over once and in order (PoppedInOrder).
THEOREM Fifo == Spec => []PoppedInOrder
<1>1. IInv => PoppedInOrder
  BY ConsecutiveInOrder DEF IInv
<1>2. QED
  BY <1>1, Invariance, PTL

\* One notify_one for each push is enough: no value waits while every consumer
\* sleeps or is gone (NoSleeperWithWork).
THEOREM WorkIsNoticed == Spec => []NoSleeperWithWork
<1>1. IInv => NoSleeperWithWork
  BY DEF IInv
<1>2. QED
  BY <1>1, Invariance, PTL

\* Every value of the program has been popped when a consumer has left.
AllPoppedAtTheEnd ==
    \A c \in Consumers : cpc[c] = "ended" => popped = [i \in 1 .. Values |-> i - 1]

\* The loop tests done before the queue: once a consumer has left it, every value the
\* program pushes has been popped.
THEOREM NothingLeftBehind == Spec => []AllPoppedAtTheEnd
<1>1. IInv => AllPoppedAtTheEnd
  <2>1. SUFFICES ASSUME IInv, NEW c \in Consumers, cpc[c] = "ended"
                 PROVE  popped = [i \in 1 .. Values |-> i - 1]
    BY DEF AllPoppedAtTheEnd
  <2>2. queue = <<>> /\ pushed = Values /\ popped \in Seq(Nat)
    BY <2>1 DEF IInv, TypeOK, DoneLast, LeftEmpty
  <2>3. popped \o <<>> = popped
    BY <2>2, ConcatEmptySeq
  <2>4. QED
    BY <2>1, <2>2, <2>3, ConsecutiveInOrder DEF IInv, PoppedInOrder
<1>2. QED
  BY <1>1, Invariance, PTL
=============================================================================
