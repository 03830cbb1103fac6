-------------------------- MODULE BatchQueueProofs --------------------------
(***************************************************************************)
(* Safety of BatchQueue for any number of producers and executor threads,  *)
(* any size of a batch and any limit of the pool.                          *)
(***************************************************************************)
EXTENDS BatchQueue, SequenceTheorems, TLAPS

-----------------------------------------------------------------------------
(* The inductive invariant *)

\* The batches of h, and v behind them as the last one: e is the ith of the bth.
Lot(h, v, b) == IF b = Len(h) + 1 THEN v ELSE h[b]
Placed(h, v, b, i, e) ==
    /\ b \in 1 .. Len(h) + 1 /\ i \in 1 .. Len(Lot(h, v, b))
    /\ Lot(h, v, b)[i] = e

\* A place comes before another one.
Before(b, i, c, j) == b < c \/ (b = c /\ i < j)

\* What was taken and what is being filled hold each producer's elements in order,
Ordered ==
    \A p \in Producers, m, n \in 1 .. MaxAdds : \A b, i, c, j \in Nat :
        /\ Placed(handed, elements, b, i, <<p, m>>)
        /\ Placed(handed, elements, c, j, <<p, n>>)
        /\ Before(b, i, c, j)
        => m < n

\* and exactly those it has added.
Complete ==
    \A p \in Producers, n \in 1 .. MaxAdds :
        n <= adds[p] <=> \E b, i \in Nat : Placed(handed, elements, b, i, <<p, n>>)

\* Elements in the vector have a producer that is still to flush, or that is on its way
\* to take them.
StillToTake(p) == adds[p] <= MaxAdds \/ pc[p] \in {"clear", "force", "take"}
TakerComes == elements # <<>> => \E p \in Producers : StillToTake(p)

IInv == TypeOK /\ Ordered /\ Complete /\ TakerComes

-----------------------------------------------------------------------------
(* Places *)

\* A blank of the first vector is no element.
LEMMA BlankIsNoElement ==
    ASSUME NEW p, NEW n
    PROVE  Blank # <<p, n>>
BY DEF Blank

\* Filling the vector adds a place behind all others.
LEMMA PlacesAfterAppend ==
    ASSUME NEW S, NEW h \in Seq(Seq(S)), NEW v \in Seq(S), NEW x \in S,
           NEW b \in Nat, NEW i \in Nat, NEW e
    PROVE  Placed(h, Append(v, x), b, i, e)
           <=> Placed(h, v, b, i, e) \/ (b = Len(h) + 1 /\ i = Len(v) + 1 /\ e = x)
<1>1. CASE b = Len(h) + 1
  BY <1>1, AppendProperties DEF Placed, Lot
<1>2. CASE b # Len(h) + 1
  BY <1>2 DEF Placed, Lot
<1>3. QED
  BY <1>1, <1>2

\* Taking the vector moves nothing.
LEMMA PlacesAfterTake ==
    ASSUME NEW S, NEW h \in Seq(Seq(S)), NEW v \in Seq(S),
           NEW b \in Nat, NEW i \in Nat, NEW e
    PROVE  Placed(Append(h, v), <<>>, b, i, e) <=> Placed(h, v, b, i, e)
<1>1. Len(Append(h, v)) = Len(h) + 1
      /\ \A k \in 1 .. Len(h) : Append(h, v)[k] = h[k]
      /\ Append(h, v)[Len(h) + 1] = v
  BY AppendProperties
<1>2. CASE b \in 1 .. Len(h)
  BY <1>1, <1>2 DEF Placed, Lot
<1>3. CASE b = Len(h) + 1
  BY <1>1, <1>3 DEF Placed, Lot
<1>4. CASE b \notin 1 .. Len(h) + 1
  <2>1. ~ Placed(h, v, b, i, e)
    BY <1>4 DEF Placed
  <2>2. CASE b = Len(h) + 2
    BY <1>1, <2>1, <2>2 DEF Placed, Lot
  <2>3. CASE b # Len(h) + 2
    BY <1>1, <1>4, <2>1, <2>3 DEF Placed
  <2>4. QED
    BY <2>2, <2>3
<1>5. QED
  BY <1>2, <1>3, <1>4

\* A place in the vector is behind every place in what was taken.
LEMMA LastPlace ==
    ASSUME NEW S, NEW h \in Seq(Seq(S)), NEW v \in Seq(S),
           NEW b \in Nat, NEW i \in Nat, NEW e, Placed(h, v, b, i, e)
    PROVE  /\ ~ Before(Len(h) + 1, Len(v) + 1, b, i)
           /\ b # Len(h) + 1 \/ i # Len(v) + 1
BY DEF Placed, Lot, Before

-----------------------------------------------------------------------------
(* The actions *)

\* In the beginning there are blanks and all producers have to add.
LEMMA InitKeeps == Init => IInv
<1>1. SUFFICES ASSUME Init
               PROVE  IInv
  OBVIOUS
<1>2. TypeOK
  <2>1. elements \in Seq(Elements \cup {Blank})
    BY <1>1, BatchAssumption DEF Init
  <2>2. flag \in BOOLEAN
    BY <1>1, Zenon DEF Init
  <2>3. pool \in 0 .. PoolLimit /\ timers \in Nat
    BY <1>1, BatchAssumption DEF Init
  <2>4. /\ batches \in Seq(Seq(Elements \cup {Blank}))
        /\ ran \in Seq(Elements \cup {Blank})
        /\ handed \in Seq(Seq(Elements \cup {Blank}))
    BY <1>1 DEF Init
  <2>5. /\ pc \in [Threads -> {"idle", "signal", "arm", "clear", "clearOnly", "force",
                               "take", "hand", "run"}]
        /\ batch \in [Threads -> Seq(Elements \cup {Blank})]
    BY <1>1 DEF Init
  <2>6. adds \in [Producers -> 0 .. MaxAdds + 1]
    BY <1>1, BatchAssumption DEF Init
  <2>7. QED
    BY <2>1, <2>2, <2>3, <2>4, <2>5, <2>6 DEF TypeOK
<1>3. \A p, n, b, i : ~ Placed(handed, elements, b, i, <<p, n>>)
  <2>1. SUFFICES ASSUME NEW p, NEW n, NEW b, NEW i, Placed(handed, elements, b, i, <<p, n>>)
                 PROVE  FALSE
    OBVIOUS
  <2>2. handed = <<>> /\ Len(handed) = 0
    BY <1>1 DEF Init
  <2>3. b = 1 /\ Lot(handed, elements, b) = elements
    BY <2>1, <2>2 DEF Placed, Lot
  <2>4. elements[i] = Blank
    BY <1>1, <2>1, <2>3, BatchAssumption DEF Init, Placed
  <2>5. QED
    BY <2>1, <2>3, <2>4, BlankIsNoElement DEF Placed
<1>4. Ordered /\ Complete
  BY <1>1, <1>3, BatchAssumption DEF Init, Ordered, Complete
<1>5. TakerComes
  BY <1>1, BatchAssumption DEF Init, TakerComes, StillToTake
<1>6. QED
  BY <1>2, <1>4, <1>5 DEF IInv

\* An added element comes last and has its producer's greatest number.
LEMMA AddAppendKeeps ==
    ASSUME IInv, NEW p \in Producers, AddAppend(p)
    PROVE  IInv'
<1> DEFINE x == <<p, adds[p] + 1>>
           last == Len(handed) + 1
           end == Len(elements) + 1
<1> USE BatchAssumption DEF IInv
<1>1. adds[p] \in Nat /\ adds[p] + 1 \in 1 .. MaxAdds /\ p \in Threads
  BY DEF AddAppend, TypeOK, Threads
<1>2. x \in Elements
  BY <1>1 DEF Elements
<1>3. TypeOK'
  <2>1. elements' \in Seq(Elements \cup {Blank})
    BY <1>2, AppendProperties DEF AddAppend, TypeOK
  <2>2. adds' \in [Producers -> 0 .. MaxAdds + 1]
    BY <1>1 DEF AddAppend, TypeOK
  <2>3. pc' \in [Threads -> {"idle", "signal", "arm", "clear", "clearOnly", "force",
                            "take", "hand", "run"}]
    BY DEF AddAppend, Goto, TypeOK
  <2>4. QED
    BY <2>1, <2>2, <2>3 DEF AddAppend, TypeOK
<1>4. \A b, i \in Nat : \A e :
        Placed(handed', elements', b, i, e)
        <=> Placed(handed, elements, b, i, e) \/ (b = last /\ i = end /\ e = x)
  <2>1. /\ handed \in Seq(Seq(Elements \cup {Blank})) /\ elements \in Seq(Elements \cup {Blank})
        /\ x \in Elements \cup {Blank}
    BY <1>2 DEF TypeOK
  <2>2. handed' = handed /\ elements' = Append(elements, x)
    BY DEF AddAppend
  <2> HIDE DEF x
  <2>3. QED
    BY <2>1, <2>2, PlacesAfterAppend
<1>5. \A b, i \in Nat : \A e :
        Placed(handed, elements, b, i, e) => ~ Before(last, end, b, i)
  BY LastPlace DEF TypeOK
<1>6. last \in Nat /\ end \in Nat /\ ~ Before(last, end, last, end)
  BY DEF Before, TypeOK
<1>7. Ordered'
  <2>1. SUFFICES ASSUME NEW q \in Producers, NEW m \in 1 .. MaxAdds, NEW n \in 1 .. MaxAdds,
                        NEW b \in Nat, NEW i \in Nat, NEW c \in Nat, NEW j \in Nat,
                        Placed(handed', elements', b, i, <<q, m>>),
                        Placed(handed', elements', c, j, <<q, n>>),
                        Before(b, i, c, j)
                 PROVE  m < n
    BY DEF Ordered
  <2> HIDE DEF last, end
  <2>2. Placed(handed, elements, b, i, <<q, m>>)
    BY <1>4, <1>5, <1>6, <2>1
  <2>3. CASE Placed(handed, elements, c, j, <<q, n>>)
    BY <2>1, <2>2, <2>3 DEF Ordered
  <2>4. CASE <<q, n>> = x
    <3>1. m <= adds[q]
      BY <2>2 DEF Complete
    <3>2. QED
      BY <1>1, <2>4, <3>1
  <2>5. QED
    BY <1>4, <2>1, <2>3, <2>4
<1>8. Complete'
  <2>1. SUFFICES ASSUME NEW q \in Producers, NEW n \in 1 .. MaxAdds
                 PROVE  n <= adds'[q]
                        <=> \E b, i \in Nat : Placed(handed', elements', b, i, <<q, n>>)
    BY DEF Complete
  <2>2. n <= adds'[q] <=> n <= adds[q] \/ <<q, n>> = x
    BY <1>1 DEF AddAppend, TypeOK
  <2> HIDE DEF last, end, x
  <2>3. (\E b, i \in Nat : Placed(handed', elements', b, i, <<q, n>>))
        <=> (\E b, i \in Nat : Placed(handed, elements, b, i, <<q, n>>)) \/ <<q, n>> = x
    BY <1>4, <1>6
  <2>4. QED
    BY <2>2, <2>3 DEF Complete
<1>9. TakerComes'
  BY <1>1 DEF AddAppend, TypeOK, TakerComes, StillToTake
<1>10. QED
  BY <1>3, <1>7, <1>8, <1>9

\* A step that leaves the vector, what was taken and the counts alone moves no place.
LEMMA SamePlaces ==
    ASSUME Ordered, Complete, UNCHANGED <<elements, handed, adds>>
    PROVE  Ordered' /\ Complete'
<1>1. Ordered'
  BY DEF Ordered
<1>2. Complete'
  BY DEF Complete
<1>3. QED
  BY <1>1, <1>2

\* Only the taker of the vector and the counts of its producers matter to TakerComes.
LEMMA SameTaker ==
    ASSUME TakerComes, UNCHANGED <<elements, adds>>,
           \A p \in Producers : pc[p] \in {"clear", "force", "take"}
                                => pc'[p] \in {"clear", "force", "take"}
    PROVE  TakerComes'
BY DEF TakerComes, StillToTake

Goals == {"idle", "signal", "arm", "clear", "clearOnly", "force", "take", "hand", "run"}

\* A step of one thread that leaves every place and every vector alone.
LEMMA MoveKeeps ==
    ASSUME IInv, NEW t \in Threads, NEW place \in Goals, Goto(t, place),
           pc[t] \in {"clear", "force", "take"} => place \in {"clear", "force", "take"}
                                                   \/ elements = <<>>,
           flag' \in BOOLEAN, pool' \in 0 .. PoolLimit, timers' \in Nat,
           batches' \in Seq(Seq(Elements \cup {Blank})),
           batch' \in [Threads -> Seq(Elements \cup {Blank})],
           ran' \in Seq(Elements \cup {Blank}),
           UNCHANGED <<elements, adds, handed>>
    PROVE  IInv'
<1>1. pc' \in [Threads -> Goals]
  BY DEF Goto, TypeOK, IInv, Goals
<1>2. TypeOK'
  BY <1>1 DEF TypeOK, IInv, Goals
<1>3. Ordered' /\ Complete'
  BY SamePlaces DEF IInv
<1>4. TakerComes'
  <2>1. CASE elements = <<>>
    BY <2>1 DEF TakerComes
  <2>2. CASE elements # <<>>
    BY <2>2, SameTaker DEF IInv, TypeOK, Goto
  <2>3. QED
    BY <2>1, <2>2
<1>5. QED
  BY <1>2, <1>3, <1>4 DEF IInv

\* add's flag and its timer.
LEMMA AddSignalsKeep ==
    ASSUME IInv, NEW p \in Producers, AddSignal(p) \/ AddArm(p)
    PROVE  IInv'
<1> USE DEF IInv, TypeOK, Goals
<1>1. p \in Threads
  BY DEF Threads
<1>2. CASE AddSignal(p)
  <2>1. flag' \in BOOLEAN
    BY <1>2, Zenon DEF AddSignal
  <2>2. CASE flag
    BY <1>1, <1>2, <2>1, <2>2, MoveKeeps DEF AddSignal
  <2>3. CASE ~flag
    BY <1>1, <1>2, <2>1, <2>3, MoveKeeps DEF AddSignal
  <2>4. QED
    BY <2>2, <2>3
<1>3. CASE AddArm(p)
  <2>1. flag' \in BOOLEAN
    BY <1>3, Zenon DEF AddArm
  <2>2. timers' \in Nat /\ Goto(p, "idle") /\ pc[p] = "arm"
    BY <1>3 DEF AddArm
  <2>3. UNCHANGED <<elements, pool, batches, batch, adds, ran, handed>>
    BY <1>3 DEF AddArm
  <2>4. QED
    BY <1>1, <2>1, <2>2, <2>3, MoveKeeps
<1>4. QED
  BY <1>2, <1>3

\* A timer's flush starts; a timer is no producer.
LEMMA TimerFlushKeeps ==
    ASSUME IInv, NEW x \in Executors, TimerFlush(x)
    PROVE  IInv'
<1> USE DEF IInv, TypeOK, Goals
<1>1. x \in Threads
  BY DEF Threads
<1>2. PICK place \in {"clear", "clearOnly"} : Goto(x, place)
  BY DEF TimerFlush, FlushCheck
<1>3. flag' \in BOOLEAN
  BY Zenon DEF TimerFlush
<1>4. timers' \in Nat /\ pc[x] = "idle"
  BY DEF TimerFlush
<1>5. UNCHANGED <<elements, pool, batches, batch, adds, ran, handed>>
  BY DEF TimerFlush
<1>6. QED
  BY <1>1, <1>2, <1>3, <1>4, <1>5, MoveKeeps

\* A producer flushes after its last element: it takes what is in the vector.
LEMMA FinalFlushKeeps ==
    ASSUME IInv, NEW p \in Producers, FinalFlush(p)
    PROVE  IInv'
<1> USE BatchAssumption DEF IInv
<1>1. p \in Threads /\ adds[p] = MaxAdds
  BY DEF Threads, FinalFlush
<1>2. TypeOK'
  <2>1. adds' \in [Producers -> 0 .. MaxAdds + 1]
    BY DEF FinalFlush, TypeOK
  <2>2. pc' \in [Threads -> Goals]
    BY <1>1 DEF FinalFlush, FlushCheck, Goto, TypeOK, Goals
  <2>3. QED
    BY <2>1, <2>2 DEF FinalFlush, TypeOK, Goals
<1>3. Ordered'
  BY DEF FinalFlush, Ordered
<1>4. Complete'
  <2>1. \A q \in Producers, n \in 1 .. MaxAdds : n <= adds'[q] <=> n <= adds[q]
    BY <1>1 DEF FinalFlush, TypeOK
  <2>2. QED
    BY <2>1 DEF FinalFlush, Complete
<1>5. TakerComes'
  BY <1>1 DEF FinalFlush, FlushCheck, Goto, TypeOK, TakerComes, StillToTake
<1>6. QED
  BY <1>2, <1>3, <1>4, <1>5

\* flush and flushForce up to the test of the vector.
LEMMA FlushKeeps ==
    ASSUME IInv, NEW t \in Threads, FlushClear(t) \/ ForceClear(t) \/ ForceTakeNothing(t)
    PROVE  IInv'
<1> USE DEF IInv, TypeOK, Goals
<1>1. CASE FlushClear(t)
  <2>1. flag' \in BOOLEAN
    BY <1>1 DEF FlushClear
  <2>2. CASE pc[t] = "clear"
    <3>1. AfterFlush[pc[t]] = "force"
      BY <2>2 DEF AfterFlush
    <3>2. Goto(t, "force")
      BY <1>1, <3>1 DEF FlushClear
    <3>3. QED
      BY <1>1, <2>1, <2>2, <3>2, MoveKeeps DEF FlushClear
  <2>3. CASE pc[t] = "clearOnly"
    <3>1. AfterFlush[pc[t]] = "idle"
      BY <2>3 DEF AfterFlush
    <3>2. Goto(t, "idle")
      BY <1>1, <3>1 DEF FlushClear
    <3>3. QED
      BY <1>1, <2>1, <2>3, <3>2, MoveKeeps DEF FlushClear
  <2>4. QED
    BY <1>1, <2>2, <2>3 DEF FlushClear
<1>2. CASE ForceClear(t)
  BY <1>2, MoveKeeps DEF ForceClear
<1>3. CASE ForceTakeNothing(t)
  BY <1>3, MoveKeeps DEF ForceTakeNothing
<1>4. QED
  BY <1>1, <1>2, <1>3

\* The vector is taken as the last batch, and an empty one is filled next.
LEMMA ForceTakeKeeps ==
    ASSUME IInv, NEW t \in Threads, ForceTake(t)
    PROVE  IInv'
<1> USE BatchAssumption DEF IInv
<1> DEFINE S == Elements \cup {Blank}
<1>1. handed \in Seq(Seq(S)) /\ elements \in Seq(S)
  BY DEF TypeOK
<1>2. handed' = Append(handed, elements) /\ elements' = <<>> /\ adds' = adds
  BY DEF ForceTake, Replacement
<1>3. TypeOK'
  <2>1. handed' \in Seq(Seq(S)) /\ elements' \in Seq(S)
    BY <1>1, <1>2, AppendProperties
  <2>2. pool' \in 0 .. PoolLimit
    BY DEF ForceTake, TypeOK
  <2>3. pc' \in [Threads -> Goals] /\ batch' \in [Threads -> Seq(S)]
    BY <1>1 DEF ForceTake, Goto, TypeOK, Goals
  <2>4. QED
    BY <2>1, <2>2, <2>3 DEF ForceTake, TypeOK, Goals
<1>4. \A b, i \in Nat : \A e :
        Placed(handed', elements', b, i, e) <=> Placed(handed, elements, b, i, e)
  <2> HIDE DEF S
  <2>1. QED
    BY <1>1, <1>2, PlacesAfterTake
<1>5. Ordered' /\ Complete'
  BY <1>2, <1>4 DEF Ordered, Complete
<1>6. TakerComes'
  BY <1>2 DEF TakerComes
<1>7. QED
  BY <1>3, <1>5, <1>6

\* A taken batch goes to the executor.
LEMMA ForceHandKeeps ==
    ASSUME IInv, NEW t \in Threads, ForceHand(t)
    PROVE  IInv'
<1> USE DEF IInv, TypeOK, Goals
<1>1. batches' \in Seq(Seq(Elements \cup {Blank}))
  BY AppendProperties DEF ForceHand
<1>2. batch' \in [Threads -> Seq(Elements \cup {Blank})]
  BY DEF ForceHand
<1>3. QED
  BY <1>1, <1>2, MoveKeeps DEF ForceHand

\* The executor runs what it was handed.
LEMMA BatchKeeps ==
    ASSUME IInv, NEW x \in Executors, BatchBegin(x) \/ BatchRunOne(x) \/ Recycle(x)
    PROVE  IInv'
<1> USE DEF IInv, TypeOK, Goals
<1> DEFINE S == Elements \cup {Blank}
<1>1. x \in Threads
  BY DEF Threads
<1>2. CASE BatchBegin(x)
  <2>1. Head(batches) \in Seq(S) /\ batches' \in Seq(Seq(S))
    BY <1>2, HeadTailProperties DEF BatchBegin
  <2>2. batch' \in [Threads -> Seq(S)]
    BY <1>2, <2>1 DEF BatchBegin
  <2>3. QED
    BY <1>1, <1>2, <2>1, <2>2, MoveKeeps DEF BatchBegin
<1>3. CASE BatchRunOne(x)
  <2>1. Head(batch[x]) \in S /\ Tail(batch[x]) \in Seq(S)
    BY <1>1, <1>3, HeadTailProperties DEF BatchRunOne
  <2>2. ran' \in Seq(S) /\ batch' \in [Threads -> Seq(S)]
    BY <1>3, <2>1, AppendProperties DEF BatchRunOne
  <2>3. TypeOK'
    BY <1>3, <2>2 DEF BatchRunOne
  <2>4. Ordered' /\ Complete'
    BY <1>3, SamePlaces DEF BatchRunOne
  <2>5. TakerComes'
    BY <1>3, SameTaker DEF BatchRunOne
  <2>6. QED
    BY <2>3, <2>4, <2>5
<1>4. CASE Recycle(x)
  <2>1. pool' \in 0 .. PoolLimit
    BY <1>4, BatchAssumption DEF Recycle, Recycled
  <2>2. QED
    BY <1>1, <1>4, <2>1, MoveKeeps DEF Recycle
<1>5. QED
  BY <1>2, <1>3, <1>4

\* A step that changes nothing.
LEMMA StutterKeeps == IInv /\ UNCHANGED vars => IInv'
<1>1. SUFFICES ASSUME IInv, UNCHANGED vars
               PROVE  IInv'
  OBVIOUS
<1>2. TypeOK'
  BY <1>1, Zenon DEF vars, IInv, TypeOK
<1>3. Ordered' /\ Complete'
  BY <1>1, SamePlaces DEF vars, IInv
<1>4. TakerComes'
  BY <1>1, SameTaker DEF vars, IInv
<1>5. QED
  BY <1>2, <1>3, <1>4 DEF IInv

\* Every step keeps the invariant.
LEMMA NextKeeps == IInv /\ [Next]_vars => IInv'
<1>1. SUFFICES ASSUME IInv, [Next]_vars
               PROVE  IInv'
  OBVIOUS
<1>2. Producers \subseteq Threads /\ Executors \subseteq Threads
  BY DEF Threads
<1>3. ASSUME NEW t \in Threads, FlushForce(t)
      PROVE  IInv'
  BY <1>1, <1>3, FlushKeeps, ForceTakeKeeps, ForceHandKeeps DEF FlushForce
<1>4. ASSUME NEW p \in Producers, Produce(p)
      PROVE  IInv'
  BY <1>1, <1>2, <1>3, <1>4, AddAppendKeeps, AddSignalsKeep, FinalFlushKeeps DEF Produce
<1>5. ASSUME NEW x \in Executors, Execute(x)
      PROVE  IInv'
  BY <1>1, <1>2, <1>3, <1>5, TimerFlushKeeps, BatchKeeps DEF Execute
<1>6. CASE Quiet \/ UNCHANGED vars
  BY <1>1, <1>6, StutterKeeps DEF Quiet
<1>7. QED
  BY <1>1, <1>4, <1>5, <1>6 DEF Next

-----------------------------------------------------------------------------
(* The theorems *)

\* The inductive invariant holds in every reachable state.
THEOREM Invariance == Spec => []IInv
BY InitKeeps, NextKeeps, PTL DEF Spec

\* Every variable keeps its type, and the pool stays within its limit (TypeOK).
THEOREM TypeCorrect == Spec => []TypeOK
<1>1. IInv => TypeOK
  BY DEF IInv
<1>2. QED
  BY <1>1, Invariance, PTL

\* The batches handed over hold each producer's elements once, in order and without a
\* gap, however add, timers and final flushes race for the vector (ProducerOrderKept).
THEOREM OnceInOrder == Spec => []ProducerOrderKept
<1>1. IInv => ProducerOrderKept
  <2>1. SUFFICES ASSUME IInv,
                        NEW p \in Producers, NEW m \in 1 .. MaxAdds, NEW n \in 1 .. MaxAdds
                 PROVE  /\ HandedBefore(<<p, m>>, <<p, n>>) => m < n
                        /\ Handed(<<p, n>>) /\ m < n => Handed(<<p, m>>)
    BY DEF ProducerOrderKept
  <2>2. handed \in Seq(Seq(Elements \cup {Blank}))
    BY <2>1 DEF IInv, TypeOK
  <2>3. \A b \in DOMAIN handed : \A i \in DOMAIN handed[b] :
          /\ b \in Nat /\ b <= Len(handed) /\ i \in Nat
          /\ \A e : Placed(handed, elements, b, i, e) <=> handed[b][i] = e
    BY <2>2 DEF Placed, Lot
  <2>4. HandedBefore(<<p, m>>, <<p, n>>) => m < n
    BY <2>1, <2>3 DEF HandedBefore, IInv, Ordered, Before
  <2>5. ASSUME Handed(<<p, n>>), m < n
        PROVE  Handed(<<p, m>>)
    <3>1. PICK b \in DOMAIN handed : \E i \in DOMAIN handed[b] : handed[b][i] = <<p, n>>
      BY <2>5 DEF Handed
    <3>2. PICK i \in DOMAIN handed[b] : handed[b][i] = <<p, n>>
      BY <3>1
    <3>3. Placed(handed, elements, b, i, <<p, n>>) /\ b \in Nat /\ i \in Nat
      BY <2>3, <3>2
    <3>4. n <= adds[p]
      BY <2>1, <3>3 DEF IInv, Complete
    <3>5. m <= adds[p]
      BY <2>1, <2>5, <3>4 DEF IInv, TypeOK
    <3>6. PICK c \in Nat, j \in Nat : Placed(handed, elements, c, j, <<p, m>>)
      BY <2>1, <3>5 DEF IInv, Complete
    <3>7. c <= Len(handed)
      <4>1. SUFFICES ASSUME c > Len(handed)
                     PROVE  FALSE
        BY <2>2
      <4>2. Before(b, i, c, j)
        BY <2>2, <2>3, <3>2, <4>1 DEF Before
      <4>3. n < m
        BY <2>1, <3>3, <3>6, <4>2 DEF IInv, Ordered
      <4>4. QED
        BY <2>5, <4>3
    <3>8. c \in DOMAIN handed /\ j \in DOMAIN handed[c] /\ handed[c][j] = <<p, m>>
      BY <2>2, <3>6, <3>7 DEF Placed, Lot
    <3>9. QED
      BY <3>8 DEF Handed
  <2>6. QED
    BY <2>4, <2>5
<1>2. QED
  BY <1>1, Invariance, PTL

\* Whoever takes the vector last, once every producer has flushed nothing is left in it
\* to wait for a timer (NothingLeftAfterFlush).
THEOREM FlushLeavesNothing == Spec => []NothingLeftAfterFlush
<1>1. IInv => NothingLeftAfterFlush
  BY BatchAssumption
     DEF IInv, TypeOK, TakerComes, StillToTake, NothingLeftAfterFlush, Flushed
<1>2. QED
  BY <1>1, Invariance, PTL
=============================================================================
