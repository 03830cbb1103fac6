-------------------------- MODULE UVTaskPoolProofs --------------------------
(***************************************************************************)
(* Safety of UVTaskPool and UVTaskConcurrentPool for any number of         *)
(* producers, posts and threads that stop the pool.                        *)
(***************************************************************************)
EXTENDS UVTaskPool, SequenceTheorems, TLAPS

-----------------------------------------------------------------------------
(* The inductive invariant *)

NoRepeat(s) == \A i, j \in 1 .. Len(s) : s[i] = s[j] => i = j
Has(s, t) == \E i \in 1 .. Len(s) : s[i] = t

\* What the flags and the handles are at each place of runLoop; the loop has a buffer
\* of its own while it executes tasks.
Phases ==
    /\ stopFlag <=> loopPc \in {"stopping", "finalDrain", "clean", "leave", "ended", "failed"}
    /\ initFlag <=> loopPc \in {"poll", "drain"}
    /\ asyncOpen <=> loopPc \in {"inited", "poll", "drain", "stopping", "finalDrain", "clean"}
    /\ Draining <=> running # NoBuffer
    /\ running # NoBuffer => running = IF concurrent THEN index ELSE 1 - index
    /\ loopPc \in {"leave", "ended"} => timers = {}
    /\ ~closedSend

\* Two buffers: what was queued has run, is left in the one being executed, or waits in
\* the other.
Left == IF running = NoBuffer THEN <<>>
        ELSE SubSeq(buffer[running], next, Len(buffer[running]))
Lined ==
    ~concurrent =>
        /\ enqueued = (executed \o Left) \o buffer[index]
        /\ running = NoBuffer => buffer[1 - index] = <<>>
        /\ running # NoBuffer => next <= Len(buffer[running]) + 1

\* A concurrent queue: what was queued has run, or is in it.
Bagged ==
    concurrent =>
        /\ index = 0 /\ next = 1 /\ buffer[1] = <<>>
        /\ \A n \in 1 .. Len(enqueued) : Has(executed, enqueued[n]) \/ Has(buffer[0], enqueued[n])
        /\ \A k \in 1 .. Len(executed) : Has(enqueued, executed[k]) /\ ~Has(buffer[0], executed[k])
        /\ \A i \in 1 .. Len(buffer[0]) : Has(enqueued, buffer[0][i])
        /\ NoRepeat(executed) /\ NoRepeat(buffer[0])

\* A call is named by its producer and number.  Its task is queued once, before the call
\* returns: a call with a later one is settled, it queues nothing more.
SettledIn(id, made, at) == id[2] <= made[id[1]] /\ (id[2] = made[id[1]] => at[id[1]] # "enqueue")
Settled(id) == SettledIn(id, posts, ppc)
Named ==
    /\ \A p \in Producers : ppc[p] = "enqueue" => task[p].id = <<p, posts[p]>>
    /\ \A n \in 1 .. Len(enqueued) : Settled(enqueued[n].id)
    /\ \A n, m \in 1 .. Len(enqueued) : enqueued[n].id = enqueued[m].id => n = m

\* A cancel names a call that was settled before it was made, so the timer's create
\* task, if it was queued, was queued before the cancel.  Concurrent pools have no timers.
Cancels ==
    /\ \A p \in Producers : task[p].kind = "cancel" => Settled(task[p].timer)
    /\ \A n \in 1 .. Len(enqueued) : enqueued[n].kind = "cancel" =>
           /\ Settled(enqueued[n].timer)
           /\ \A m \in 1 .. Len(enqueued) : enqueued[m].id = enqueued[n].timer => m < n
    /\ concurrent => /\ \A p \in Producers : task[p].kind = "plain"
                     /\ \A n \in 1 .. Len(enqueued) : enqueued[n].kind = "plain"

\* The final drain takes what was queued before loopStopFlag was set.
StopCovers ==
    /\ beforeStop <= Len(enqueued)
    /\ loopPc = "finalDrain" /\ ~concurrent => beforeStop <= Len(executed) + Len(Left)
    /\ loopPc \in {"clean", "leave", "ended"} => \A n \in 1 .. beforeStop : Ran(n)

\* NoLostWakeup, and what it needs while the loop executes a buffer: a task in the other
\* one has a wakeup on its way.
Waking == taskPending \/ \E p \in Producers : ppc[p] = "wake"
Awake ==
    /\ loopPc = "poll" =>
           \A n \in 1 .. Len(enqueued) : Ran(n) \/ n <= beforeInit \/ Waking
    /\ loopPc = "drain" /\ ~concurrent =>
           \A n \in 1 .. Len(enqueued) :
               n <= Len(executed) + Len(Left) \/ n <= beforeInit \/ Waking

\* The order of each producer also of the tasks that have not run: they are queued in the
\* order of their numbers, and what has run is before what is queued.
Earlier(t, u) == t.id[1] = u.id[1] => t.id[2] < u.id[2]
Ascending(s) == \A i, j \in 1 .. Len(s) : i < j => Earlier(s[i], s[j])
Orders ==
    /\ ~concurrent => Ascending(enqueued)
    /\ concurrent =>
           /\ Ascending(executed) /\ Ascending(buffer[0])
           /\ \A k \in 1 .. Len(executed), i \in 1 .. Len(buffer[0]) :
                  Earlier(executed[k], buffer[0][i])

IInv == TypeOK /\ Phases /\ Lined /\ Bagged /\ Named /\ Cancels /\ CancelledStaysCancelled
            /\ StopCovers /\ Awake

-----------------------------------------------------------------------------
(* Sequences of tasks *)

\* An element is in the set of a sequence's elements if the sequence has it.
LEMMA ElementsOf ==
    ASSUME NEW s \in Seq(Tasks)
    PROVE  \A t : t \in ToSet(s) <=> Has(s, t)
BY LenProperties DEF ToSet, Has

LEMMA MoreElements ==
    ASSUME NEW s \in Seq(Tasks), NEW u \in Seq(Tasks), \A t : Has(s, t) => Has(u, t)
    PROVE  ToSet(s) \subseteq ToSet(u)
<1>1. (\A t : t \in ToSet(s) <=> Has(s, t)) /\ \A t : t \in ToSet(u) <=> Has(u, t)
  BY ElementsOf
<1>2. QED
  BY <1>1

\* A suffix is a sequence of tasks, and its length is what is left.
LEMMA Suffix ==
    ASSUME NEW s \in Seq(Tasks), NEW n \in Nat \ {0}, n <= Len(s) + 1
    PROVE  /\ SubSeq(s, n, Len(s)) \in Seq(Tasks)
           /\ Len(SubSeq(s, n, Len(s))) = Len(s) + 1 - n
           /\ n > Len(s) => SubSeq(s, n, Len(s)) = <<>>
<1>1. Len(s) \in Nat /\ Len(s) \in Int /\ n \in Int
  BY LenProperties
<1>2. \A i \in n .. Len(s) : s[i] \in Tasks
  <2>1. \A i \in n .. Len(s) : i \in 1 .. Len(s)
    BY <1>1
  <2>2. QED
    BY <2>1, ElementOfSeq
<1>3. /\ SubSeq(s, n, Len(s)) \in Seq(Tasks)
      /\ Len(SubSeq(s, n, Len(s))) = IF n <= Len(s) THEN Len(s) - n + 1 ELSE 0
  BY <1>1, <1>2, SubSeqProperties
<1>4. n > Len(s) => SubSeq(s, n, Len(s)) = <<>>
  BY <1>1, SubSeqEmpty
<1>5. QED
  BY <1>1, <1>3, <1>4

\* Appending to the second of two sequences appends to the whole.
LEMMA AppendToBoth ==
    ASSUME NEW r \in Seq(Tasks), NEW s \in Seq(Tasks), NEW t \in Tasks
    PROVE  r \o Append(s, t) = Append(r \o s, t)
<1>1. <<t>> \in Seq(Tasks) /\ r \o s \in Seq(Tasks)
  BY ConcatProperties
<1>2. (r \o s) \o <<t>> = r \o (s \o <<t>>)
  BY <1>1, ConcatAssociative
<1>3. Append(s, t) = s \o <<t>> /\ Append(r \o s, t) = (r \o s) \o <<t>>
  BY <1>1, AppendIsConcat
<1>4. QED
  BY <1>2, <1>3

\* The first task of a suffix moves to the end of what comes before it.
LEMMA MoveFirst ==
    ASSUME NEW e \in Seq(Tasks), NEW s \in Seq(Tasks), NEW n \in 1 .. Len(s)
    PROVE  Append(e, s[n]) \o SubSeq(s, n + 1, Len(s)) = e \o SubSeq(s, n, Len(s))
<1> DEFINE rest == SubSeq(s, n + 1, Len(s))
<1>1. s[n] \in Tasks
  BY ElementOfSeq
<1>2. Len(s) \in Nat /\ n \in Nat /\ n >= 1 /\ n + 1 \in Nat \ {0} /\ n + 1 <= Len(s) + 1
  BY LenProperties
<1>3. rest \in Seq(Tasks)
  BY <1>2, Suffix
<1>4. SubSeq(s, n, Len(s)) = <<s[n]>> \o rest
  <2>1. Len(s) \in n .. Len(s)
    BY <1>2
  <2>2. QED
    BY <2>1, SubSeqRecursiveFirst
<1> HIDE DEF rest
<1>5. Append(e, s[n]) = e \o <<s[n]>> /\ <<s[n]>> \in Seq(Tasks)
  BY <1>1, AppendIsConcat
<1>6. (e \o <<s[n]>>) \o rest = e \o (<<s[n]>> \o rest)
  BY <1>3, <1>5, ConcatAssociative
<1>7. QED
  BY <1>4, <1>5, <1>6 DEF rest

\* Three sequences one after the other begin with the first.
LEMMA FirstOfThree ==
    ASSUME NEW e \in Seq(Tasks), NEW l \in Seq(Tasks), NEW c \in Seq(Tasks),
           NEW q \in Seq(Tasks), q = (e \o l) \o c
    PROVE  /\ Len(q) = Len(e) + Len(l) + Len(c)
           /\ \A k \in 1 .. Len(e) : k \in 1 .. Len(q) /\ e[k] = q[k]
<1> DEFINE b == e \o l
<1>1. Len(e) \in Nat /\ Len(l) \in Nat /\ Len(c) \in Nat
  BY LenProperties
<1>2. /\ b \in Seq(Tasks) /\ Len(b) = Len(e) + Len(l)
      /\ \A k \in 1 .. Len(e) + Len(l) : b[k] = IF k <= Len(e) THEN e[k] ELSE l[k - Len(e)]
  BY ConcatProperties
<1>3. q = b \o c
  OBVIOUS
<1> HIDE DEF b
<1> DEFINE w == b \o c
<1>4. /\ Len(w) = Len(b) + Len(c)
      /\ \A k \in 1 .. Len(b) + Len(c) : w[k] = IF k <= Len(b) THEN b[k] ELSE c[k - Len(b)]
  BY <1>2, ConcatProperties
<1> HIDE DEF w
<1>5. /\ Len(q) = Len(b) + Len(c)
      /\ \A k \in 1 .. Len(b) + Len(c) : q[k] = IF k <= Len(b) THEN b[k] ELSE c[k - Len(b)]
  BY <1>3, <1>4 DEF w
<1>6. \A k \in 1 .. Len(e) : b[k] = e[k]
  BY <1>1, <1>2
<1>7. QED
  BY <1>1, <1>2, <1>5, <1>6

\* A sequence without its i-th task has every other task, and no new one.
LEMMA Without ==
    ASSUME NEW s \in Seq(Tasks), NEW i \in 1 .. Len(s)
    PROVE  /\ RemoveAt(s, i) \in Seq(Tasks)
           /\ \A t : Has(RemoveAt(s, i), t) => Has(s, t)
           /\ \A t : Has(s, t) => Has(RemoveAt(s, i), t) \/ t = s[i]
           /\ NoRepeat(s) => NoRepeat(RemoveAt(s, i)) /\ ~Has(RemoveAt(s, i), s[i])
           /\ Ascending(s) => Ascending(RemoveAt(s, i))
<1> DEFINE n == Len(s)
           a == SubSeq(s, 1, i - 1)
           b == SubSeq(s, i + 1, n)
           r == RemoveAt(s, i)
<1>1. n \in Nat /\ i \in Nat /\ i >= 1 /\ i <= n /\ i - 1 \in Int /\ i + 1 \in Int
  BY LenProperties
<1>2. \A j \in 1 .. n : s[j] \in Tasks
  BY ElementOfSeq
<1>3. a \in Seq(Tasks) /\ Len(a) = i - 1 /\ \A j \in 1 .. i - 1 : a[j] = s[j]
  <2>1. \A j \in 1 .. i - 1 : s[j] \in Tasks
    BY <1>1, <1>2
  <2>2. /\ a \in Seq(Tasks)
        /\ Len(a) = IF 1 <= i - 1 THEN (i - 1) - 1 + 1 ELSE 0
        /\ \A j \in 1 .. (i - 1) - 1 + 1 : a[j] = s[1 + j - 1]
    BY <1>1, <2>1, SubSeqProperties
  <2>3. QED
    BY <1>1, <2>2
<1>4. b \in Seq(Tasks) /\ Len(b) = n - i /\ \A j \in 1 .. n - i : b[j] = s[i + j]
  <2>1. \A j \in i + 1 .. n : s[j] \in Tasks
    BY <1>1, <1>2
  <2>2. /\ b \in Seq(Tasks)
        /\ Len(b) = IF i + 1 <= n THEN n - (i + 1) + 1 ELSE 0
        /\ \A j \in 1 .. n - (i + 1) + 1 : b[j] = s[(i + 1) + j - 1]
    BY <1>1, <2>1, SubSeqProperties
  <2>3. QED
    BY <1>1, <2>2
<1>5. r = a \o b
  BY DEF RemoveAt
<1> HIDE DEF a, b, r
<1>6. /\ r \in Seq(Tasks) /\ Len(r) = Len(a) + Len(b)
      /\ \A j \in 1 .. Len(a) + Len(b) : r[j] = IF j <= Len(a) THEN a[j] ELSE b[j - Len(a)]
  BY <1>3, <1>4, <1>5, ConcatProperties
<1>7. Len(r) = n - 1 /\ \A j \in 1 .. n - 1 : r[j] = IF j < i THEN s[j] ELSE s[j + 1]
  <2>1. Len(r) = n - 1
    BY <1>1, <1>3, <1>4, <1>6
  <2>2. SUFFICES ASSUME NEW j \in 1 .. n - 1 PROVE r[j] = IF j < i THEN s[j] ELSE s[j + 1]
    BY <2>1
  <2>3. CASE j < i
    BY <1>1, <1>3, <1>4, <1>6, <2>3
  <2>4. CASE ~(j < i)
    <3>1. j - (i - 1) \in 1 .. n - i /\ ~(j <= i - 1) /\ j \in 1 .. Len(a) + Len(b)
      BY <1>1, <1>3, <1>4, <2>4
    <3>2. r[j] = b[j - (i - 1)]
      BY <1>3, <1>6, <3>1
    <3>3. b[j - (i - 1)] = s[i + (j - (i - 1))] /\ i + (j - (i - 1)) = j + 1
      BY <1>1, <1>4, <3>1
    <3>4. QED
      BY <2>4, <3>2, <3>3
  <2>5. QED
    BY <2>3, <2>4
<1> HIDE DEF n
<1>8. \A j \in 1 .. n - 1 : \E k \in 1 .. n : r[j] = s[k] /\ k # i /\ k = IF j < i THEN j ELSE j + 1
  BY <1>1, <1>7
<1>9. \A k \in 1 .. n : k # i => \E j \in 1 .. n - 1 : r[j] = s[k]
  <2>1. SUFFICES ASSUME NEW k \in 1 .. n, k # i PROVE \E j \in 1 .. n - 1 : r[j] = s[k]
    OBVIOUS
  <2>2. CASE k < i
    BY <1>1, <1>7, <2>2
  <2>3. CASE k > i
    <3>1. k - 1 \in 1 .. n - 1 /\ ~(k - 1 < i) /\ (k - 1) + 1 = k
      BY <1>1, <2>3
    <3>2. QED
      BY <1>7, <3>1
  <2>4. QED
    BY <1>1, <2>1, <2>2, <2>3
<1>10. (\A t : Has(r, t) => Has(s, t)) /\ \A t : Has(s, t) => Has(r, t) \/ t = s[i]
  <2>1. \A t : Has(r, t) => Has(s, t)
    BY <1>7, <1>8 DEF Has, n
  <2>2. \A t : Has(s, t) => Has(r, t) \/ t = s[i]
    BY <1>7, <1>9 DEF Has, n
  <2>3. QED
    BY <2>1, <2>2
<1>11. NoRepeat(s) => NoRepeat(r) /\ ~Has(r, s[i])
  <2>1. SUFFICES ASSUME NoRepeat(s) PROVE NoRepeat(r) /\ ~Has(r, s[i])
    OBVIOUS
  <2>2. ~Has(r, s[i])
    BY <1>7, <1>8, <2>1 DEF Has, NoRepeat, n
  <2>3. NoRepeat(r)
    <3>1. SUFFICES ASSUME NEW j \in 1 .. n - 1, NEW k \in 1 .. n - 1, r[j] = r[k] PROVE j = k
      BY <1>7 DEF NoRepeat
    <3>2. PICK x \in 1 .. n : r[j] = s[x] /\ x = IF j < i THEN j ELSE j + 1
      BY <1>8
    <3>3. PICK y \in 1 .. n : r[k] = s[y] /\ y = IF k < i THEN k ELSE k + 1
      BY <1>8
    <3>4. x = y
      BY <2>1, <3>1, <3>2, <3>3 DEF NoRepeat, n
    <3>5. QED
      BY <1>1, <3>2, <3>3, <3>4
  <2>4. QED
    BY <2>2, <2>3
<1>12. Ascending(s) => Ascending(r)
  <2>1. SUFFICES ASSUME Ascending(s), NEW j \in 1 .. n - 1, NEW k \in 1 .. n - 1, j < k
                 PROVE  Earlier(r[j], r[k])
    BY <1>7 DEF Ascending
  <2>2. PICK x \in 1 .. n : r[j] = s[x] /\ x = IF j < i THEN j ELSE j + 1
    BY <1>8
  <2>3. PICK y \in 1 .. n : r[k] = s[y] /\ y = IF k < i THEN k ELSE k + 1
    BY <1>8
  <2>4. x < y
    BY <1>1, <2>1, <2>2, <2>3
  <2>5. QED
    BY <2>1, <2>2, <2>3, <2>4 DEF Ascending, n
<1>13. QED
  BY <1>6, <1>10, <1>11, <1>12 DEF r

\* A task later than all before it keeps the order.
LEMMA AppendAscends ==
    ASSUME NEW s \in Seq(Tasks), NEW t \in Tasks, Ascending(s),
           \A i \in 1 .. Len(s) : Earlier(s[i], t)
    PROVE  Ascending(Append(s, t))
<1> DEFINE w == Append(s, t)
<1>1. /\ Len(s) \in Nat /\ Len(w) = Len(s) + 1 /\ w[Len(s) + 1] = t
      /\ \A i \in 1 .. Len(s) : w[i] = s[i]
  BY AppendProperties, LenProperties
<1> HIDE DEF w
<1>2. SUFFICES ASSUME NEW i \in 1 .. Len(w), NEW j \in 1 .. Len(w), i < j
               PROVE  Earlier(w[i], w[j])
  BY DEF Ascending, w
<1>3. i \in 1 .. Len(s) /\ w[i] = s[i]
  BY <1>1, <1>2
<1>4. CASE j \in 1 .. Len(s)
  BY <1>1, <1>2, <1>3, <1>4 DEF Ascending
<1>5. CASE j = Len(s) + 1
  BY <1>1, <1>3, <1>5
<1>6. QED
  BY <1>1, <1>4, <1>5

-----------------------------------------------------------------------------
(* Facts of a state *)

\* The index is that of a buffer, and the other index that of the other.
LEMMA Indexes ==
    ASSUME TypeOK
    PROVE  /\ index \in 0 .. 1 /\ 1 - index \in 0 .. 1 /\ index # 1 - index
           /\ buffer[index] \in Seq(Tasks) /\ buffer[1 - index] \in Seq(Tasks)
           /\ index # NoBuffer /\ 1 - index # NoBuffer
           /\ running # NoBuffer => running \in 0 .. 1 /\ buffer[running] \in Seq(Tasks)
<1>1. /\ index \in 0 .. 1 /\ running \in 0 .. 2 /\ NoBuffer = 2
      /\ buffer \in [0 .. 1 -> Seq(Tasks)]
  BY DEF TypeOK, NoBuffer
<1>2. QED
  BY <1>1

\* Of two buffers, what has run is the beginning of what was queued.
LEMMA RunIsFirst ==
    ASSUME TypeOK, Lined, ~concurrent
    PROVE  /\ Left \in Seq(Tasks) /\ Len(Left) \in Nat /\ Len(executed) \in Nat
           /\ Len(enqueued) = Len(executed) + Len(Left) + Len(buffer[index])
           /\ Len(buffer[index]) \in Nat /\ Len(enqueued) \in Nat
           /\ \A k \in 1 .. Len(executed) : k \in 1 .. Len(enqueued) /\ executed[k] = enqueued[k]
<1>1. /\ executed \in Seq(Tasks) /\ buffer[index] \in Seq(Tasks)
      /\ Len(executed) \in Nat /\ Len(buffer[index]) \in Nat
  BY Indexes, LenProperties DEF TypeOK
<1>2. Left \in Seq(Tasks)
  <2>1. CASE running = NoBuffer
    BY <2>1, EmptySeq DEF Left
  <2>2. CASE running # NoBuffer
    <3>1. buffer[running] \in Seq(Tasks) /\ next <= Len(buffer[running]) + 1 /\ next \in Nat \ {0}
      BY <2>2, Indexes DEF Lined, TypeOK
    <3>2. QED
      BY <2>2, <3>1, Suffix DEF Left
  <2>3. QED
    BY <2>1, <2>2
<1> DEFINE l == Left
           c == buffer[index]
<1>3. /\ enqueued = (executed \o l) \o c /\ enqueued \in Seq(Tasks)
      /\ executed \in Seq(Tasks) /\ l \in Seq(Tasks) /\ c \in Seq(Tasks)
  BY <1>1, <1>2 DEF Lined, TypeOK
<1>4. Len(Left) \in Nat
  BY <1>2, LenProperties
<1> HIDE DEF l, c
<1>5. /\ Len(enqueued) = Len(executed) + Len(l) + Len(c)
      /\ \A k \in 1 .. Len(executed) : k \in 1 .. Len(enqueued) /\ executed[k] = enqueued[k]
  BY <1>3, FirstOfThree
<1>6. /\ Len(enqueued) = Len(executed) + Len(Left) + Len(buffer[index])
      /\ \A k \in 1 .. Len(executed) : k \in 1 .. Len(enqueued) /\ executed[k] = enqueued[k]
  BY <1>5 DEF l, c
<1>7. Len(enqueued) \in Nat
  BY <1>3, LenProperties
<1>8. QED
  BY <1>1, <1>2, <1>4, <1>6, <1>7

\* A task has run if executed has it; of two buffers, if it is among the first.
LEMMA WhatRan ==
    ASSUME TypeOK
    PROVE  /\ \A n \in 1 .. Len(enqueued) : Ran(n) <=> Has(executed, enqueued[n])
           /\ Lined /\ ~concurrent => \A n \in 1 .. Len(executed) : Ran(n)
<1>1. executed \in Seq(Tasks) /\ Len(enqueued) \in Nat
  BY LenProperties DEF TypeOK
<1>2. \A n \in 1 .. Len(enqueued) : Ran(n) <=> Has(executed, enqueued[n])
  BY <1>1, ElementsOf DEF Ran
<1>3. ASSUME Lined, ~concurrent, NEW n \in 1 .. Len(executed) PROVE Ran(n)
  <2>1. n \in 1 .. Len(enqueued) /\ executed[n] = enqueued[n]
    BY <1>3, RunIsFirst
  <2>2. QED
    BY <1>2, <2>1 DEF Has
<1>4. QED
  BY <1>2, <1>3

\* A call is of a producer and has a number.
LEMMA IdsAre ==
    /\ \A t \in Tasks : t.id \in Ids /\ t.timer \in Ids
    /\ \A id \in Ids : id[1] \in Producers /\ id[2] \in Nat
BY DEF Tasks, Ids

\* The tasks of calls are tasks.
LEMMA TasksOf ==
    ASSUME TypeOK
    PROVE  /\ \A p \in Producers : task[p] \in Tasks
           /\ \A n \in 1 .. Len(enqueued) : enqueued[n] \in Tasks
BY ElementOfSeq DEF TypeOK

-----------------------------------------------------------------------------
(* What most steps leave alone *)

\* A step that moves no task keeps the tasks in their places.
LEMMA QueueStays ==
    ASSUME Lined, Bagged, concurrent' = concurrent, buffer' = buffer, index' = index,
           running' = running, next' = next, enqueued' = enqueued, executed' = executed
    PROVE  Lined' /\ Bagged' /\ Left' = Left /\ \A n : Ran(n)' <=> Ran(n)
<1>1. Left' = Left
  BY DEF Left
<1>2. Lined'
  BY <1>1 DEF Lined
<1>3. Bagged'
  BY DEF Bagged, Has, NoRepeat
<1>4. \A n : Ran(n)' <=> Ran(n)
  BY DEF Ran
<1>5. QED
  BY <1>1, <1>2, <1>3, <1>4

\* A step that is none of a producer keeps what calls are named.
LEMMA NamesStay ==
    ASSUME Named, Cancels, concurrent' = concurrent, enqueued' = enqueued,
           task' = task, ppc' = ppc, posts' = posts
    PROVE  Named' /\ Cancels'
<1>1. \A id : Settled(id)' <=> Settled(id)
  BY DEF Settled, SettledIn
<1>2. Named'
  BY <1>1 DEF Named
<1>3. Cancels'
  BY <1>1 DEF Cancels
<1>4. QED
  BY <1>2, <1>3

\* In the beginning nothing is queued and the loop has not begun.
LEMMA InitKeeps == Init => IInv
<1> SUFFICES ASSUME Init PROVE IInv
  OBVIOUS
<1>1. <<>> \in Seq(Tasks) /\ Len(<<>>) = 0
  BY EmptySeq
<1>2. /\ loopPc = "new" /\ stopFlag = FALSE /\ initFlag = FALSE /\ asyncOpen = FALSE
      /\ taskPending = FALSE /\ stopPending = FALSE /\ closedSend = FALSE
      /\ buffer = [b \in 0 .. 1 |-> <<>>] /\ index = 0 /\ running = NoBuffer /\ next = 1
      /\ timers = {} /\ enqueued = <<>> /\ executed = <<>> /\ beforeStop = 0 /\ beforeInit = 0
  BY DEF Init
<1>3. /\ \A p \in Producers : ppc[p] = "idle" /\ posts[p] = 0 /\ task[p] = NoTask(p)
      /\ buffer[0] = <<>> /\ buffer[1] = <<>>
  BY <1>2 DEF Init
<1>4. \A p \in Producers : NoTask(p) \in Tasks /\ NoTask(p).kind = "plain"
  <2>1. \A p \in Producers : <<p, 1>> \in Ids
    BY PoolAssumption DEF Ids
  <2>2. QED
    BY <2>1 DEF NoTask, Tasks, AllKinds
<1>5. TypeOK
  <2>1. concurrent \in BOOLEAN
    BY Zenon DEF Init
  <2>2. /\ ppc \in [Producers -> {"idle", "enqueue", "wake"}]
        /\ spc \in [Stoppers -> {"idle", "wait", "lock", "join", "done"}]
    BY DEF Init
  <2>3. posts \in [Producers -> 0 .. MaxPosts] /\ task \in [Producers -> Tasks]
    BY <1>4, PoolAssumption DEF Init
  <2>4. buffer \in [0 .. 1 -> Seq(Tasks)]
    BY <1>1, <1>2
  <2>5. index \in 0 .. 1 /\ running \in 0 .. NoBuffer /\ next \in Nat \ {0}
    BY <1>2 DEF NoBuffer
  <2>6. QED
    BY <1>1, <1>2, <2>1, <2>2, <2>3, <2>4, <2>5 DEF TypeOK
<1>6. Phases
  BY <1>2 DEF Phases, Draining
<1>7. Lined
  <2>1. (<<>> \o <<>>) \o <<>> = <<>>
    BY <1>1, ConcatEmptySeq
  <2>2. QED
    BY <1>2, <1>3, <2>1 DEF Lined, Left
<1>8. Bagged
  BY <1>1, <1>2, <1>3 DEF Bagged, NoRepeat
<1>9. Named /\ Cancels
  BY <1>1, <1>2, <1>3, <1>4 DEF Named, Cancels
<1>10. CancelledStaysCancelled /\ StopCovers /\ Awake
  BY <1>1, <1>2 DEF CancelledStaysCancelled, StopCovers, Awake
<1>11. QED
  BY <1>5, <1>6, <1>7, <1>8, <1>9, <1>10 DEF IInv

-----------------------------------------------------------------------------
(* post *)

\* A new call leaves the earlier ones settled; a cancel names one of them.
LEMMA PostCheckKeeps ==
    ASSUME IInv, NEW p \in Producers, PostCheck(p)
    PROVE  IInv'
<1>1. /\ TypeOK /\ Phases /\ Lined /\ Bagged /\ Named /\ Cancels /\ CancelledStaysCancelled
      /\ StopCovers /\ Awake
  BY DEF IInv
<1> DEFINE id == <<p, posts[p] + 1>>
<1>2. /\ ppc[p] = "idle" /\ posts[p] < Calls(p)
      /\ posts' = [posts EXCEPT ![p] = @ + 1]
      /\ ppc' = [ppc EXCEPT ![p] = IF stopFlag THEN "wake" ELSE "enqueue"]
      /\ concurrent' = concurrent /\ asyncOpen' = asyncOpen /\ loopPc' = loopPc
      /\ running' = running /\ next' = next /\ timers' = timers /\ executed' = executed
      /\ stopFlag' = stopFlag /\ initFlag' = initFlag /\ beforeStop' = beforeStop
      /\ beforeInit' = beforeInit /\ buffer' = buffer /\ index' = index /\ enqueued' = enqueued
      /\ taskPending' = taskPending /\ stopPending' = stopPending /\ closedSend' = closedSend
      /\ spc' = spc
  BY DEF PostCheck, loopVars, placeVars, drainVars, flagVars, queueVars, wakeVars
<1>3. PICK kind \in IF concurrent THEN {"plain"} ELSE Kinds :
      \E timer \in IF kind = "cancel" THEN KnownTimers ELSE {id} :
          task' = [task EXCEPT ![p] = [id |-> id, kind |-> kind, timer |-> timer]]
  BY DEF PostCheck
<1>4. PICK timer \in IF kind = "cancel" THEN KnownTimers ELSE {id} :
          task' = [task EXCEPT ![p] = [id |-> id, kind |-> kind, timer |-> timer]]
  BY <1>3
<1>5. /\ posts[p] \in 0 .. MaxPosts /\ MaxPosts \in Nat /\ posts[p] + 1 \in 1 .. MaxPosts
  BY <1>1, <1>2, PoolAssumption DEF TypeOK, Calls
<1>6. id \in Ids /\ id[1] = p /\ id[2] = posts[p] + 1
  BY <1>5 DEF Ids
<1> HIDE DEF id
<1>7. /\ kind \in AllKinds /\ timer \in Ids /\ (concurrent => kind = "plain")
      /\ kind = "cancel" => timer \in KnownTimers
  BY <1>3, <1>4, <1>6, PoolAssumption DEF AllKinds, KnownTimers
<1>8. /\ task'[p] = [id |-> id, kind |-> kind, timer |-> timer]
      /\ task' \in [Producers -> Tasks] /\ \A q \in Producers \ {p} : task'[q] = task[q]
  <2>1. [id |-> id, kind |-> kind, timer |-> timer] \in Tasks
    BY <1>6, <1>7 DEF Tasks
  <2>2. QED
    BY <1>1, <1>4, <2>1 DEF TypeOK
<1>9. /\ posts' \in [Producers -> 0 .. MaxPosts] /\ posts'[p] = posts[p] + 1
      /\ \A q \in Producers \ {p} : posts'[q] = posts[q] /\ ppc'[q] = ppc[q]
      /\ ppc' \in [Producers -> {"idle", "enqueue", "wake"}] /\ ppc'[p] \in {"enqueue", "wake"}
      /\ posts \in [Producers -> 0 .. MaxPosts]
  BY <1>1, <1>2, <1>5 DEF TypeOK
<1>10. TypeOK'
  BY <1>1, <1>2, <1>8, <1>9 DEF TypeOK
<1>11. Phases'
  BY <1>1, <1>2 DEF Phases, Draining
<1>12. Lined' /\ Bagged' /\ Left' = Left /\ \A n : Ran(n)' <=> Ran(n)
  BY <1>1, <1>2, QueueStays
<1>13. \A i \in Ids : Settled(i) => SettledIn(i, posts', ppc')
  <2>1. SUFFICES ASSUME NEW i \in Ids, Settled(i) PROVE SettledIn(i, posts', ppc')
    OBVIOUS
  <2>2. i[1] \in Producers /\ i[2] \in Nat /\ posts[i[1]] \in Nat /\ i[2] <= posts[i[1]]
    BY <1>9, <2>1, IdsAre DEF Settled, SettledIn
  <2>3. CASE i[1] = p
    <3>1. i[2] < posts'[p] /\ i[2] # posts'[p] /\ i[2] <= posts'[p]
      BY <1>9, <2>2, <2>3
    <3>2. QED
      BY <2>3, <3>1 DEF SettledIn
  <2>4. CASE i[1] # p
    BY <1>9, <2>1, <2>2, <2>4 DEF Settled, SettledIn
  <2>5. QED
    BY <2>3, <2>4
<1>14. Named'
  <2>1. \A q \in Producers : ppc'[q] = "enqueue" => task'[q].id = <<q, posts'[q]>>
    <3>1. task'[p].id = id /\ id = <<p, posts'[p]>>
      BY <1>8, <1>9 DEF id
    <3>2. \A q \in Producers \ {p} :
              ppc'[q] = "enqueue" => task'[q].id = <<q, posts'[q]>>
      BY <1>1, <1>8, <1>9 DEF Named
    <3>3. QED
      BY <3>1, <3>2
  <2>2. \A n \in 1 .. Len(enqueued) : SettledIn(enqueued[n].id, posts', ppc')
    BY <1>1, <1>13, TasksOf, IdsAre DEF Named
  <2>3. QED
    BY <1>1, <1>2, <2>1, <2>2 DEF Named, Settled
<1>15. Cancels'
  <2>1. \A q \in Producers : task'[q].kind = "cancel" => SettledIn(task'[q].timer, posts', ppc')
    <3>1. SUFFICES ASSUME NEW q \in Producers, task'[q].kind = "cancel"
                   PROVE  SettledIn(task'[q].timer, posts', ppc')
      OBVIOUS
    <3>2. CASE q = p
      <4>1. timer \in KnownTimers /\ task'[q].timer = timer
        BY <1>7, <1>8, <3>1, <3>2
      <4>2. timer[2] <= posts[timer[1]] /\ (timer[2] = posts[timer[1]] => ppc[timer[1]] = "idle")
        BY <4>1 DEF KnownTimers
      <4>3. Settled(timer)
        BY <4>2 DEF Settled, SettledIn
      <4>4. SettledIn(timer, posts', ppc')
        BY <1>7, <1>13, <4>3
      <4>5. QED
        BY <4>1, <4>4
    <3>3. CASE q # p
      <4>1. task'[q] = task[q] /\ Settled(task[q].timer) /\ task[q].timer \in Ids
        BY <1>1, <1>8, <3>1, <3>3, TasksOf, IdsAre DEF Cancels
      <4>2. QED
        BY <1>13, <4>1
    <3>4. QED
      BY <3>2, <3>3
  <2>2. \A n \in 1 .. Len(enqueued) : enqueued[n].kind = "cancel" => SettledIn(enqueued[n].timer, posts', ppc')
    BY <1>1, <1>13, TasksOf, IdsAre DEF Cancels
  <2>3. concurrent => \A q \in Producers : task'[q].kind = "plain"
    BY <1>1, <1>7, <1>8 DEF Cancels
  <2>4. QED
    BY <1>1, <1>2, <2>1, <2>2, <2>3 DEF Cancels, Settled
<1>16. CancelledStaysCancelled' /\ StopCovers'
  BY <1>1, <1>2, <1>12 DEF CancelledStaysCancelled, StopCovers
<1>17. Awake'
  <2>1. \A q \in Producers : ppc[q] = "wake" => ppc'[q] = "wake"
    BY <1>2, <1>9
  <2>2. QED
    BY <1>1, <1>2, <1>12, <2>1 DEF Awake, Waking
<1>18. QED
  BY <1>10, <1>11, <1>12, <1>14, <1>15, <1>16, <1>17 DEF IInv

\* A task is appended to the buffer offered to producers, behind the calls it may cancel.
LEMMA PostEnqueueKeeps ==
    ASSUME IInv, NEW p \in Producers, PostEnqueue(p)
    PROVE  IInv'
<1> DEFINE t == task[p]
           c == buffer[index]
           last == Len(enqueued) + 1
<1>1. /\ TypeOK /\ Phases /\ Lined /\ Bagged /\ Named /\ Cancels /\ CancelledStaysCancelled
      /\ StopCovers /\ Awake
  BY DEF IInv
<1>2. /\ ppc[p] = "enqueue" /\ ppc' = [ppc EXCEPT ![p] = "wake"]
      /\ buffer' = [buffer EXCEPT ![index] = Append(@, t)] /\ enqueued' = Append(enqueued, t)
      /\ concurrent' = concurrent /\ asyncOpen' = asyncOpen /\ loopPc' = loopPc
      /\ running' = running /\ next' = next /\ timers' = timers /\ executed' = executed
      /\ stopFlag' = stopFlag /\ initFlag' = initFlag /\ beforeStop' = beforeStop
      /\ beforeInit' = beforeInit /\ index' = index
      /\ taskPending' = taskPending /\ stopPending' = stopPending /\ closedSend' = closedSend
      /\ spc' = spc /\ posts' = posts /\ task' = task
  BY DEF PostEnqueue, Queued, loopVars, placeVars, drainVars, flagVars, wakeVars
<1>3. /\ t \in Tasks /\ c \in Seq(Tasks) /\ index \in 0 .. 1 /\ enqueued \in Seq(Tasks)
      /\ t.id = <<p, posts[p]>> /\ t.id \in Ids
  BY <1>1, <1>2, TasksOf, Indexes, IdsAre DEF TypeOK, Named
<1> HIDE DEF t, c
<1>4. /\ buffer' \in [0 .. 1 -> Seq(Tasks)] /\ buffer'[index] = Append(c, t)
      /\ \A b \in 0 .. 1 : b # index => buffer'[b] = buffer[b]
  BY <1>1, <1>2, <1>3, AppendProperties DEF TypeOK, c
<1>5. /\ enqueued' \in Seq(Tasks) /\ Len(enqueued') = last /\ enqueued'[last] = t
      /\ Len(enqueued) \in Nat
      /\ \A n \in 1 .. Len(enqueued) : enqueued'[n] = enqueued[n]
  BY <1>2, <1>3, AppendProperties, LenProperties
<1>6. \A n \in 1 .. Len(enqueued') :
          \/ n \in 1 .. Len(enqueued) /\ enqueued'[n] = enqueued[n]
          \/ n = last /\ enqueued'[n] = t
  BY <1>5
<1>7. /\ Len(c) \in Nat /\ Len(buffer'[index]) = Len(c) + 1
      /\ buffer'[index][Len(c) + 1] = t
      /\ \A i \in 1 .. Len(c) : buffer'[index][i] = c[i]
  BY <1>3, <1>4, AppendProperties, LenProperties
<1>8. TypeOK'
  <2>1. ppc' \in [Producers -> {"idle", "enqueue", "wake"}]
    BY <1>1, <1>2 DEF TypeOK
  <2>2. QED
    BY <1>1, <1>2, <1>4, <1>5, <2>1 DEF TypeOK
<1>9. Phases'
  BY <1>1, <1>2 DEF Phases, Draining
<1>10. ~concurrent => Left' = Left /\ Left \in Seq(Tasks)
  <2>1. SUFFICES ASSUME ~concurrent PROVE Left' = Left
    BY <1>1, RunIsFirst
  <2>2. CASE running = NoBuffer
    BY <1>2, <2>2 DEF Left
  <2>3. CASE running # NoBuffer
    <3>1. running \in 0 .. 1 /\ running # index
      BY <1>1, <2>1, <2>3, Indexes DEF Phases
    <3>2. buffer'[running] = buffer[running]
      BY <1>4, <3>1
    <3>3. running' = running /\ next' = next
      BY <1>2
    <3>4. QED
      BY <2>3, <3>2, <3>3 DEF Left
  <2>4. QED
    BY <2>2, <2>3
<1>11. Lined'
  <2>1. SUFFICES ASSUME ~concurrent
                 PROVE  /\ enqueued' = (executed \o Left') \o buffer'[index]
                        /\ running = NoBuffer => buffer'[1 - index] = <<>>
                        /\ running # NoBuffer => next <= Len(buffer'[running]) + 1
    BY <1>2 DEF Lined
  <2> DEFINE l == Left
  <2>2. l \in Seq(Tasks) /\ Left' = l
    BY <1>10, <2>1
  <2>3. enqueued = (executed \o l) \o c
    BY <1>1, <2>1 DEF Lined, c
  <2> HIDE DEF l
  <2>4. executed \in Seq(Tasks) /\ executed \o l \in Seq(Tasks)
    BY <1>1, <2>2, ConcatProperties DEF TypeOK
  <2>5. (executed \o l) \o Append(c, t) = Append((executed \o l) \o c, t)
    BY <1>3, <2>4, AppendToBoth
  <2>6. enqueued' = (executed \o Left') \o buffer'[index]
    BY <1>2, <1>4, <2>2, <2>3, <2>5
  <2>7. running = NoBuffer => buffer'[1 - index] = <<>>
    BY <1>1, <1>4, <2>1, Indexes DEF Lined
  <2>8. running # NoBuffer => buffer'[running] = buffer[running]
    BY <1>1, <1>4, <2>1, Indexes DEF Phases
  <2>9. QED
    BY <1>1, <2>1, <2>6, <2>7, <2>8 DEF Lined
<1>12. /\ ~Settled(t.id)
       /\ \A n \in 1 .. Len(enqueued) : enqueued[n].id # t.id /\ enqueued[n] # t
  <2>1. ~Settled(t.id)
    BY <1>1, <1>2, <1>3 DEF Settled, SettledIn, TypeOK
  <2>2. QED
    BY <1>1, <2>1 DEF Named
<1>13. Bagged'
  <2>1. SUFFICES ASSUME concurrent
                 PROVE  /\ index = 0 /\ next = 1 /\ buffer'[1] = <<>>
                        /\ \A n \in 1 .. Len(enqueued') :
                               Has(executed, enqueued'[n]) \/ Has(buffer'[0], enqueued'[n])
                        /\ \A k \in 1 .. Len(executed) :
                               Has(enqueued', executed[k]) /\ ~Has(buffer'[0], executed[k])
                        /\ \A i \in 1 .. Len(buffer'[0]) : Has(enqueued', buffer'[0][i])
                        /\ NoRepeat(executed) /\ NoRepeat(buffer'[0])
    BY <1>2 DEF Bagged
  <2>2. /\ index = 0 /\ next = 1 /\ buffer[1] = <<>> /\ NoRepeat(executed) /\ NoRepeat(c)
        /\ \A n \in 1 .. Len(enqueued) : Has(executed, enqueued[n]) \/ Has(c, enqueued[n])
        /\ \A k \in 1 .. Len(executed) : Has(enqueued, executed[k]) /\ ~Has(c, executed[k])
        /\ \A i \in 1 .. Len(c) : Has(enqueued, c[i])
    BY <1>1, <2>1 DEF Bagged, c
  <2>3. \A u : Has(enqueued', u) <=> Has(enqueued, u) \/ u = t
    BY <1>5, <1>6 DEF Has
  <2>4. \A u : Has(buffer'[index], u) <=> Has(c, u) \/ u = t
    BY <1>7 DEF Has
  <2>5. ~Has(enqueued, t)
    BY <1>12 DEF Has
  <2>6. ~Has(c, t)
    BY <2>2, <2>5 DEF Has
  <2>7. NoRepeat(buffer'[index])
    <3>1. \A i \in 1 .. Len(buffer'[index]) :
              \/ i \in 1 .. Len(c) /\ buffer'[index][i] = c[i]
              \/ i = Len(c) + 1 /\ buffer'[index][i] = t
      BY <1>7
    <3>2. \A i \in 1 .. Len(c) : c[i] # t
      BY <2>6 DEF Has
    <3>3. \A i, j \in 1 .. Len(c) : c[i] = c[j] => i = j
      BY <2>2 DEF NoRepeat
    <3>4. SUFFICES ASSUME NEW i \in 1 .. Len(buffer'[index]), NEW j \in 1 .. Len(buffer'[index]),
                          buffer'[index][i] = buffer'[index][j]
                   PROVE  i = j
      BY DEF NoRepeat
    <3>5. /\ \/ i \in 1 .. Len(c) /\ buffer'[index][i] = c[i]
             \/ i = Len(c) + 1 /\ buffer'[index][i] = t
          /\ \/ j \in 1 .. Len(c) /\ buffer'[index][j] = c[j]
             \/ j = Len(c) + 1 /\ buffer'[index][j] = t
      BY <3>1
    <3>6. QED
      BY <3>2, <3>3, <3>4, <3>5
  <2>8. \A i \in 1 .. Len(buffer'[index]) : Has(enqueued', buffer'[index][i])
    <3>1. SUFFICES ASSUME NEW i \in 1 .. Len(buffer'[index])
                   PROVE  Has(enqueued', buffer'[index][i])
      OBVIOUS
    <3>2. Has(buffer'[index], buffer'[index][i])
      BY DEF Has
    <3>3. Has(c, buffer'[index][i]) => Has(enqueued, buffer'[index][i])
      BY <2>2 DEF Has
    <3>4. QED
      BY <2>3, <2>4, <3>2, <3>3
  <2>9. \A k \in 1 .. Len(executed) : Has(enqueued', executed[k]) /\ ~Has(buffer'[index], executed[k])
    BY <2>2, <2>3, <2>4, <2>5
  <2>10. \A n \in 1 .. Len(enqueued') : Has(executed, enqueued'[n]) \/ Has(buffer'[index], enqueued'[n])
    BY <1>6, <2>2, <2>4
  <2>11. buffer'[1] = <<>>
    BY <1>4, <2>2
  <2>12. QED
    BY <2>2, <2>7, <2>8, <2>9, <2>10, <2>11
<1>14. SettledIn(t.id, posts', ppc') /\ \A i \in Ids : Settled(i) => SettledIn(i, posts', ppc')
  <2>1. ppc'[p] = "wake" /\ \A q \in Producers \ {p} : ppc'[q] = ppc[q]
    BY <1>1, <1>2 DEF TypeOK
  <2>2. posts[p] \in Nat
    BY <1>1 DEF TypeOK
  <2>3. QED
    BY <1>2, <1>3, <2>1, <2>2, IdsAre DEF Settled, SettledIn
<1>15. Named'
  <2>1. \A q \in Producers : ppc'[q] = "enqueue" => task'[q].id = <<q, posts'[q]>>
    BY <1>1, <1>2 DEF Named, TypeOK
  <2>2. \A n \in 1 .. Len(enqueued') : SettledIn(enqueued'[n].id, posts', ppc')
    BY <1>1, <1>6, <1>14, TasksOf, IdsAre DEF Named
  <2>3. ASSUME NEW n \in 1 .. Len(enqueued'), NEW m \in 1 .. Len(enqueued'),
               enqueued'[n].id = enqueued'[m].id
        PROVE  n = m
    <3>1. /\ \/ n \in 1 .. Len(enqueued) /\ enqueued'[n] = enqueued[n]
             \/ n = last /\ enqueued'[n] = t
          /\ \/ m \in 1 .. Len(enqueued) /\ enqueued'[m] = enqueued[m]
             \/ m = last /\ enqueued'[m] = t
      BY <1>6
    <3>2. QED
      BY <1>1, <1>12, <2>3, <3>1 DEF Named
  <2>4. QED
    BY <2>1, <2>2, <2>3 DEF Named, Settled
<1>16. Cancels'
  <2>1. \A q \in Producers : task'[q].kind = "cancel" => SettledIn(task'[q].timer, posts', ppc')
    BY <1>1, <1>2, <1>14, TasksOf, IdsAre DEF Cancels
  <2>2. ASSUME NEW n \in 1 .. Len(enqueued'), enqueued'[n].kind = "cancel"
        PROVE  /\ SettledIn(enqueued'[n].timer, posts', ppc')
               /\ \A m \in 1 .. Len(enqueued') : enqueued'[m].id = enqueued'[n].timer => m < n
    <3>1. \/ n \in 1 .. Len(enqueued) /\ enqueued'[n] = enqueued[n]
          \/ n = last /\ enqueued'[n] = t
      BY <1>6
    <3>2. Settled(enqueued'[n].timer) /\ enqueued'[n].timer \in Ids
      BY <1>1, <1>3, <2>2, <3>1, TasksOf, IdsAre DEF Cancels, t
    <3>3. ASSUME NEW m \in 1 .. Len(enqueued'), enqueued'[m].id = enqueued'[n].timer
          PROVE  m < n
      <4>1. m \in 1 .. Len(enqueued) /\ enqueued'[m] = enqueued[m]
        BY <1>6, <1>12, <3>2, <3>3
      <4>2. CASE n = last
        BY <1>5, <4>1, <4>2
      <4>3. CASE n \in 1 .. Len(enqueued) /\ enqueued'[n] = enqueued[n]
        BY <1>1, <2>2, <3>3, <4>1, <4>3 DEF Cancels
      <4>4. QED
        BY <3>1, <4>2, <4>3
    <3>4. QED
      BY <1>14, <3>2, <3>3
  <2>3. concurrent => /\ \A q \in Producers : task'[q].kind = "plain"
                      /\ \A n \in 1 .. Len(enqueued') : enqueued'[n].kind = "plain"
    BY <1>1, <1>2, <1>6 DEF Cancels, t
  <2>4. QED
    BY <1>2, <2>1, <2>2, <2>3 DEF Cancels, Settled
<1>17. \A n \in 1 .. Len(enqueued) : Ran(n) => Ran(n)'
  <2>1. \A n \in 1 .. Len(enqueued) : n <= Len(enqueued') /\ enqueued'[n] = enqueued[n]
    BY <1>5
  <2>2. QED
    BY <1>2, <2>1 DEF Ran
<1>18. CancelledStaysCancelled'
  BY <1>1, <1>2 DEF CancelledStaysCancelled
<1>19. StopCovers'
  <2>1. beforeStop' <= Len(enqueued') /\ beforeStop <= Len(enqueued) /\ beforeStop \in Nat
    BY <1>1, <1>2, <1>5 DEF StopCovers, TypeOK
  <2>2. loopPc' = "finalDrain" /\ ~concurrent' => beforeStop' <= Len(executed') + Len(Left')
    BY <1>1, <1>2, <1>10 DEF StopCovers
  <2>3. loopPc' \in {"clean", "leave", "ended"} => \A n \in 1 .. beforeStop' : Ran(n)'
    <3>1. \A n \in 1 .. beforeStop : n \in 1 .. Len(enqueued)
      BY <1>5, <2>1
    <3>2. QED
      BY <1>1, <1>2, <1>17, <3>1 DEF StopCovers
  <2>4. QED
    BY <2>1, <2>2, <2>3 DEF StopCovers
<1>20. Awake'
  <2>1. Waking'
    BY <1>1, <1>2 DEF Waking, TypeOK
  <2>2. QED
    BY <2>1 DEF Awake
<1>21. QED
  BY <1>8, <1>9, <1>11, <1>13, <1>15, <1>16, <1>18, <1>19, <1>20 DEF IInv

\* A wakeup is sent to a handle that is open, and a call that returns on a running loop
\* leaves one pending.
LEMMA PostWakeKeeps ==
    ASSUME IInv, NEW p \in Producers, PostWake(p)
    PROVE  IInv'
<1>1. /\ TypeOK /\ Phases /\ Lined /\ Bagged /\ Named /\ Cancels /\ CancelledStaysCancelled
      /\ StopCovers /\ Awake
  BY DEF IInv
<1>2. /\ ppc[p] = "wake" /\ ppc' = [ppc EXCEPT ![p] = "idle"]
      /\ task' = [task EXCEPT ![p] = NoTask(p)]
      /\ taskPending' = (taskPending \/ MayWake)
      /\ closedSend' = (closedSend \/ (MayWake /\ ~asyncOpen))
      /\ concurrent' = concurrent /\ asyncOpen' = asyncOpen /\ loopPc' = loopPc
      /\ running' = running /\ next' = next /\ timers' = timers /\ executed' = executed
      /\ stopFlag' = stopFlag /\ initFlag' = initFlag /\ beforeStop' = beforeStop
      /\ beforeInit' = beforeInit /\ buffer' = buffer /\ index' = index /\ enqueued' = enqueued
      /\ stopPending' = stopPending /\ spc' = spc /\ posts' = posts
  BY DEF PostWake, loopVars, placeVars, drainVars, flagVars, queueVars
<1>3. NoTask(p) \in Tasks /\ NoTask(p).kind = "plain"
  <2>1. <<p, 1>> \in Ids
    BY PoolAssumption DEF Ids
  <2>2. QED
    BY <2>1 DEF NoTask, Tasks, AllKinds
<1>4. /\ ppc'[p] = "idle" /\ task'[p] = NoTask(p)
      /\ \A q \in Producers \ {p} : ppc'[q] = ppc[q] /\ task'[q] = task[q]
  BY <1>1, <1>2 DEF TypeOK
<1>5. MayWake => asyncOpen
  BY <1>1 DEF MayWake, LoopSet, Phases
<1>6. loopPc \in {"poll", "drain"} => MayWake
  BY <1>1 DEF MayWake, LoopSet, Phases
<1>7. TypeOK'
  <2>1. task' \in [Producers -> Tasks] /\ ppc' \in [Producers -> {"idle", "enqueue", "wake"}]
    BY <1>1, <1>2, <1>3 DEF TypeOK
  <2>2. taskPending' \in BOOLEAN /\ closedSend' \in BOOLEAN
    BY <1>2
  <2>3. QED
    BY <1>1, <1>2, <2>1, <2>2 DEF TypeOK
<1>8. Phases'
  BY <1>1, <1>2, <1>5 DEF Phases, Draining
<1>9. Lined' /\ Bagged' /\ Left' = Left /\ \A n : Ran(n)' <=> Ran(n)
  BY <1>1, <1>2, QueueStays
<1>10. \A i \in Ids : Settled(i) => SettledIn(i, posts', ppc')
  BY <1>2, <1>4, IdsAre DEF Settled, SettledIn
<1>11. Named'
  <2>1. \A q \in Producers : ppc'[q] = "enqueue" => task'[q].id = <<q, posts'[q]>>
    BY <1>1, <1>2, <1>4 DEF Named
  <2>2. \A n \in 1 .. Len(enqueued) : SettledIn(enqueued[n].id, posts', ppc')
    BY <1>1, <1>10, TasksOf, IdsAre DEF Named
  <2>3. QED
    BY <1>1, <1>2, <2>1, <2>2 DEF Named, Settled
<1>12. Cancels'
  <2>1. \A q \in Producers : task'[q].kind = "cancel" => SettledIn(task'[q].timer, posts', ppc')
    BY <1>1, <1>3, <1>4, <1>10, TasksOf, IdsAre DEF Cancels
  <2>2. \A n \in 1 .. Len(enqueued) :
            enqueued[n].kind = "cancel" => SettledIn(enqueued[n].timer, posts', ppc')
    BY <1>1, <1>10, TasksOf, IdsAre DEF Cancels
  <2>3. concurrent => \A q \in Producers : task'[q].kind = "plain"
    BY <1>1, <1>3, <1>4 DEF Cancels
  <2>4. QED
    BY <1>1, <1>2, <2>1, <2>2, <2>3 DEF Cancels, Settled
<1>13. CancelledStaysCancelled' /\ StopCovers'
  BY <1>1, <1>2, <1>9 DEF CancelledStaysCancelled, StopCovers
<1>14. Awake'
  <2>1. loopPc \in {"poll", "drain"} => Waking'
    BY <1>2, <1>6 DEF Waking
  <2>2. QED
    BY <1>2, <2>1 DEF Awake
<1>15. QED
  BY <1>7, <1>8, <1>9, <1>11, <1>12, <1>13, <1>14 DEF IInv

-----------------------------------------------------------------------------
(* stop *)

\* stop() moves no task, and sends to a handle that is open.
LEMMA StopKeeps ==
    ASSUME IInv, NEW s \in Stoppers, Stop(s)
    PROVE  IInv'
<1>1. /\ TypeOK /\ Phases /\ Lined /\ Bagged /\ Named /\ Cancels /\ CancelledStaysCancelled
      /\ StopCovers /\ Awake
  BY DEF IInv
<1> DEFINE sends == LoopSet /\ ~stopFlag
<1>2. PICK to \in {"wait", "lock", "join", "done"}, sent \in BOOLEAN :
          /\ sent => sends
          /\ spc' = [spc EXCEPT ![s] = to]
          /\ stopPending' = (stopPending \/ sent)
          /\ closedSend' = (closedSend \/ (sent /\ ~asyncOpen))
  <2>1. CASE StopCheck(s) \/ StopWait(s) \/ StopJoin(s)
    <3>1. /\ \E to \in {"wait", "lock", "join", "done"} : spc' = [spc EXCEPT ![s] = to]
          /\ stopPending' = stopPending /\ closedSend' = closedSend
      BY <2>1 DEF StopCheck, StopWait, StopJoin, StopGoes, wakeVars
    <3>2. stopPending' = (stopPending \/ FALSE) /\ closedSend' = (closedSend \/ (FALSE /\ ~asyncOpen))
      BY <1>1, <3>1 DEF TypeOK
    <3>3. QED
      BY <3>1, <3>2, Zenon
  <2>2. CASE StopSend(s)
    <3>1. /\ \E to \in {"wait", "lock", "join", "done"} : spc' = [spc EXCEPT ![s] = to]
          /\ stopPending' = (stopPending \/ sends)
          /\ closedSend' = (closedSend \/ (sends /\ ~asyncOpen))
      BY <2>2 DEF StopSend, StopGoes
    <3>2. QED
      BY <3>1, Zenon
  <2>3. QED
    BY <2>1, <2>2 DEF Stop
<1>3. /\ concurrent' = concurrent /\ asyncOpen' = asyncOpen /\ loopPc' = loopPc
      /\ running' = running /\ next' = next /\ timers' = timers /\ executed' = executed
      /\ stopFlag' = stopFlag /\ initFlag' = initFlag /\ beforeStop' = beforeStop
      /\ beforeInit' = beforeInit /\ buffer' = buffer /\ index' = index /\ enqueued' = enqueued
      /\ taskPending' = taskPending /\ ppc' = ppc /\ posts' = posts /\ task' = task
  BY DEF Stop, StopCheck, StopWait, StopSend, StopJoin, StopGoes, loopVars, placeVars,
         drainVars, flagVars, queueVars
<1>4. sent => asyncOpen
  <2>1. LoopSet /\ ~stopFlag => asyncOpen
    BY <1>1 DEF LoopSet, Phases, TypeOK
  <2>2. QED
    BY <1>2, <2>1, Zenon
<1>5. TypeOK'
  <2>1. spc' \in [Stoppers -> {"idle", "wait", "lock", "join", "done"}]
    BY <1>1, <1>2 DEF TypeOK
  <2>2. stopPending' \in BOOLEAN /\ closedSend' \in BOOLEAN
    BY <1>2
  <2>3. QED
    BY <1>1, <1>3, <2>1, <2>2 DEF TypeOK
<1>6. Phases'
  <2>1. ~closedSend'
    BY <1>1, <1>2, <1>4 DEF Phases
  <2>2. QED
    BY <1>1, <1>3, <2>1 DEF Phases, Draining
<1>7. Lined' /\ Bagged' /\ Left' = Left /\ \A n : Ran(n)' <=> Ran(n)
  BY <1>1, <1>3, QueueStays
<1>8. Named' /\ Cancels'
  BY <1>1, <1>3, NamesStay
<1>9. CancelledStaysCancelled' /\ StopCovers' /\ Awake'
  BY <1>1, <1>3, <1>7 DEF CancelledStaysCancelled, StopCovers, Awake, Waking
<1>10. QED
  BY <1>5, <1>6, <1>7, <1>8, <1>9 DEF IInv

-----------------------------------------------------------------------------
(* runLoop *)

\* The loop is made, or could not be, and then polls.
LEMMA LoopStartKeeps ==
    ASSUME IInv, LoopNew \/ LoopReady
    PROVE  IInv'
<1>1. /\ TypeOK /\ Phases /\ Lined /\ Bagged /\ Named /\ Cancels /\ CancelledStaysCancelled
      /\ StopCovers /\ Awake
  BY DEF IInv
<1>2. /\ concurrent' = concurrent
      /\ running' = running /\ next' = next /\ timers' = timers /\ executed' = executed
      /\ buffer' = buffer /\ index' = index /\ enqueued' = enqueued
      /\ taskPending' = taskPending /\ stopPending' = stopPending /\ closedSend' = closedSend
      /\ ppc' = ppc /\ posts' = posts /\ task' = task /\ spc' = spc
  BY DEF LoopNew, LoopReady, placeVars, drainVars, queueVars, threadVars, wakeVars
<1>3. \/ /\ loopPc = "new" /\ loopPc' = "inited" /\ asyncOpen' = TRUE /\ stopFlag' = stopFlag
         /\ initFlag' = initFlag /\ beforeStop' = beforeStop /\ beforeInit' = beforeInit
      \/ /\ loopPc = "new" /\ loopPc' = "failed" /\ asyncOpen' = asyncOpen /\ stopFlag' = TRUE
         /\ initFlag' = initFlag /\ beforeStop' = Len(enqueued) /\ beforeInit' = beforeInit
      \/ /\ loopPc = "inited" /\ loopPc' = "poll" /\ asyncOpen' = asyncOpen /\ stopFlag' = stopFlag
         /\ initFlag' = TRUE /\ beforeStop' = beforeStop /\ beforeInit' = Len(enqueued)
  BY DEF LoopNew, LoopReady, placeVars
<1>4. Len(enqueued) \in Nat
  BY <1>1, LenProperties DEF TypeOK
<1>5. TypeOK'
  BY <1>1, <1>2, <1>3, <1>4 DEF TypeOK
<1>6. Phases'
  BY <1>1, <1>2, <1>3 DEF Phases, Draining
<1>7. Lined' /\ Bagged' /\ Left' = Left /\ \A n : Ran(n)' <=> Ran(n)
  BY <1>1, <1>2, QueueStays
<1>8. Named' /\ Cancels'
  BY <1>1, <1>2, NamesStay
<1>9. CancelledStaysCancelled'
  BY <1>1, <1>2 DEF CancelledStaysCancelled
<1>10. StopCovers'
  BY <1>1, <1>2, <1>3, <1>4 DEF StopCovers
<1>11. Awake'
  BY <1>2, <1>3, <1>4 DEF Awake
<1>12. QED
  BY <1>5, <1>6, <1>7, <1>8, <1>9, <1>10, <1>11 DEF IInv

\* The loop takes the filled buffer: all that was queued has run or is in it.
LEMMA SwapKeeps ==
    ASSUME IInv, TaskCallback \/ FinalSwap
    PROVE  IInv'
<1> DEFINE c == buffer[index]
<1>1. /\ TypeOK /\ Phases /\ Lined /\ Bagged /\ Named /\ Cancels /\ CancelledStaysCancelled
      /\ StopCovers /\ Awake
  BY DEF IInv
<1>2. /\ concurrent' = concurrent /\ asyncOpen' = asyncOpen
      /\ running' = index /\ next' = 1 /\ index' = OtherIndex
      /\ timers' = timers /\ executed' = executed
      /\ stopFlag' = stopFlag /\ initFlag' = initFlag /\ beforeStop' = beforeStop
      /\ beforeInit' = beforeInit /\ buffer' = buffer /\ enqueued' = enqueued
      /\ stopPending' = stopPending /\ closedSend' = closedSend
      /\ ppc' = ppc /\ posts' = posts /\ task' = task /\ spc' = spc
      /\ \/ loopPc = "poll" /\ loopPc' = "drain" /\ taskPending' = FALSE
         \/ loopPc = "stopping" /\ loopPc' = "finalDrain" /\ taskPending' = taskPending
  BY DEF TaskCallback, FinalSwap, Swap, placeVars, flagVars, threadVars, wakeVars
<1>3. index \in 0 .. 1 /\ c \in Seq(Tasks) /\ Len(c) \in Nat
  BY <1>1, Indexes, LenProperties
<1>4. index' = (IF concurrent THEN index ELSE 1 - index) /\ index' \in 0 .. 1
  <2>1. (0 + 1) % 2 = 1 /\ (1 + 1) % 2 = 0
    OBVIOUS
  <2>2. QED
    BY <1>2, <1>3, <2>1 DEF OtherIndex
<1>5. TypeOK'
  <2>1. running' \in 0 .. NoBuffer /\ next' \in Nat \ {0}
    BY <1>2, <1>3 DEF NoBuffer
  <2>2. taskPending' \in BOOLEAN
    BY <1>1, <1>2, Zenon DEF TypeOK
  <2>3. loopPc' \in {"drain", "finalDrain"}
    BY <1>2
  <2>4. QED
    BY <1>1, <1>2, <1>4, <2>1, <2>2, <2>3 DEF TypeOK
<1>6. running = NoBuffer /\ running' # NoBuffer
  BY <1>1, <1>2, <1>3 DEF Phases, Draining, NoBuffer
<1>7. Phases'
  BY <1>1, <1>2, <1>3, <1>4, <1>6 DEF Phases, Draining
<1>8. Left = <<>> /\ Left' = c
  <2>1. Left' = SubSeq(c, 1, Len(c))
    BY <1>2, <1>6 DEF Left
  <2>2. QED
    BY <1>3, <1>6, <2>1, SubSeqFull DEF Left
<1>9. ~concurrent => /\ enqueued = executed \o c /\ c \in Seq(Tasks)
                     /\ enqueued = (executed \o c) \o <<>>
                     /\ Len(enqueued) = Len(executed) + Len(c)
  <2>1. SUFFICES ASSUME ~concurrent
                 PROVE  /\ enqueued = executed \o c
                        /\ enqueued = (executed \o c) \o <<>>
                        /\ Len(enqueued) = Len(executed) + Len(c)
    BY <1>3
  <2>2. enqueued = (executed \o <<>>) \o c
    BY <1>1, <1>8, <2>1 DEF Lined
  <2> HIDE DEF c
  <2>3. executed \in Seq(Tasks) /\ executed \o c \in Seq(Tasks)
    BY <1>1, <1>3, ConcatProperties DEF TypeOK
  <2>4. executed \o <<>> = executed /\ (executed \o c) \o <<>> = executed \o c
    BY <2>3, ConcatEmptySeq
  <2>5. Len(executed \o c) = Len(executed) + Len(c)
    BY <1>3, <2>3, ConcatProperties
  <2>6. QED
    BY <2>2, <2>4, <2>5
<1>10. Lined'
  <2>1. SUFFICES ASSUME ~concurrent
                 PROVE  /\ enqueued' = (executed' \o Left') \o buffer'[index']
                        /\ running' = NoBuffer => buffer'[1 - index'] = <<>>
                        /\ running' # NoBuffer => next' <= Len(buffer'[running']) + 1
    BY <1>2 DEF Lined
  <2>2. buffer'[index'] = <<>>
    BY <1>1, <1>2, <1>4, <1>6, <2>1 DEF Lined
  <2>3. next' <= Len(buffer'[running']) + 1
    BY <1>2, <1>3
  <2>4. QED
    BY <1>2, <1>6, <1>8, <1>9, <2>1, <2>2, <2>3
<1>11. Bagged'
  BY <1>1, <1>2, <1>4 DEF Bagged, Has, NoRepeat
<1>12. Named' /\ Cancels'
  BY <1>1, <1>2, NamesStay
<1>13. CancelledStaysCancelled'
  BY <1>1, <1>2 DEF CancelledStaysCancelled
<1>14. StopCovers'
  <2>1. loopPc' = "finalDrain" /\ ~concurrent => beforeStop <= Len(executed) + Len(Left')
    BY <1>1, <1>8, <1>9 DEF StopCovers
  <2>2. QED
    BY <1>1, <1>2, <2>1 DEF StopCovers
<1>15. Awake'
  <2>1. SUFFICES ASSUME loopPc' = "drain", ~concurrent, NEW n \in 1 .. Len(enqueued)
                 PROVE  n <= Len(executed) + Len(Left')
    BY <1>2 DEF Awake
  <2>2. Len(enqueued) \in Nat
    BY <1>1, LenProperties DEF TypeOK
  <2>3. QED
    BY <1>8, <1>9, <2>1, <2>2
<1>16. QED
  BY <1>5, <1>7, <1>10, <1>11, <1>12, <1>13, <1>14, <1>15 DEF IInv

\* A buffer's next task runs: it was queued next, after the create tasks of the timers
\* cancelled so far.
LEMMA RunKeeps ==
    ASSUME IInv, RunOneTask
    PROVE  IInv'
<1> DEFINE s == buffer[running]
           t == s[next]
           last == Len(executed) + 1
<1>1. /\ TypeOK /\ Phases /\ Lined /\ Bagged /\ Named /\ Cancels /\ CancelledStaysCancelled
      /\ StopCovers /\ Awake
  BY DEF IInv
<1>2. /\ Draining /\ ~concurrent /\ next <= Len(s)
      /\ executed' = Append(executed, t) /\ timers' = TimersAfter(t) /\ next' = next + 1
      /\ concurrent' = concurrent /\ asyncOpen' = asyncOpen /\ loopPc' = loopPc
      /\ running' = running /\ index' = index /\ buffer' = buffer
      /\ stopFlag' = stopFlag /\ initFlag' = initFlag /\ beforeStop' = beforeStop
      /\ beforeInit' = beforeInit /\ enqueued' = enqueued
      /\ taskPending' = taskPending /\ stopPending' = stopPending /\ closedSend' = closedSend
      /\ ppc' = ppc /\ posts' = posts /\ task' = task /\ spc' = spc
  BY DEF RunOneTask, Run, placeVars, flagVars, threadVars, wakeVars
<1>3. /\ running # NoBuffer /\ s \in Seq(Tasks) /\ Len(s) \in Nat /\ next \in 1 .. Len(s)
      /\ t \in Tasks
  <2>1. running # NoBuffer /\ s \in Seq(Tasks)
    BY <1>1, <1>2, Indexes DEF Phases
  <2>2. next \in 1 .. Len(s) /\ Len(s) \in Nat
    BY <1>1, <1>2, <2>1, LenProperties DEF TypeOK
  <2>3. QED
    BY <2>1, <2>2, ElementOfSeq
<1>4. /\ executed \in Seq(Tasks) /\ executed' \in Seq(Tasks) /\ Len(executed) \in Nat
      /\ Len(executed') = last /\ executed'[last] = t
      /\ \A k \in 1 .. Len(executed) : executed'[k] = executed[k]
  BY <1>1, <1>2, <1>3, AppendProperties, LenProperties DEF TypeOK
<1>5. Left = SubSeq(s, next, Len(s)) /\ Left' = SubSeq(s, next + 1, Len(s))
  BY <1>2, <1>3 DEF Left
<1> HIDE DEF s, t
<1>6. Len(Left) = Len(Left') + 1 /\ Len(Left') \in Nat
  <2>1. /\ next \in Nat \ {0} /\ next <= Len(s) + 1
        /\ next + 1 \in Nat \ {0} /\ next + 1 <= Len(s) + 1
    BY <1>3
  <2>2. /\ Len(SubSeq(s, next, Len(s))) = Len(s) + 1 - next
        /\ Len(SubSeq(s, next + 1, Len(s))) = Len(s) + 1 - (next + 1)
    BY <1>3, <2>1, Suffix
  <2>3. QED
    BY <1>3, <1>5, <2>2
<1>7. timers' \subseteq [id : Ids, kind : {"once", "repeat"}]
  BY <1>1, <1>2, <1>3 DEF TimersAfter, TypeOK, Tasks, AllKinds
<1>8. TypeOK'
  <2>1. next' \in Nat \ {0}
    BY <1>2, <1>3
  <2>2. QED
    BY <1>1, <1>2, <1>4, <1>7, <2>1 DEF TypeOK
<1>9. Phases'
  BY <1>1, <1>2 DEF Phases, Draining
<1>10. Lined'
  <2>1. Append(executed, s[next]) \o SubSeq(s, next + 1, Len(s)) = executed \o SubSeq(s, next, Len(s))
    BY <1>3, <1>4, MoveFirst
  <2>2. executed' \o Left' = executed \o Left
    BY <1>2, <1>5, <2>1 DEF t
  <2>3. next' <= Len(buffer'[running']) + 1
    BY <1>2, <1>3 DEF s
  <2>4. QED
    BY <1>1, <1>2, <1>3, <2>2, <2>3 DEF Lined
<1>11. Bagged'
  BY <1>2 DEF Bagged
<1>12. Named' /\ Cancels'
  BY <1>1, <1>2, NamesStay
<1>13. /\ \A k \in 1 .. Len(executed') : k \in 1 .. Len(enqueued) /\ executed'[k] = enqueued[k]
       /\ Len(enqueued) \in Nat
  <2>1. /\ enqueued' = (executed' \o Left') \o buffer'[index'] /\ buffer'[index'] \in Seq(Tasks)
        /\ Len(enqueued) \in Nat
    BY <1>1, <1>2, <1>10, Indexes, LenProperties DEF Lined, TypeOK
  <2>2. Left' \in Seq(Tasks)
    <3>1. next + 1 \in Nat \ {0} /\ next + 1 <= Len(s) + 1
      BY <1>3
    <3>2. QED
      BY <1>3, <1>5, <3>1, Suffix
  <2> DEFINE e == executed'
             q == enqueued'
             l == Left'
             c == buffer'[index']
  <2>3. /\ e \in Seq(Tasks) /\ l \in Seq(Tasks) /\ c \in Seq(Tasks) /\ q \in Seq(Tasks)
        /\ q = (e \o l) \o c
    BY <1>1, <1>2, <1>4, <2>1, <2>2 DEF TypeOK
  <2> HIDE DEF e, q, l, c
  <2>4. \A k \in 1 .. Len(e) : k \in 1 .. Len(q) /\ e[k] = q[k]
    BY <2>3, FirstOfThree
  <2>5. \A k \in 1 .. Len(executed') : k \in 1 .. Len(enqueued') /\ executed'[k] = enqueued'[k]
    BY <2>4 DEF e, q
  <2>6. QED
    BY <1>2, <2>1, <2>5
<1>14. CancelledStaysCancelled'
  <2>1. SUFFICES ASSUME NEW i \in 1 .. Len(executed'), executed'[i].kind = "cancel",
                        NEW e \in timers', e.id = executed'[i].timer
                 PROVE  FALSE
    BY DEF CancelledStaysCancelled
  <2>2. last \in 1 .. Len(executed') /\ last \in 1 .. Len(enqueued) /\ t = enqueued[last]
    BY <1>4, <1>13
  <2>3. CASE i = last
    <3>1. t.kind = "cancel" /\ timers' = {f \in timers : f.id # t.timer}
      BY <1>2, <1>4, <2>1, <2>3 DEF TimersAfter
    <3>2. QED
      BY <1>4, <2>1, <2>3, <3>1
  <2>4. CASE i \in 1 .. Len(executed)
    <3>1. executed'[i] = executed[i] /\ executed[i] = enqueued[i] /\ i \in 1 .. Len(enqueued)
      BY <1>4, <1>13, <2>4
    <3>2. e \notin timers
      BY <1>1, <2>1, <2>4, <3>1 DEF CancelledStaysCancelled
    <3>3. e.id = t.id
      BY <1>2, <2>1, <3>2 DEF TimersAfter
    <3>4. last < i
      BY <1>1, <2>1, <2>2, <3>1, <3>3 DEF Cancels
    <3>5. QED
      BY <1>4, <2>4, <3>4
  <2>5. QED
    BY <1>4, <2>3, <2>4
<1>15. \A n : Ran(n) => Ran(n)'
  <2>1. \A u : Has(executed, u) => Has(executed', u)
    BY <1>4 DEF Has
  <2>2. \A u : u \in ToSet(executed) => u \in ToSet(executed')
    BY <1>4, <2>1, ElementsOf
  <2>3. QED
    BY <1>2, <2>2 DEF Ran
<1>16. StopCovers'
  <2>1. loopPc \notin {"clean", "leave", "ended"}
    BY <1>2 DEF Draining
  <2>2. Len(executed') + Len(Left') = Len(executed) + Len(Left)
    BY <1>4, <1>6
  <2>3. QED
    BY <1>1, <1>2, <2>1, <2>2 DEF StopCovers
<1>17. Awake'
  <2>1. loopPc # "poll"
    BY <1>2 DEF Draining
  <2>2. Len(executed') + Len(Left') = Len(executed) + Len(Left)
    BY <1>4, <1>6
  <2>3. QED
    BY <1>1, <1>2, <2>1, <2>2 DEF Awake, Waking
<1>18. QED
  BY <1>8, <1>9, <1>10, <1>11, <1>12, <1>14, <1>16, <1>17 DEF IInv

\* The concurrent queue gives up a task, which has not run; it is no timer's.
LEMMA DequeueKeeps ==
    ASSUME IInv, DequeueOneTask
    PROVE  IInv'
<1> DEFINE s == buffer[0]
           last == Len(executed) + 1
<1>1. /\ TypeOK /\ Phases /\ Lined /\ Bagged /\ Named /\ Cancels /\ CancelledStaysCancelled
      /\ StopCovers /\ Awake
  BY DEF IInv
<1>2. Draining /\ concurrent /\ next' = next
  BY DEF DequeueOneTask
<1>3. running = 0 /\ index = 0
  BY <1>1, <1>2 DEF Phases, Bagged
<1>4. PICK i \in 1 .. Len(s) : Run(s[i]) /\ buffer' = [buffer EXCEPT ![0] = RemoveAt(s, i)]
  BY <1>3 DEF DequeueOneTask
<1> DEFINE t == s[i]
<1>5. /\ executed' = Append(executed, t) /\ timers' = TimersAfter(t)
      /\ concurrent' = concurrent /\ asyncOpen' = asyncOpen /\ loopPc' = loopPc
      /\ running' = running /\ index' = index
      /\ stopFlag' = stopFlag /\ initFlag' = initFlag /\ beforeStop' = beforeStop
      /\ beforeInit' = beforeInit /\ enqueued' = enqueued
      /\ taskPending' = taskPending /\ stopPending' = stopPending /\ closedSend' = closedSend
      /\ ppc' = ppc /\ posts' = posts /\ task' = task /\ spc' = spc
  BY <1>4 DEF Run, placeVars, flagVars, threadVars, wakeVars
<1>6. s \in Seq(Tasks) /\ t \in Tasks
  <2>1. s \in Seq(Tasks)
    BY <1>1, <1>3, Indexes
  <2>2. QED
    BY <2>1, ElementOfSeq
<1>7. /\ index = 0 /\ next = 1 /\ buffer[1] = <<>> /\ NoRepeat(executed) /\ NoRepeat(s)
      /\ \A n \in 1 .. Len(enqueued) : Has(executed, enqueued[n]) \/ Has(s, enqueued[n])
      /\ \A k \in 1 .. Len(executed) : Has(enqueued, executed[k]) /\ ~Has(s, executed[k])
      /\ \A j \in 1 .. Len(s) : Has(enqueued, s[j])
  BY <1>1, <1>2 DEF Bagged
<1>8. t.kind = "plain" /\ Has(enqueued, t) /\ Has(s, t)
  BY <1>1, <1>2, <1>7 DEF Cancels, Has
<1>9. /\ buffer' \in [0 .. 1 -> Seq(Tasks)] /\ buffer'[1] = <<>>
      /\ \A u : Has(buffer'[0], u) => Has(s, u)
      /\ \A u : Has(s, u) => Has(buffer'[0], u) \/ u = t
      /\ NoRepeat(buffer'[0]) /\ ~Has(buffer'[0], t)
  <2> DEFINE w == RemoveAt(s, i)
  <2>1. /\ w \in Seq(Tasks) /\ (\A u : Has(w, u) => Has(s, u))
        /\ (\A u : Has(s, u) => Has(w, u) \/ u = t)
        /\ NoRepeat(w) /\ ~Has(w, t)
    BY <1>6, <1>7, Without
  <2> HIDE DEF w
  <2>2. buffer' \in [0 .. 1 -> Seq(Tasks)] /\ buffer'[1] = <<>> /\ buffer'[0] = w
    BY <1>1, <1>4, <1>7, <2>1 DEF TypeOK, w
  <2>3. QED
    BY <2>1, <2>2
<1> HIDE DEF s, t
<1>10. /\ executed \in Seq(Tasks) /\ executed' \in Seq(Tasks) /\ Len(executed) \in Nat
       /\ Len(executed') = last /\ executed'[last] = t
       /\ \A k \in 1 .. Len(executed) : executed'[k] = executed[k]
  BY <1>1, <1>5, <1>6, AppendProperties, LenProperties DEF TypeOK
<1>11. \A k \in 1 .. Len(executed') :
           \/ k \in 1 .. Len(executed) /\ executed'[k] = executed[k]
           \/ k = last /\ executed'[k] = t
  BY <1>10
<1>12. timers' = timers
  BY <1>5, <1>8 DEF TimersAfter
<1>13. TypeOK'
  BY <1>1, <1>2, <1>5, <1>9, <1>10, <1>12 DEF TypeOK
<1>14. Phases'
  BY <1>1, <1>5, <1>12 DEF Phases, Draining
<1>15. Lined'
  BY <1>2, <1>5 DEF Lined
<1>16. \A u : Has(executed', u) <=> Has(executed, u) \/ u = t
  BY <1>10, <1>11 DEF Has
<1>17. \A k \in 1 .. Len(executed') : Has(enqueued, executed'[k]) /\ ~Has(buffer'[0], executed'[k])
  BY <1>7, <1>8, <1>9, <1>11
<1>18. Bagged'
  <2>1. \A n \in 1 .. Len(enqueued) : Has(executed', enqueued[n]) \/ Has(buffer'[0], enqueued[n])
    BY <1>7, <1>9, <1>16
  <2>2. \A j \in 1 .. Len(buffer'[0]) : Has(enqueued, buffer'[0][j])
    <3>1. SUFFICES ASSUME NEW j \in 1 .. Len(buffer'[0]) PROVE Has(enqueued, buffer'[0][j])
      OBVIOUS
    <3>2. Has(buffer'[0], buffer'[0][j])
      BY DEF Has
    <3>3. PICK k \in 1 .. Len(s) : s[k] = buffer'[0][j]
      BY <1>9, <3>2 DEF Has
    <3>4. QED
      BY <1>7, <3>3
  <2>3. NoRepeat(executed')
    <3>1. \A k \in 1 .. Len(executed) : executed[k] # t
      BY <1>7, <1>8
    <3>2. \A j, k \in 1 .. Len(executed) : executed[j] = executed[k] => j = k
      BY <1>7 DEF NoRepeat
    <3>3. SUFFICES ASSUME NEW j \in 1 .. Len(executed'), NEW k \in 1 .. Len(executed'),
                          executed'[j] = executed'[k]
                   PROVE  j = k
      BY DEF NoRepeat
    <3>4. /\ \/ j \in 1 .. Len(executed) /\ executed'[j] = executed[j]
             \/ j = last /\ executed'[j] = t
          /\ \/ k \in 1 .. Len(executed) /\ executed'[k] = executed[k]
             \/ k = last /\ executed'[k] = t
      BY <1>11
    <3>5. QED
      BY <3>1, <3>2, <3>3, <3>4
  <2>4. \A n \in 1 .. Len(enqueued') : Has(executed', enqueued'[n]) \/ Has(buffer'[0], enqueued'[n])
    BY <1>5, <2>1
  <2>5. \A k \in 1 .. Len(executed') : Has(enqueued', executed'[k]) /\ ~Has(buffer'[0], executed'[k])
    BY <1>5, <1>17
  <2>6. \A j \in 1 .. Len(buffer'[0]) : Has(enqueued', buffer'[0][j])
    BY <1>5, <2>2
  <2>7. index' = 0 /\ next' = 1
    BY <1>2, <1>5, <1>7
  <2>8. QED
    BY <1>9, <2>3, <2>4, <2>5, <2>6, <2>7 DEF Bagged
<1>19. Named' /\ Cancels'
  BY <1>1, <1>5, NamesStay
<1>20. CancelledStaysCancelled'
  <2>1. \A k \in 1 .. Len(executed') : executed'[k].kind = "plain"
    BY <1>1, <1>2, <1>17 DEF Cancels, Has
  <2>2. QED
    BY <2>1 DEF CancelledStaysCancelled
<1>21. StopCovers' /\ Awake'
  BY <1>1, <1>2, <1>5 DEF StopCovers, Awake, Draining
<1>22. QED
  BY <1>13, <1>14, <1>15, <1>18, <1>19, <1>20, <1>21 DEF IInv

\* A drain ends with its buffer executed, so everything that was in it has run.
LEMMA EndDrainKeeps ==
    ASSUME IInv, EndDrain
    PROVE  IInv'
<1>1. /\ TypeOK /\ Phases /\ Lined /\ Bagged /\ Named /\ Cancels /\ CancelledStaysCancelled
      /\ StopCovers /\ Awake
  BY DEF IInv
<1>2. /\ Draining /\ next > Len(buffer[running])
      /\ buffer' = [buffer EXCEPT ![running] = <<>>] /\ running' = NoBuffer /\ next' = 1
      /\ loopPc' = IF loopPc = "drain" THEN "poll" ELSE "clean"
      /\ concurrent' = concurrent /\ asyncOpen' = asyncOpen /\ index' = index
      /\ timers' = timers /\ executed' = executed
      /\ stopFlag' = stopFlag /\ initFlag' = initFlag /\ beforeStop' = beforeStop
      /\ beforeInit' = beforeInit /\ enqueued' = enqueued
      /\ taskPending' = taskPending /\ stopPending' = stopPending /\ closedSend' = closedSend
      /\ ppc' = ppc /\ posts' = posts /\ task' = task /\ spc' = spc
  BY DEF EndDrain, Cleared, placeVars, flagVars, threadVars, wakeVars
<1>3. /\ running # NoBuffer /\ running \in 0 .. 1 /\ index \in 0 .. 1
      /\ buffer[running] \in Seq(Tasks) /\ Len(buffer[running]) \in Nat /\ next \in Nat \ {0}
  BY <1>1, <1>2, Indexes, LenProperties DEF Phases, TypeOK
<1>4. /\ buffer' \in [0 .. 1 -> Seq(Tasks)] /\ buffer'[running] = <<>>
      /\ \A b \in 0 .. 1 : b # running => buffer'[b] = buffer[b]
  BY <1>1, <1>2, <1>3, EmptySeq DEF TypeOK
<1>5. TypeOK'
  <2>1. running' \in 0 .. NoBuffer /\ next' \in Nat \ {0}
    BY <1>2 DEF NoBuffer
  <2>2. loopPc' \in {"poll", "clean"}
    BY <1>2
  <2>3. QED
    BY <1>1, <1>2, <1>4, <2>1, <2>2 DEF TypeOK
<1>6. Phases'
  BY <1>1, <1>2 DEF Phases, Draining
<1>7. Left' = <<>>
  BY <1>2 DEF Left
<1>8. ~concurrent => Left = <<>> /\ running = 1 - index /\ buffer'[index] = buffer[index]
  <2>1. SUFFICES ASSUME ~concurrent
                 PROVE  Left = <<>> /\ running = 1 - index /\ buffer'[index] = buffer[index]
    OBVIOUS
  <2>2. running = 1 - index
    BY <1>1, <1>3, <2>1 DEF Phases
  <2>3. next <= Len(buffer[running]) + 1
    BY <1>1, <1>3, <2>1 DEF Lined
  <2>4. SubSeq(buffer[running], next, Len(buffer[running])) = <<>>
    BY <1>2, <1>3, <2>3, Suffix
  <2>5. QED
    BY <1>3, <1>4, <2>2, <2>4 DEF Left
<1>9. Lined'
  <2>1. SUFFICES ASSUME ~concurrent
                 PROVE  /\ enqueued' = (executed' \o Left') \o buffer'[index']
                        /\ running' = NoBuffer => buffer'[1 - index'] = <<>>
                        /\ running' # NoBuffer => next' <= Len(buffer'[running']) + 1
    BY <1>2 DEF Lined
  <2>2. enqueued = (executed \o Left) \o buffer[index]
    BY <1>1, <2>1 DEF Lined
  <2>3. QED
    BY <1>2, <1>4, <1>7, <1>8, <2>1, <2>2
<1>10. concurrent => /\ index = 0 /\ next = 1 /\ running = 0 /\ buffer[0] = <<>>
                     /\ buffer'[0] = <<>> /\ buffer'[1] = buffer[1]
  <2>1. SUFFICES ASSUME concurrent PROVE index = 0 /\ next = 1 /\ running = 0 /\ buffer[0] = <<>>
    BY <1>4
  <2>2. index = 0 /\ next = 1 /\ running = 0
    BY <1>1, <1>3, <2>1 DEF Bagged, Phases
  <2>3. Len(buffer[0]) = 0 /\ buffer[0] \in Seq(Tasks)
    BY <1>2, <1>3, <2>2
  <2>4. QED
    BY <2>2, <2>3, EmptySeq
<1>11. Bagged'
  <2>1. SUFFICES ASSUME concurrent PROVE Bagged'
    BY <1>2 DEF Bagged
  <2>2. /\ buffer'[0] = buffer[0] /\ buffer'[1] = buffer[1] /\ index' = index /\ next' = next
        /\ concurrent' = concurrent /\ enqueued' = enqueued /\ executed' = executed
    BY <1>2, <1>10, <2>1
  <2>3. QED
    BY <1>1, <2>1, <2>2 DEF Bagged, Has, NoRepeat
<1>12. Named' /\ Cancels'
  BY <1>1, <1>2, NamesStay
<1>13. CancelledStaysCancelled'
  BY <1>1, <1>2 DEF CancelledStaysCancelled
<1>14. \A n : Ran(n)' <=> Ran(n)
  BY <1>2 DEF Ran
<1>15. concurrent => \A n \in 1 .. Len(enqueued) : Ran(n)
  <2>1. SUFFICES ASSUME concurrent, NEW n \in 1 .. Len(enqueued) PROVE Ran(n)
    OBVIOUS
  <2>2. ~Has(buffer[0], enqueued[n])
    BY <1>10, <2>1, EmptySeq DEF Has
  <2>3. QED
    BY <1>1, <2>1, <2>2, WhatRan DEF Bagged
<1>16. ~concurrent => /\ Len(Left) = 0 /\ Len(executed) \in Nat
                      /\ \A n \in 1 .. Len(executed) : Ran(n)
  BY <1>1, <1>8, EmptySeq, WhatRan, RunIsFirst
<1>17. Len(enqueued) \in Nat /\ beforeStop \in Nat /\ beforeStop <= Len(enqueued)
  BY <1>1, LenProperties DEF TypeOK, StopCovers
<1>18. StopCovers'
  <2>1. SUFFICES ASSUME loopPc' = "clean", NEW n \in 1 .. beforeStop PROVE Ran(n)
    BY <1>2, <1>14, <1>17 DEF StopCovers
  <2>2. loopPc = "finalDrain"
    BY <1>2, <2>1 DEF Draining
  <2>3. CASE concurrent
    BY <1>15, <1>17, <2>3
  <2>4. CASE ~concurrent
    BY <1>1, <1>16, <1>17, <2>2, <2>4 DEF StopCovers
  <2>5. QED
    BY <2>3, <2>4
<1>19. Awake'
  <2>1. Waking' <=> Waking
    BY <1>2 DEF Waking
  <2>2. SUFFICES ASSUME loopPc' = "poll", NEW n \in 1 .. Len(enqueued)
                 PROVE  Ran(n) \/ n <= beforeInit \/ Waking
    BY <1>2, <1>14, <2>1 DEF Awake
  <2>3. loopPc = "drain"
    BY <1>2, <2>2
  <2>4. CASE concurrent
    BY <1>15, <2>2, <2>4
  <2>5. CASE ~concurrent
    BY <1>1, <1>16, <1>17, <2>2, <2>3, <2>5 DEF Awake
  <2>6. QED
    BY <2>4, <2>5
<1>20. QED
  BY <1>5, <1>6, <1>9, <1>11, <1>12, <1>13, <1>18, <1>19 DEF IInv

\* A timer that expires starts no timer.
LEMMA TimerKeeps ==
    ASSUME IInv, TimerFires
    PROVE  IInv'
<1>1. /\ TypeOK /\ Phases /\ Lined /\ Bagged /\ Named /\ Cancels /\ CancelledStaysCancelled
      /\ StopCovers /\ Awake
  BY DEF IInv
<1>2. /\ loopPc = "poll" /\ loopPc' = loopPc /\ timers' \subseteq timers
      /\ concurrent' = concurrent /\ asyncOpen' = asyncOpen
      /\ running' = running /\ next' = next /\ executed' = executed
      /\ stopFlag' = stopFlag /\ initFlag' = initFlag /\ beforeStop' = beforeStop
      /\ beforeInit' = beforeInit /\ buffer' = buffer /\ index' = index /\ enqueued' = enqueued
      /\ taskPending' = taskPending /\ stopPending' = stopPending /\ closedSend' = closedSend
      /\ ppc' = ppc /\ posts' = posts /\ task' = task /\ spc' = spc
  BY DEF TimerFires, placeVars, flagVars, queueVars, threadVars, wakeVars
<1>3. TypeOK'
  BY <1>1, <1>2 DEF TypeOK
<1>4. Phases'
  BY <1>1, <1>2 DEF Phases, Draining
<1>5. Lined' /\ Bagged' /\ Left' = Left /\ \A n : Ran(n)' <=> Ran(n)
  BY <1>1, <1>2, QueueStays
<1>6. Named' /\ Cancels'
  BY <1>1, <1>2, NamesStay
<1>7. CancelledStaysCancelled' /\ StopCovers' /\ Awake'
  BY <1>1, <1>2, <1>5 DEF CancelledStaysCancelled, StopCovers, Awake, Waking
<1>8. QED
  BY <1>3, <1>4, <1>5, <1>6, <1>7 DEF IInv

\* The stop callback sets the flags; after the final drain the timers and the handles are
\* closed, and the loop ends.
LEMMA LoopStopKeeps ==
    ASSUME IInv, StopCallback \/ CleanAll \/ LoopEnd
    PROVE  IInv'
<1>1. /\ TypeOK /\ Phases /\ Lined /\ Bagged /\ Named /\ Cancels /\ CancelledStaysCancelled
      /\ StopCovers /\ Awake
  BY DEF IInv
<1>2. /\ concurrent' = concurrent /\ running' = running /\ next' = next /\ executed' = executed
      /\ beforeInit' = beforeInit /\ buffer' = buffer /\ index' = index /\ enqueued' = enqueued
      /\ closedSend' = closedSend /\ ppc' = ppc /\ posts' = posts /\ task' = task /\ spc' = spc
  BY DEF StopCallback, CleanAll, LoopEnd, placeVars, drainVars, flagVars, queueVars, threadVars,
         wakeVars
<1>3. \/ /\ loopPc = "poll" /\ loopPc' = "stopping" /\ stopFlag' = TRUE /\ initFlag' = FALSE
         /\ beforeStop' = Len(enqueued) /\ asyncOpen' = asyncOpen /\ timers' = timers
         /\ taskPending' = taskPending /\ stopPending' = FALSE
      \/ /\ loopPc = "clean" /\ loopPc' = "leave" /\ stopFlag' = stopFlag /\ initFlag' = initFlag
         /\ beforeStop' = beforeStop /\ asyncOpen' = FALSE /\ timers' = {}
         /\ taskPending' = FALSE /\ stopPending' = FALSE
      \/ /\ loopPc = "leave" /\ loopPc' = "ended" /\ stopFlag' = stopFlag /\ initFlag' = initFlag
         /\ beforeStop' = beforeStop /\ asyncOpen' = asyncOpen /\ timers' = timers
         /\ taskPending' = taskPending /\ stopPending' = stopPending
  BY DEF StopCallback, AfterStop, CleanAll, LoopEnd, placeVars, drainVars, flagVars, wakeVars
<1>4. Len(enqueued) \in Nat
  BY <1>1, LenProperties DEF TypeOK
<1>5. TypeOK'
  <2>1. /\ loopPc' \in {"stopping", "leave", "ended"} /\ beforeStop' \in Nat
        /\ timers' \subseteq [id : Ids, kind : {"once", "repeat"}]
    BY <1>1, <1>3, <1>4 DEF TypeOK
  <2>2. /\ stopFlag' \in BOOLEAN /\ initFlag' \in BOOLEAN /\ asyncOpen' \in BOOLEAN
        /\ taskPending' \in BOOLEAN /\ stopPending' \in BOOLEAN
    BY <1>1, <1>3, Zenon DEF TypeOK
  <2>3. QED
    BY <1>1, <1>2, <2>1, <2>2 DEF TypeOK
<1>6. Phases'
  BY <1>1, <1>2, <1>3 DEF Phases, Draining
<1>7. Lined' /\ Bagged' /\ Left' = Left /\ \A n : Ran(n)' <=> Ran(n)
  BY <1>1, <1>2, QueueStays
<1>8. Named' /\ Cancels'
  BY <1>1, <1>2, NamesStay
<1>9. CancelledStaysCancelled'
  BY <1>1, <1>2, <1>3 DEF CancelledStaysCancelled
<1>10. StopCovers'
  BY <1>1, <1>2, <1>3, <1>4, <1>7 DEF StopCovers
<1>11. Awake'
  BY <1>3 DEF Awake
<1>12. QED
  BY <1>5, <1>6, <1>7, <1>8, <1>9, <1>10, <1>11 DEF IInv

-----------------------------------------------------------------------------
(* The invariant *)

\* A step that changes nothing.
LEMMA StutterKeeps ==
    ASSUME IInv, UNCHANGED vars
    PROVE  IInv'
<1>1. /\ TypeOK /\ Phases /\ Lined /\ Bagged /\ Named /\ Cancels /\ CancelledStaysCancelled
      /\ StopCovers /\ Awake
  BY DEF IInv
<1>2. /\ concurrent' = concurrent /\ asyncOpen' = asyncOpen /\ loopPc' = loopPc
      /\ running' = running /\ next' = next /\ timers' = timers /\ executed' = executed
      /\ stopFlag' = stopFlag /\ initFlag' = initFlag /\ beforeStop' = beforeStop
      /\ beforeInit' = beforeInit /\ buffer' = buffer /\ index' = index /\ enqueued' = enqueued
      /\ taskPending' = taskPending /\ stopPending' = stopPending /\ closedSend' = closedSend
      /\ ppc' = ppc /\ posts' = posts /\ task' = task /\ spc' = spc
  BY DEF vars, loopVars, placeVars, drainVars, flagVars, queueVars, threadVars, wakeVars
<1>3. TypeOK'
  BY <1>1, <1>2 DEF TypeOK
<1>4. Phases'
  BY <1>1, <1>2 DEF Phases, Draining
<1>5. Lined' /\ Bagged' /\ Left' = Left /\ \A n : Ran(n)' <=> Ran(n)
  BY <1>1, <1>2, QueueStays
<1>6. Named' /\ Cancels'
  BY <1>1, <1>2, NamesStay
<1>7. CancelledStaysCancelled' /\ StopCovers' /\ Awake'
  BY <1>1, <1>2, <1>5 DEF CancelledStaysCancelled, StopCovers, Awake, Waking
<1>8. QED
  BY <1>3, <1>4, <1>5, <1>6, <1>7 DEF IInv

\* Every step keeps the invariant.
LEMMA NextKeeps == IInv /\ [Next]_vars => IInv'
<1> SUFFICES ASSUME IInv, [Next]_vars PROVE IInv'
  OBVIOUS
<1>1. CASE \E p \in Producers : Post(p)
  BY <1>1, PostCheckKeeps, PostEnqueueKeeps, PostWakeKeeps DEF Post
<1>2. CASE \E s \in Stoppers : Stop(s)
  BY <1>2, StopKeeps
<1>3. CASE LoopStep
  BY <1>3, LoopStartKeeps, SwapKeeps, RunKeeps, DequeueKeeps, EndDrainKeeps, LoopStopKeeps
     DEF LoopStep
<1>4. CASE TimerFires
  BY <1>4, TimerKeeps
<1>5. CASE Quiet \/ UNCHANGED vars
  BY <1>5, StutterKeeps DEF Quiet
<1>6. QED
  BY <1>1, <1>2, <1>3, <1>4, <1>5 DEF Next

\* The inductive invariant holds in every reachable state.
THEOREM Invariance == Spec => []IInv
<1>1. QED
  BY InitKeeps, NextKeeps, PTL DEF Spec

\* Every variable of the pools has its type.
THEOREM TypeCorrect == Spec => []TypeOK
<1>1. IInv => TypeOK
  BY DEF IInv
<1>2. QED
  BY <1>1, Invariance, PTL

\* executeTasksInLoop iterates over a buffer no producer appends to.
THEOREM OwnBuffer == Spec => []BuffersDisjoint
<1>1. TypeOK /\ Phases => BuffersDisjoint
  BY Indexes DEF Phases, BuffersDisjoint
<1>2. QED
  BY <1>1, Invariance, PTL DEF IInv

\* No uv_async_send, of post or of stop, reaches a handle that is closed.
THEOREM OpenHandles == Spec => []NoSendToClosedHandle
<1>1. IInv => NoSendToClosedHandle
  BY DEF IInv, Phases, NoSendToClosedHandle
<1>2. QED
  BY <1>1, Invariance, PTL

\* cancelTimer is final: no interleaving of creates and cancels by different threads
\* brings a cancelled timer back.
THEOREM CancelIsFinal == Spec => []CancelledStaysCancelled
<1>1. IInv => CancelledStaysCancelled
  BY DEF IInv
<1>2. QED
  BY <1>1, Invariance, PTL

\* When the loop thread has ended, all that was queued before the stop callback set
\* the flag has run, and no timer is open.
THEOREM StopDrains == Spec => []DrainedBeforeEnd
<1>1. IInv => DrainedBeforeEnd
  BY DEF IInv, Phases, StopCovers, DrainedBeforeEnd
<1>2. QED
  BY <1>1, Invariance, PTL

\* A task at rest on a polling loop without a wakeup on its way was queued before the
\* loop was initialised.
THEOREM WakeupIsKept == Spec => []NoLostWakeup
<1>1. IInv => NoLostWakeup
  BY DEF IInv, Awake, Waking, NoLostWakeup, Attended
<1>2. QED
  BY <1>1, Invariance, PTL

-----------------------------------------------------------------------------
(* The order of each producer *)

\* A task that is queued is the latest of its producer.
LEMMA EnqueueOrders ==
    ASSUME IInv, Orders, NEW p \in Producers, PostEnqueue(p)
    PROVE  Orders'
<1> DEFINE t == task[p]
<1>1. TypeOK /\ Bagged /\ Named
  BY DEF IInv
<1>2. /\ ppc[p] = "enqueue" /\ buffer' = [buffer EXCEPT ![index] = Append(@, t)]
      /\ enqueued' = Append(enqueued, t) /\ concurrent' = concurrent /\ executed' = executed
  BY DEF PostEnqueue, Queued, loopVars, placeVars, drainVars
<1>3. t \in Tasks /\ t.id = <<p, posts[p]>> /\ enqueued \in Seq(Tasks) /\ posts[p] \in Nat
  BY <1>1, <1>2, TasksOf DEF TypeOK, Named
<1> HIDE DEF t
<1>4. \A n \in 1 .. Len(enqueued) : Earlier(enqueued[n], t)
  <2>1. SUFFICES ASSUME NEW n \in 1 .. Len(enqueued), enqueued[n].id[1] = p
                 PROVE  enqueued[n].id[2] < posts[p]
    BY <1>3 DEF Earlier
  <2>2. Settled(enqueued[n].id) /\ enqueued[n].id[2] \in Nat
    BY <1>1, TasksOf, IdsAre DEF Named
  <2>3. QED
    BY <1>2, <1>3, <2>1, <2>2 DEF Settled, SettledIn
<1>5. CASE ~concurrent
  BY <1>2, <1>3, <1>4, <1>5, AppendAscends DEF Orders
<1>6. CASE concurrent
  <2> DEFINE c == buffer[0]
  <2>1. index = 0 /\ c \in Seq(Tasks)
    BY <1>1, <1>6, Indexes DEF Bagged
  <2>2. buffer'[0] = Append(c, t)
    BY <1>1, <1>2, <2>1 DEF TypeOK
  <2>3. /\ \A k \in 1 .. Len(executed) : Has(enqueued, executed[k])
        /\ \A i \in 1 .. Len(c) : Has(enqueued, c[i])
    BY <1>1, <1>6 DEF Bagged
  <2>4. Ascending(c) /\ \A k \in 1 .. Len(executed), i \in 1 .. Len(c) : Earlier(executed[k], c[i])
    BY <1>6 DEF Orders
  <2> HIDE DEF c
  <2>5. /\ \A k \in 1 .. Len(executed) : Earlier(executed[k], t)
        /\ \A i \in 1 .. Len(c) : Earlier(c[i], t)
    BY <1>4, <2>3 DEF Has
  <2>6. Ascending(buffer'[0])
    BY <1>3, <2>1, <2>2, <2>4, <2>5, AppendAscends
  <2>7. \A i \in 1 .. Len(buffer'[0]) :
            (i \in 1 .. Len(c) /\ buffer'[0][i] = c[i]) \/ buffer'[0][i] = t
    BY <1>3, <2>1, <2>2, AppendProperties, LenProperties
  <2>8. \A k \in 1 .. Len(executed), i \in 1 .. Len(buffer'[0]) : Earlier(executed[k], buffer'[0][i])
    BY <2>4, <2>5, <2>7
  <2>9. Ascending(executed)
    BY <1>6 DEF Orders
  <2>10. QED
    BY <1>2, <1>6, <2>6, <2>8, <2>9 DEF Orders
<1>7. QED
  BY <1>5, <1>6

\* The oldest of a producer runs first.
LEMMA DequeueOrders ==
    ASSUME IInv, Orders, DequeueOneTask
    PROVE  Orders'
<1> DEFINE s == buffer[0]
<1>1. TypeOK /\ Phases /\ Bagged /\ concurrent
  BY DEF IInv, DequeueOneTask
<1>2. running = 0
  BY <1>1 DEF Phases, Bagged, DequeueOneTask
<1>3. PICK i \in 1 .. Len(s) : /\ Oldest(s, i) /\ Run(s[i])
                               /\ buffer' = [buffer EXCEPT ![0] = RemoveAt(s, i)]
  BY <1>2 DEF DequeueOneTask
<1> DEFINE t == s[i]
           w == RemoveAt(s, i)
<1>4. executed' = Append(executed, t) /\ concurrent' = concurrent /\ enqueued' = enqueued
  BY <1>3 DEF Run, placeVars
<1>5. s \in Seq(Tasks) /\ t \in Tasks /\ executed \in Seq(Tasks) /\ Len(s) \in Nat
  <2>1. s \in Seq(Tasks) /\ executed \in Seq(Tasks)
    BY <1>1, <1>2 DEF TypeOK
  <2>2. QED
    BY <2>1, ElementOfSeq, LenProperties
<1>6. NoRepeat(s) /\ Ascending(s) /\ Ascending(executed)
  BY <1>1 DEF Bagged, Orders
<1>7. \A k \in 1 .. Len(executed), j \in 1 .. Len(s) : Earlier(executed[k], s[j])
  BY <1>1 DEF Orders
<1>8. (\A u : Has(w, u) => Has(s, u)) /\ ~Has(w, t) /\ Ascending(w)
  BY <1>5, <1>6, Without
<1>9. buffer'[0] = w
  BY <1>1, <1>3 DEF TypeOK
<1>10. \A j \in 1 .. Len(s) : j # i => Earlier(t, s[j])
  BY <1>3, <1>5, <1>6 DEF Oldest, Ascending, Earlier
<1> HIDE DEF s, t, w
<1>11. \A j \in 1 .. Len(w) : Has(w, w[j])
  BY DEF Has
<1>12. \A j \in 1 .. Len(w) : \E x \in 1 .. Len(s) : w[j] = s[x] /\ x # i
  BY <1>8, <1>11 DEF Has, t
<1>13. Ascending(executed')
  <2>1. \A k \in 1 .. Len(executed) : Earlier(executed[k], t)
    BY <1>7 DEF t
  <2>2. QED
    BY <1>4, <1>5, <1>6, <2>1, AppendAscends
<1>14. \A k \in 1 .. Len(executed') :
           (k \in 1 .. Len(executed) /\ executed'[k] = executed[k]) \/ executed'[k] = t
  BY <1>4, <1>5, AppendProperties, LenProperties
<1>15. \A k \in 1 .. Len(executed'), j \in 1 .. Len(w) : Earlier(executed'[k], w[j])
  BY <1>7, <1>10, <1>12, <1>14
<1>16. QED
  BY <1>1, <1>4, <1>8, <1>9, <1>13, <1>15 DEF Orders

\* Every other step moves no task of a concurrent queue and queues none.
LEMMA OthersOrder ==
    ASSUME IInv, Orders, [Next]_vars,
           ~DequeueOneTask, \A p \in Producers : ~PostEnqueue(p)
    PROVE  Orders'
<1>1. CASE EndDrain
  <2>1. concurrent => running = 0 /\ buffer'[0] = <<>>
    BY <1>1, Indexes DEF IInv, TypeOK, Phases, Bagged, EndDrain, Cleared, Draining
  <2>2. concurrent' = concurrent /\ enqueued' = enqueued /\ executed' = executed
    BY <1>1 DEF EndDrain, placeVars
  <2>3. QED
    BY <2>1, <2>2, EmptySeq DEF Orders, Ascending
<1>2. CASE RunOneTask
  BY <1>2 DEF RunOneTask, Run, placeVars, Orders, Ascending
<1>3. CASE ~EndDrain /\ ~RunOneTask
  <2>1. /\ concurrent' = concurrent /\ enqueued' = enqueued /\ executed' = executed
        /\ buffer' = buffer
    <3>1. CASE \E p \in Producers : PostCheck(p) \/ PostWake(p)
      BY <3>1 DEF PostCheck, PostWake, loopVars, placeVars, drainVars, queueVars
    <3>2. CASE \E st \in Stoppers : Stop(st)
      BY <3>2 DEF Stop, StopCheck, StopWait, StopSend, StopJoin, StopGoes, loopVars, placeVars,
                  drainVars, queueVars
    <3>3. CASE LoopNew \/ LoopReady \/ TaskCallback \/ FinalSwap
      BY <3>3 DEF LoopNew, LoopReady, TaskCallback, FinalSwap, Swap, placeVars, drainVars, queueVars
    <3>4. CASE StopCallback \/ CleanAll \/ LoopEnd \/ TimerFires
      BY <3>4 DEF StopCallback, CleanAll, LoopEnd, TimerFires, placeVars, drainVars, queueVars
    <3>5. CASE Quiet \/ UNCHANGED vars
      BY <3>5 DEF Quiet, vars, loopVars, placeVars, drainVars, queueVars
    <3>6. QED
      BY <1>3, <3>1, <3>2, <3>3, <3>4, <3>5 DEF Next, Post, LoopStep
  <2>2. QED
    BY <2>1 DEF Orders, Ascending
<1>4. QED
  BY <1>1, <1>2, <1>3

\* The order holds in every reachable state.
THEOREM OrderInvariance == Spec => []Orders
<1>1. Init => Orders
  BY EmptySeq DEF Init, Orders, Ascending
<1>2. IInv /\ Orders /\ [Next]_vars => Orders'
  BY EnqueueOrders, DequeueOrders, OthersOrder
<1>3. QED
  BY <1>1, <1>2, Invariance, PTL DEF Spec

\* A task runs at most once and was queued; the two-buffer pool runs tasks in the order
\* of the queue, and both pools run those of a producer in the order it posted them,
\* whatever posts, drains and stops come between.
THEOREM OnceInOrder == Spec => []ExecutedInOrder
<1>1. IInv /\ Orders => ExecutedInOrder
  <2>1. SUFFICES ASSUME IInv, Orders PROVE ExecutedInOrder
    OBVIOUS
  <2>2. TypeOK /\ Lined /\ Bagged /\ Named
    BY <2>1 DEF IInv
  <2>3. /\ executed \in Seq(Tasks) /\ enqueued \in Seq(Tasks) /\ Len(executed) \in Nat
        /\ DOMAIN executed = 1 .. Len(executed)
    BY <2>2, LenProperties DEF TypeOK
  <2>4. CASE concurrent
    <3>1. IsInjective(executed)
      BY <2>2, <2>3, <2>4 DEF Bagged, IsInjective, NoRepeat
    <3>2. \A k \in 1 .. Len(executed) : Has(enqueued, executed[k])
      BY <2>2, <2>4 DEF Bagged
    <3>3. ToSet(executed) \subseteq ToSet(enqueued)
      <4>1. \A t : Has(executed, t) => Has(enqueued, t)
        BY <3>2 DEF Has
      <4>2. QED
        BY <2>3, <4>1, MoreElements
    <3>4. InProducerOrder(executed)
      BY <2>1, <2>4 DEF Orders, Ascending, Earlier, InProducerOrder
    <3>5. QED
      BY <2>4, <3>1, <3>3, <3>4 DEF ExecutedInOrder
  <2>5. CASE ~concurrent
    <3>1. /\ \A k \in 1 .. Len(executed) : k \in 1 .. Len(enqueued) /\ executed[k] = enqueued[k]
          /\ Len(executed) <= Len(enqueued) /\ Len(enqueued) \in Nat
      <4>1. /\ Len(Left) \in Nat /\ Len(buffer[index]) \in Nat
            /\ Len(enqueued) = Len(executed) + Len(Left) + Len(buffer[index])
            /\ \A k \in 1 .. Len(executed) : k \in 1 .. Len(enqueued) /\ executed[k] = enqueued[k]
        BY <2>2, <2>5, RunIsFirst
      <4>2. Len(enqueued) \in Nat
        BY <2>3, LenProperties
      <4>3. Len(executed) <= Len(enqueued)
        <5> DEFINE a == Len(executed)  b == Len(Left)  c == Len(buffer[index])  d == Len(enqueued)
        <5>1. a \in Nat /\ b \in Nat /\ c \in Nat /\ d = a + b + c
          BY <2>3, <4>1
        <5> HIDE DEF a, b, c, d
        <5>2. a <= d
          BY <5>1
        <5>3. QED
          BY <5>2 DEF a, d
      <4>4. QED
        BY <4>1, <4>2, <4>3
    <3>2. IsInjective(executed)
      BY <2>2, <2>3, <3>1 DEF IsInjective, Named
    <3>3. ToSet(executed) \subseteq ToSet(enqueued)
      <4>1. \A t : Has(executed, t) => Has(enqueued, t)
        BY <3>1 DEF Has
      <4>2. QED
        BY <2>3, <4>1, MoreElements
    <3>4. SubSeq(enqueued, 1, Len(executed)) = executed
      <4>1. \A i \in 1 .. Len(executed) : enqueued[i] \in Tasks
        BY <2>2, <3>1, TasksOf
      <4>2. /\ SubSeq(enqueued, 1, Len(executed)) \in Seq(Tasks)
            /\ Len(SubSeq(enqueued, 1, Len(executed))) = Len(executed)
            /\ \A i \in 1 .. Len(executed) : SubSeq(enqueued, 1, Len(executed))[i] = enqueued[i]
        BY <2>3, <4>1, SubSeqProperties
      <4>3. QED
        BY <2>3, <3>1, <4>2, SeqEqual
    <3>5. SubSeq(executed, 1, Len(executed)) = executed
      BY <2>3, SubSeqFull
    <3>6. InProducerOrder(executed)
      BY <2>1, <2>5, <3>1 DEF Orders, Ascending, Earlier, InProducerOrder
    <3>7. QED
      BY <3>1, <3>2, <3>3, <3>4, <3>5, <3>6 DEF ExecutedInOrder, IsPrefix
  <2>6. QED
    BY <2>4, <2>5
<1>2. QED
  BY <1>1, Invariance, OrderInvariance, PTL
=============================================================================
