--------------------------- MODULE RouterV1Proofs ---------------------------
(***************************************************************************)
(* Safety of the first router for any gateways, limits and sizes of a      *)
(* batch: the rate towards a wss gateway stays limited, and the order of a *)
(* source is kept, over sends, flushes by a post or the shared timer, and  *)
(* reconnects.                                                             *)
(***************************************************************************)
EXTENDS RouterV1, SequenceTheorems, TLAPS

TaskSet == [kind : {"message"}, msg : Messages] \cup [kind : {"flush"}, to : Gateways]

-----------------------------------------------------------------------------
(* Cutting and joining queues *)

Prefix(q, n) == SubSeq(q, 1, n)
Suffix(q, n) == SubSeq(q, n + 1, Len(q))

\* The front of a queue and the rest are queues.
LEMMA Split ==
    ASSUME NEW S, NEW q \in Seq(S), NEW n \in 0 .. Len(q)
    PROVE  /\ Prefix(q, n) \in Seq(S) /\ Len(Prefix(q, n)) = n
           /\ Suffix(q, n) \in Seq(S) /\ Len(Suffix(q, n)) = Len(q) - n
<1>1. Len(q) \in Nat /\ n \in Int /\ \A i \in 1 .. Len(q) : q[i] \in S
  BY LenProperties, ElementOfSeq
<1>2. \A i \in 1 .. n : q[i] \in S
  BY <1>1
<1>3. \A i \in n + 1 .. Len(q) : q[i] \in S
  BY <1>1
<1>4. Prefix(q, n) \in Seq(S) /\ Len(Prefix(q, n)) = n
  BY <1>1, <1>2, SubSeqProperties DEF Prefix
<1>5. Suffix(q, n) \in Seq(S) /\ Len(Suffix(q, n)) = Len(q) - n
  BY <1>1, <1>3, SubSeqProperties DEF Suffix
<1>6. QED
  BY <1>4, <1>5

\* Appending one part to a history keeps its type and adds the lengths.
LEMMA Joined ==
    ASSUME NEW S, NEW s \in Seq(S), NEW t \in Seq(S)
    PROVE  s \o t \in Seq(S) /\ Len(s \o t) = Len(s) + Len(t)
BY ConcatProperties

\* Losing messages at the front keeps the order of those that follow.
LEMMA OrderWithoutMiddle ==
    ASSUME NEW s \in Seq(Messages), NEW t \in Seq(Messages), NEW d \in 0 .. Len(t), InOrder(s \o t)
    PROVE  /\ InOrder(s \o Suffix(t, d))
           /\ \A i \in 1 .. Len(s \o Suffix(t, d)) :
                  \E j \in 1 .. Len(s \o t) : (s \o Suffix(t, d))[i] = (s \o t)[j]
<1> DEFINE k == Len(s)  l == Len(t)  r == Suffix(t, d)  u == s \o t  v == s \o r
           old(i) == IF i <= k THEN i ELSE i + d
<1>1. k \in Nat /\ l \in Nat /\ d \in Nat /\ d <= l /\ r \in Seq(Messages) /\ Len(r) = l - d
  BY LenProperties, Split
<1>2. \A i \in 1 .. l - d : r[i] = t[d + i]
  <2>1. \A i \in 1 .. l : t[i] \in Messages
    BY ElementOfSeq
  <2>2. \A i \in d + 1 .. l : t[i] \in Messages
    BY <1>1, <2>1
  <2>3. \A i \in 1 .. l - (d + 1) + 1 : r[i] = t[(d + 1) + i - 1]
    BY <1>1, <2>2, SubSeqProperties DEF Suffix
  <2> HIDE DEF r
  <2>4. QED
    BY <1>1, <2>3
<1>3. /\ Len(u) = k + l
      /\ \A i \in 1 .. k + l : u[i] = IF i <= k THEN s[i] ELSE t[i - k]
  BY ConcatProperties
<1> HIDE DEF r
<1>4. /\ Len(v) = k + (l - d)
      /\ \A i \in 1 .. k + (l - d) : v[i] = IF i <= k THEN s[i] ELSE r[i - k]
  <2>1. /\ Len(v) = Len(s) + Len(r)
        /\ \A i \in 1 .. Len(s) + Len(r) : v[i] = IF i <= Len(s) THEN s[i] ELSE r[i - Len(s)]
    BY <1>1, ConcatProperties
  <2>2. Len(r) = l - d
    BY <1>1
  <2>3. QED
    BY <2>1, <2>2
<1> HIDE DEF u, v, k, l
<1>5. \A i \in 1 .. Len(v) : old(i) \in 1 .. Len(u) /\ v[i] = u[old(i)]
  <2>1. SUFFICES ASSUME NEW i \in 1 .. Len(v)
                 PROVE  old(i) \in 1 .. Len(u) /\ v[i] = u[old(i)]
    OBVIOUS
  <2>2. CASE i <= k
    <3>1. i \in 1 .. k + l /\ i \in 1 .. k + (l - d) /\ old(i) = i
      BY <1>1, <1>4, <2>2
    <3>2. QED
      BY <1>3, <1>4, <2>2, <3>1
  <2>3. CASE i > k
    <3>1. i - k \in 1 .. l - d /\ i + d \in 1 .. k + l /\ i + d > k
          /\ d + (i - k) = (i + d) - k /\ old(i) = i + d
      BY <1>1, <1>4, <2>3
    <3>2. v[i] = r[i - k] /\ u[i + d] = t[(i + d) - k] /\ r[i - k] = t[d + (i - k)]
      BY <1>1, <1>2, <1>3, <1>4, <2>3, <3>1
    <3>3. QED
      BY <1>3, <2>3, <3>1, <3>2
  <2>4. QED
    BY <1>1, <1>4, <2>2, <2>3
<1>6. \A i, j \in 1 .. Len(v) : i < j => old(i) < old(j)
  BY <1>1, <1>4
<1> HIDE DEF old
<1>7. InOrder(v)
  <2>1. InOrder(u)
    BY DEF u
  <2>2. QED
    BY <1>5, <1>6, <2>1 DEF InOrder
<1>8. QED
  BY <1>5, <1>7 DEF u, v, r

\* Appending to a queue appends to what it is joined to.
LEMMA JoinedAppend ==
    ASSUME NEW s \in Seq(Messages), NEW q \in Seq(Messages), NEW msg \in Messages
    PROVE  s \o Append(q, msg) = Append(s \o q, msg)
<1>1. s \o q \in Seq(Messages) /\ <<msg>> \in Seq(Messages)
  BY ConcatProperties
<1>2. Append(q, msg) = q \o <<msg>> /\ Append(s \o q, msg) = (s \o q) \o <<msg>>
  BY <1>1, AppendIsConcat
<1>3. (s \o q) \o <<msg>> = s \o (q \o <<msg>>)
  BY <1>1, ConcatAssociative
<1>4. QED
  BY <1>2, <1>3

\* A message behind a route, in the order of its source, may be appended to it.
LEMMA OrderWithOneMore ==
    ASSUME NEW s \in Seq(Messages), NEW q \in Seq(Messages), NEW msg \in Messages,
           InOrder(s \o q), Behind(s \o q, msg)
    PROVE  /\ InOrder(s \o Append(q, msg))
           /\ \A later : later.from # msg.from \/ msg.id < later.id =>
                  (Behind(s \o q, later) => Behind(s \o Append(q, msg), later))
<1> DEFINE u == s \o q  v == s \o Append(q, msg)
<1>1. v = Append(u, msg)
  BY JoinedAppend
<1>2. /\ Len(u) \in Nat /\ Len(v) = Len(u) + 1 /\ v[Len(u) + 1] = msg
      /\ \A i \in 1 .. Len(u) : v[i] = u[i]
  <2>1. u \in Seq(Messages)
    BY ConcatProperties
  <2> HIDE DEF u, v
  <2>2. QED
    BY <1>1, <2>1, AppendProperties, LenProperties
<1>3. InOrder(u) /\ Behind(u, msg)
  OBVIOUS
<1> HIDE DEF u, v
<1>4. InOrder(v)
  <2>1. SUFFICES ASSUME NEW i \in 1 .. Len(v), NEW j \in 1 .. Len(v), i < j,
                        v[i].from = v[j].from
                 PROVE  v[i].id < v[j].id
    BY DEF InOrder
  <2>2. i \in 1 .. Len(u) /\ v[i] = u[i]
    BY <1>2, <2>1
  <2>3. CASE j \in 1 .. Len(u)
    BY <1>2, <1>3, <2>1, <2>2, <2>3 DEF InOrder
  <2>4. CASE j = Len(u) + 1
    BY <1>2, <1>3, <2>1, <2>2, <2>4 DEF Behind
  <2>5. QED
    BY <1>2, <2>3, <2>4
<1>5. ASSUME NEW later, later.from # msg.from \/ msg.id < later.id, Behind(u, later)
      PROVE  Behind(v, later)
  <2>1. SUFFICES ASSUME NEW i \in 1 .. Len(v), v[i].from = later.from
                 PROVE  v[i].id < later.id
    BY DEF Behind
  <2>2. CASE i \in 1 .. Len(u)
    <3>1. v[i] = u[i]
      BY <1>2, <2>2
    <3>2. QED
      BY <1>5, <2>1, <2>2, <3>1 DEF Behind
  <2>3. CASE i = Len(u) + 1
    BY <1>2, <1>5, <2>1, <2>3
  <2>4. QED
    BY <1>2, <2>2, <2>3
<1>6. InOrder(s \o Append(q, msg))
  BY <1>4 DEF v
<1>7. ASSUME NEW later, later.from # msg.from \/ msg.id < later.id, Behind(s \o q, later)
      PROVE  Behind(s \o Append(q, msg), later)
  <2>1. Behind(u, later)
    BY <1>7 DEF u
  <2>2. Behind(v, later)
    BY <1>5, <1>7, <2>1
  <2>3. QED
    BY <2>2 DEF v
<1>8. QED
  BY <1>6, <1>7

-----------------------------------------------------------------------------
(* The messages posted to a loop *)

Carried(q) == {q[i].msg : i \in {j \in 1 .. Len(q) : q[j].kind = "message"}}

\* Those of one source are in its order.
Lined(q) ==
    \A i, j \in 1 .. Len(q) :
        /\ i < j /\ q[i].kind = "message" /\ q[j].kind = "message"
        /\ q[i].msg.from = q[j].msg.from
        => q[i].msg.id < q[j].msg.id

\* Running the first task leaves the others in line, behind its message if it has one.
LEMMA CarriedByTail ==
    ASSUME NEW S, NEW q \in Seq(S), q # <<>>, Lined(q)
    PROVE  /\ Lined(Tail(q)) /\ Carried(Tail(q)) \subseteq Carried(q)
           /\ Head(q).kind = "message" =>
                  /\ Head(q).msg \in Carried(q)
                  /\ \A msg \in Carried(Tail(q)) :
                         Head(q).msg.from = msg.from => Head(q).msg.id < msg.id
<1> DEFINE r == Tail(q)
<1>1. /\ Len(q) \in Nat \ {0} /\ Len(r) = Len(q) - 1 /\ Head(q) = q[1]
      /\ \A i \in 1 .. Len(r) : r[i] = q[i + 1]
  BY HeadTailProperties, EmptySeq
<1> HIDE DEF r
<1>2. \A i \in 1 .. Len(r) : i + 1 \in 1 .. Len(q) /\ 1 < i + 1
  BY <1>1
<1>3. Lined(r)
  <2>1. SUFFICES ASSUME NEW i \in 1 .. Len(r), NEW j \in 1 .. Len(r), i < j,
                        r[i].kind = "message", r[j].kind = "message"
                 PROVE  r[i].msg.from = r[j].msg.from => r[i].msg.id < r[j].msg.id
    BY DEF Lined
  <2>2. /\ q[i + 1] = r[i] /\ i + 1 \in 1 .. Len(q)
        /\ q[j + 1] = r[j] /\ j + 1 \in 1 .. Len(q) /\ i + 1 < j + 1
    BY <1>1, <1>2, <2>1
  <2>3. QED
    BY <2>1, <2>2 DEF Lined
<1>4. Carried(r) \subseteq Carried(q)
  BY <1>1, <1>2 DEF Carried
<1>5. ASSUME Head(q).kind = "message"
      PROVE  /\ Head(q).msg \in Carried(q)
             /\ \A msg \in Carried(r) :
                    Head(q).msg.from = msg.from => Head(q).msg.id < msg.id
  <2>1. 1 \in 1 .. Len(q)
    BY <1>1
  <2>2. SUFFICES ASSUME NEW i \in 1 .. Len(r), r[i].kind = "message"
                 PROVE  q[1].msg.from = r[i].msg.from => q[1].msg.id < r[i].msg.id
    BY <1>1, <1>5, <2>1 DEF Carried
  <2>3. q[i + 1] = r[i] /\ i + 1 \in 1 .. Len(q) /\ 1 < i + 1
    BY <1>1, <1>2
  <2>4. QED
    BY <1>1, <1>5, <2>1, <2>2, <2>3 DEF Lined
<1>6. QED
  BY <1>3, <1>4, <1>5 DEF r

\* Posting a flush carries nothing; posting a message adds it, behind the others.
LEMMA CarriedByAppend ==
    ASSUME NEW S, NEW q \in Seq(S), NEW e \in S
    PROVE  /\ Carried(Append(q, e)) =
                  Carried(q) \cup (IF e.kind = "message" THEN {e.msg} ELSE {})
           /\ Lined(q) /\ (e.kind = "message" =>
                  \A msg \in Carried(q) : msg.from = e.msg.from => msg.id < e.msg.id)
              => Lined(Append(q, e))
<1> DEFINE r == Append(q, e)
<1>1. /\ Len(q) \in Nat /\ Len(r) = Len(q) + 1 /\ r[Len(q) + 1] = e
      /\ \A i \in 1 .. Len(q) : r[i] = q[i]
  BY AppendProperties, LenProperties
<1> HIDE DEF r
<1>2. Carried(r) = Carried(q) \cup (IF e.kind = "message" THEN {e.msg} ELSE {})
  <2>1. Carried(q) \subseteq Carried(r)
    BY <1>1 DEF Carried
  <2>2. e.kind = "message" => e.msg \in Carried(r)
    <3>1. Len(q) + 1 \in 1 .. Len(r)
      BY <1>1
    <3>2. QED
      BY <1>1, <3>1 DEF Carried
  <2>3. ASSUME NEW i \in 1 .. Len(r), r[i].kind = "message"
        PROVE  r[i].msg \in Carried(q) \cup (IF e.kind = "message" THEN {e.msg} ELSE {})
    <3>1. CASE i \in 1 .. Len(q)
      BY <1>1, <2>3, <3>1 DEF Carried
    <3>2. CASE i = Len(q) + 1
      BY <1>1, <2>3, <3>2
    <3>3. QED
      BY <1>1, <3>1, <3>2
  <2>4. QED
    BY <2>1, <2>2, <2>3 DEF Carried
<1>3. ASSUME Lined(q),
             e.kind = "message" =>
                  \A msg \in Carried(q) : msg.from = e.msg.from => msg.id < e.msg.id
      PROVE  Lined(r)
  <2>1. SUFFICES ASSUME NEW i \in 1 .. Len(r), NEW j \in 1 .. Len(r), i < j,
                        r[i].kind = "message", r[j].kind = "message"
                 PROVE  r[i].msg.from = r[j].msg.from => r[i].msg.id < r[j].msg.id
    BY DEF Lined
  <2>2. i \in 1 .. Len(q) /\ r[i] = q[i] /\ r[i].msg \in Carried(q)
    BY <1>1, <2>1 DEF Carried
  <2>3. CASE j \in 1 .. Len(q)
    BY <1>1, <1>3, <2>1, <2>2, <2>3 DEF Lined
  <2>4. CASE j = Len(q) + 1
    BY <1>1, <1>3, <2>1, <2>2, <2>4
  <2>5. QED
    BY <1>1, <2>3, <2>4
<1>4. QED
  BY <1>2, <1>3 DEF r

-----------------------------------------------------------------------------
(* The inductive invariant *)

\* A reset zeroes the history of a burst with the rate, so the rate is the burst.
RatesCounted ==
    \A g \in WssGateways : burst[g] = outRate[g] /\ outRate[g] < RateLimit + FlushBatch

\* The tasks of the loop of s flush gateways of s or carry messages of the other side,
\* of which n were received.
Addressed(q, s, n) ==
    \A i \in 1 .. Len(q) :
        \/ q[i].kind = "flush" /\ q[i].to \in Own(s)
        \/ q[i].kind = "message" /\ q[i].msg.from \in Own(Other(s)) /\ q[i].msg.id <= n
TasksAddressed == \A s \in Sides : Addressed(tasks[s], s, received)

\* Ids are given out in the order of arrival.
Known(q, n) == \A i \in 1 .. Len(q) : q[i].id <= n
IdsKnown == \A g \in Gateways : Known(Route(g), received)

\* What is posted to a loop is in line, behind what its gateways have been given.
InLine ==
    /\ \A g \in Gateways : InOrder(Route(g))
    /\ \A s \in Sides :
           /\ Lined(tasks[s])
           /\ \A msg \in Carried(tasks[s]) : \A g \in Own(s) : Behind(Route(g), msg)

Delivery == TasksAddressed /\ IdsKnown /\ InLine
IInv == TypeOK /\ RatesCounted /\ Delivery

\* Gateways have a side of their own.
LEMMA SideOfGateway ==
    /\ \A s \in Sides : Own(s) \subseteq Gateways /\ Other(s) \in Sides /\ Other(s) # s
    /\ \A s \in Sides : \A g \in Own(s) : Side(g) = s
    /\ \A g \in Gateways : Side(g) \in Sides /\ g \in Own(Side(g))
    /\ \A s \in Sides : Own(s) \cap Own(Other(s)) = {}
BY RouterV1Assumption DEF Sides, Own, Other, Side, Gateways

-----------------------------------------------------------------------------
(* The tasks of a loop *)

\* Running a task and posting a flush keep the others addressed.
LEMMA AddressedTail ==
    ASSUME NEW S, NEW q \in Seq(S), q # <<>>, NEW s, NEW n, Addressed(q, s, n)
    PROVE  Addressed(Tail(q), s, n)
<1>1. \A i \in 1 .. Len(Tail(q)) : i + 1 \in 1 .. Len(q) /\ Tail(q)[i] = q[i + 1]
  BY HeadTailProperties, LenProperties
<1>2. QED
  BY <1>1 DEF Addressed

\* A task for this side, or with a message of the other side, may be posted.
LEMMA AddressedAppend ==
    ASSUME NEW S, NEW q \in Seq(S), NEW e \in S, NEW s, NEW n, Addressed(q, s, n),
           \/ e.kind = "flush" /\ e.to \in Own(s)
           \/ e.kind = "message" /\ e.msg.from \in Own(Other(s)) /\ e.msg.id <= n
    PROVE  Addressed(Append(q, e), s, n)
<1>1. /\ Len(q) \in Nat /\ Len(Append(q, e)) = Len(q) + 1 /\ Append(q, e)[Len(q) + 1] = e
      /\ \A i \in 1 .. Len(q) : Append(q, e)[i] = q[i]
  BY AppendProperties, LenProperties
<1>2. QED
  BY <1>1 DEF Addressed

\* A later count covers what an earlier one did.
LEMMA AddressedLater ==
    ASSUME NEW q \in Seq(TaskSet), NEW s, NEW n \in Nat, Addressed(q, s, n)
    PROVE  Addressed(q, s, n + 1)
<1>1. SUFFICES ASSUME NEW i \in 1 .. Len(q), q[i].kind = "message", q[i].msg.id <= n
               PROVE  q[i].msg.id <= n + 1
  BY DEF Addressed
<1>2. q[i] \in TaskSet
  BY ElementOfSeq
<1>3. q[i].msg.id \in Nat
  BY <1>1, <1>2 DEF TaskSet, Messages
<1>4. QED
  BY <1>1, <1>3

\* A posted flush carries no message and disturbs no order.
LEMMA FlushCarriesNothing ==
    ASSUME NEW q \in Seq(TaskSet), NEW g \in Gateways
    PROVE  /\ Append(q, FlushTask(g)) \in Seq(TaskSet)
           /\ Carried(Append(q, FlushTask(g))) = Carried(q)
           /\ Lined(q) => Lined(Append(q, FlushTask(g)))
<1>1. FlushTask(g) \in TaskSet /\ FlushTask(g).kind # "message"
  BY DEF FlushTask, TaskSet
<1> DEFINE e == FlushTask(g)
<1> HIDE DEF e
<1>2. e \in TaskSet /\ e.kind # "message"
  BY <1>1 DEF e
<1>3. Append(q, e) \in Seq(TaskSet)
  BY <1>2, AppendProperties
<1>4. /\ Carried(Append(q, e)) = Carried(q) \cup (IF e.kind = "message" THEN {e.msg} ELSE {})
      /\ Lined(q) => Lined(Append(q, e))
  BY <1>2, CarriedByAppend
<1>5. QED
  BY <1>2, <1>3, <1>4 DEF e

\* What a loop's tasks carry comes from the other side and was received.
LEMMA CarriedAddressed ==
    ASSUME NEW q, NEW s, NEW n, Addressed(q, s, n), NEW msg \in Carried(q)
    PROVE  msg.from \in Own(Other(s)) /\ msg.id <= n
BY DEF Addressed, Carried

-----------------------------------------------------------------------------
(* What a send or a flush does to a queue *)

QueuesTyped ==
    /\ queue \in [Gateways -> Seq(Messages)]
    /\ \A g \in Gateways : Len(queue[g]) < QueueLimit(g)
    /\ outRate \in [WssGateways -> Nat] /\ burst \in [Gateways -> Nat]
    /\ sent \in [Gateways -> Seq(Messages)] /\ refused \in [Gateways -> BOOLEAN]
    /\ faults \in Nat

\* The route to g becomes what it was sent, and kept behind it; its loop's tasks are
\* rest, and behind them perhaps a flush.
Moves(g, kept, rest) ==
    /\ Route(g)' = sent[g] \o kept
    /\ \A h \in Gateways \ {g} : Route(h)' = Route(h)
    /\ \/ tasks' = [tasks EXCEPT ![Side(g)] = rest]
       \/ tasks' = [tasks EXCEPT ![Side(g)] = Append(rest, FlushTask(g))]

\* The trim leaves the end of a queue, below its limit.
LEMMA TrimKeepsEnd ==
    ASSUME NEW g \in Gateways, NEW q \in Seq(Messages)
    PROVE  /\ Trimmed(g, q) \in Seq(Messages) /\ Len(Trimmed(g, q)) < QueueLimit(g)
           /\ \E d \in 0 .. Len(q) : Trimmed(g, q) = Suffix(q, d)
<1> DEFINE limit == QueueLimit(g)
           d == IF Len(q) < limit THEN 0 ELSE Len(q) - limit + 1
<1>1. limit \in Nat \ {0} /\ Len(q) \in Nat
  BY RouterV1Assumption, LenProperties DEF QueueLimit
<1>2. d \in 0 .. Len(q) /\ Len(q) - d < limit
  BY <1>1
<1>3. Trimmed(g, q) = Suffix(q, d)
  BY DEF Trimmed, Below, Suffix
<1> HIDE DEF d
<1>4. Suffix(q, d) \in Seq(Messages) /\ Len(Suffix(q, d)) = Len(q) - d
  BY <1>2, Split
<1>5. QED
  BY <1>2, <1>3, <1>4

\* A queue nothing is trimmed from is its own end.
LEMMA WholeIsEnd ==
    ASSUME NEW q \in Seq(Messages)
    PROVE  0 \in 0 .. Len(q) /\ q = Suffix(q, 0)
BY SubSeqFull, LenProperties DEF Suffix

\* Joining three queues, the order of joining does not matter.
LEMMA Associative ==
    ASSUME NEW s \in Seq(Messages), NEW t \in Seq(Messages), NEW u \in Seq(Messages)
    PROVE  (s \o t) \o u = s \o (t \o u)
BY ConcatAssociative

\* The parts of a batch, joined to what was sent, are the route again.
LEMMA BatchJoined ==
    ASSUME NEW s \in Seq(Messages), NEW kept \in Seq(Messages), NEW n \in 0 .. Len(kept)
    PROVE  /\ SubSeq(kept, 1, n) \in Seq(Messages)
           /\ SubSeq(kept, n + 1, Len(kept)) \in Seq(Messages)
           /\ Len(SubSeq(kept, n + 1, Len(kept))) = Len(kept) - n
           /\ (s \o SubSeq(kept, 1, n)) \o SubSeq(kept, n + 1, Len(kept)) = s \o kept
<1> DEFINE a == SubSeq(kept, 1, n)  b == SubSeq(kept, n + 1, Len(kept))
<1>1. a \in Seq(Messages) /\ b \in Seq(Messages) /\ Len(b) = Len(kept) - n
  BY Split DEF Prefix, Suffix
<1>2. a \o b = kept
  <2>1. Len(kept) \in Nat
    BY LenProperties
  <2>2. 1 \in 1 .. Len(kept) + 1 /\ n \in 1 - 1 .. Len(kept) /\ Len(kept) \in n .. Len(kept)
    BY <2>1
  <2>3. SubSeq(kept, 1, n) \o SubSeq(kept, n + 1, Len(kept)) = SubSeq(kept, 1, Len(kept))
    BY <2>2, ConcatAdjacentSubSeq
  <2>4. QED
    BY <2>3, SubSeqFull
<1> HIDE DEF a, b
<1>3. (s \o a) \o b = s \o (a \o b)
  BY <1>1, Associative, Zenon
<1>4. (s \o a) \o b = s \o kept
  BY <1>2, <1>3
<1>5. QED
  BY <1>1, <1>4 DEF a, b

\* A batch is no longer than the queue, nor than it may be.
LEMMA BatchBounds ==
    ASSUME NEW q \in Seq(Messages), NEW most \in Nat, NEW n \in BatchSizes(q, most)
    PROVE  n \in 0 .. Len(q) /\ n <= most
<1>1. Len(q) \in Nat
  BY LenProperties
<1>2. QED
  BY <1>1 DEF BatchSizes

\* Transmit, whether the connection is open, over its limit or sending, moves the
\* messages of one gateway along and starts no batch over the limit.
LEMMA TransmitMoves ==
    ASSUME TypeOK, RatesCounted, NEW g \in Gateways, NEW open \in BOOLEAN,
           NEW kept \in Seq(Messages), Len(kept) < QueueLimit(g),
           NEW most \in Nat, most <= FlushBatch, NEW rest, NEW busy \in BOOLEAN,
           Transmit(g, open, kept, most, rest, busy)
    PROVE  Moves(g, kept, rest) /\ QueuesTyped' /\ RatesCounted'
<1> USE DEF TypeOK
<1>1. Len(kept) \in Nat /\ QueueLimit(g) \in Nat
  BY LenProperties, RouterV1Assumption DEF QueueLimit
<1>2. CASE ~open \/ Throttled(g, open, kept)
  <2>1. /\ queue' = [queue EXCEPT ![g] = kept] /\ sent' = sent
        /\ tasks' = [tasks EXCEPT ![Side(g)] = rest]
        /\ refused' = [refused EXCEPT ![g] = open /\ busy]
        /\ outRate' = outRate /\ faults' = faults /\ burst' = burst
    BY <1>2 DEF Transmit
  <2>2. Moves(g, kept, rest)
    BY <2>1 DEF Moves, Route
  <2>3. refused' \in [Gateways -> BOOLEAN]
    BY <2>1
  <2>4. /\ queue' \in [Gateways -> Seq(Messages)]
        /\ \A h \in Gateways : Len(queue'[h]) < QueueLimit(h)
    BY <2>1
  <2>5. QueuesTyped'
    BY <2>1, <2>3, <2>4 DEF QueuesTyped, QueueLimit
  <2>6. RatesCounted'
    BY <2>1 DEF RatesCounted
  <2>7. QED
    BY <2>2, <2>5, <2>6
<1>3. CASE open /\ ~ Throttled(g, open, kept)
  <2> DEFINE left(n) == SubSeq(kept, n + 1, Len(kept))
  <2>1. PICK n \in BatchSizes(kept, most) :
            /\ queue' = [queue EXCEPT ![g] = left(n)]
            /\ sent' = [sent EXCEPT ![g] = @ \o SubSeq(kept, 1, n)]
            /\ burst' = [burst EXCEPT ![g] = @ + n]
            /\ outRate' = RateAfter(g, n)
            /\ faults' = IF n < Len(kept) /\ n < most THEN faults + 1 ELSE faults
            /\ tasks' = [tasks EXCEPT ![Side(g)] = AfterBatch(g, left(n), rest)]
            /\ refused' = [refused EXCEPT ![g] = FALSE]
    BY <1>3 DEF Transmit
  <2>2. n \in 0 .. Len(kept) /\ n \in Nat /\ n <= most
    BY <1>1, BatchBounds
  <2>3. /\ SubSeq(kept, 1, n) \in Seq(Messages) /\ left(n) \in Seq(Messages)
        /\ Len(left(n)) = Len(kept) - n
        /\ (sent[g] \o SubSeq(kept, 1, n)) \o left(n) = sent[g] \o kept
    BY <2>2, BatchJoined
  <2> DEFINE out == sent[g] \o SubSeq(kept, 1, n)
  <2>4. out \in Seq(Messages)
    BY <2>3, ConcatProperties
  <2>5. sent' = [sent EXCEPT ![g] = out]
    BY <2>1
  <2> HIDE DEF left, out
  <2>6. Moves(g, kept, rest)
    <3>1. Route(g)' = sent[g] \o kept
      BY <2>1, <2>3, <2>5 DEF Route, out
    <3>2. \A h \in Gateways \ {g} : Route(h)' = Route(h)
      BY <2>1, <2>5 DEF Route
    <3>3. QED
      BY <2>1, <3>1, <3>2 DEF Moves, AfterBatch
  <2>7. /\ queue' \in [Gateways -> Seq(Messages)] /\ sent' \in [Gateways -> Seq(Messages)]
        /\ \A h \in Gateways : Len(queue'[h]) < QueueLimit(h)
    <3>1. Len(left(n)) < QueueLimit(g)
      BY <1>1, <2>2, <2>3
    <3>2. QED
      BY <2>1, <2>3, <2>4, <2>5, <3>1
  <2>8. refused' \in [Gateways -> BOOLEAN] /\ faults' \in Nat
    BY <2>1
  <2>9. burst' \in [Gateways -> Nat]
    BY <2>1, <2>2
  <2>10. outRate' \in [WssGateways -> Nat]
    BY <2>1, <2>2 DEF RateAfter
  <2>11. QueuesTyped'
    BY <2>7, <2>8, <2>9, <2>10 DEF QueuesTyped, QueueLimit
  <2>12. RatesCounted'
    <3>1. SUFFICES ASSUME NEW h \in WssGateways
                   PROVE  burst'[h] = outRate'[h] /\ outRate'[h] < RateLimit + FlushBatch
      BY DEF RatesCounted
    <3>2. h \in Gateways /\ burst[h] = outRate[h] /\ outRate[h] < RateLimit + FlushBatch
      BY DEF RatesCounted, Gateways
    <3>3. CASE h # g
      BY <2>1, <3>2, <3>3 DEF RateAfter
    <3>4. CASE h = g
      <4>1. burst'[h] = outRate[h] + n /\ outRate'[h] = outRate[h] + n
        BY <2>1, <3>2, <3>4 DEF RateAfter
      <4>2. CASE kept = <<>>
        <5>1. n = 0
          BY <2>2, <4>2
        <5>2. QED
          BY <3>2, <4>1, <5>1
      <4>3. CASE kept # <<>>
        <5>1. outRate[h] < RateLimit
          BY <1>3, <3>4, <4>3, RouterV1Assumption DEF Throttled
        <5>2. n <= FlushBatch /\ n \in Nat /\ RateLimit \in Nat /\ FlushBatch \in Nat
          BY <1>1, <2>2, RouterV1Assumption
        <5>3. outRate[h] \in Nat
          BY <3>2, <3>4 DEF QueuesTyped
        <5>4. outRate[h] + n < RateLimit + FlushBatch
          BY <5>1, <5>2, <5>3
        <5>5. QED
          BY <4>1, <5>4
      <4>4. QED
        BY <4>2, <4>3
    <3>5. QED
      BY <3>3, <3>4
  <2>13. QED
    BY <2>6, <2>11, <2>12
<1>4. QED
  BY <1>2, <1>3

\* The end of q is kept, and sent on as far as it goes.
Serves(g, q, rest) == \E d \in 0 .. Len(q) : Moves(g, Suffix(q, d), rest)

\* Only a wss gateway is over its limit, so only one takes the timer.
LEMMA ArmKeepsType ==
    ASSUME TypeOK, NEW g, NEW open, NEW kept, Arm(g, open, kept)
    PROVE  flushTimer' \in WssGateways \cup {NoGateway}
BY DEF TypeOK, Arm, Throttled

\* A delivered message is queued behind the others, and the queue served.
LEMMA DeliverServes ==
    ASSUME TypeOK, RatesCounted, NEW msg \in Messages, msg.to \in Gateways,
           NEW rest, Deliver(msg, rest)
    PROVE  /\ Serves(msg.to, Append(queue[msg.to], msg), rest)
           /\ QueuesTyped' /\ RatesCounted'
           /\ flushTimer' \in WssGateways \cup {NoGateway}
<1> DEFINE g == msg.to
           open == link[g] = "open"
           q == Append(queue[g], msg)
           kept == Trimmed(g, q)
<1>1. /\ Transmit(g, open, kept, SendBatch, rest, OthersTimer(g)) /\ Arm(g, open, kept)
      /\ OthersTimer(g) \in BOOLEAN
  BY DEF Deliver, OthersTimer
<1>2. q \in Seq(Messages)
  BY AppendProperties DEF TypeOK
<1> HIDE DEF q
<1>3. /\ kept \in Seq(Messages) /\ Len(kept) < QueueLimit(g)
      /\ \E d \in 0 .. Len(q) : kept = Suffix(q, d)
  BY <1>2, TrimKeepsEnd
<1>4. SendBatch \in Nat /\ SendBatch <= FlushBatch /\ open \in BOOLEAN
  BY RouterV1Assumption
<1> HIDE DEF kept, open
<1>5. Moves(g, kept, rest) /\ QueuesTyped' /\ RatesCounted'
  BY <1>1, <1>3, <1>4, TransmitMoves
<1>6. QED
  BY <1>1, <1>3, <1>5, ArmKeepsType DEF Serves, q

\* So is a flushed one as it is, with its trim or without.
LEMMA TransmitServes ==
    ASSUME TypeOK, RatesCounted, NEW g \in Gateways, NEW open \in BOOLEAN, NEW rest,
           NEW busy \in BOOLEAN,
           Transmit(g, open, ToFlush(g, open), FlushBatch, rest, busy)
    PROVE  Serves(g, queue[g], rest) /\ QueuesTyped' /\ RatesCounted'
<1> DEFINE kept == ToFlush(g, open)
<1>1. queue[g] \in Seq(Messages) /\ Len(queue[g]) < QueueLimit(g)
  BY DEF TypeOK
<1>2. /\ kept \in Seq(Messages) /\ Len(kept) < QueueLimit(g)
      /\ \E d \in 0 .. Len(queue[g]) : kept = Suffix(queue[g], d)
  BY <1>1, TrimKeepsEnd, WholeIsEnd DEF ToFlush
<1> HIDE DEF kept
<1>3. FlushBatch \in Nat /\ FlushBatch <= FlushBatch
  BY RouterV1Assumption
<1>4. Moves(g, kept, rest) /\ QueuesTyped' /\ RatesCounted'
  BY <1>2, <1>3, TransmitMoves DEF kept
<1>5. QED
  BY <1>2, <1>4 DEF Serves

\* The flush handlers, which may also take the timer.
LEMMA FlushServes ==
    ASSUME TypeOK, RatesCounted, NEW g \in Gateways, NEW open \in BOOLEAN, NEW rest,
           Flush(g, open, rest)
    PROVE  /\ Serves(g, queue[g], rest) /\ QueuesTyped' /\ RatesCounted'
           /\ flushTimer' \in WssGateways \cup {NoGateway}
<1>1. OthersTimer(g) \in BOOLEAN
  BY DEF OthersTimer
<1>2. QED
  BY <1>1, TransmitServes, ArmKeepsType DEF Flush

-----------------------------------------------------------------------------
(* Order and ids *)

\* The tasks stay of their type when a loop's are replaced.
LEMMA TasksTyped ==
    ASSUME TypeOK, NEW g \in Gateways, NEW q, NEW rest \in Seq(TaskSet), Serves(g, q, rest)
    PROVE  tasks' \in [Sides -> Seq(TaskSet)]
<1>1. Append(rest, FlushTask(g)) \in Seq(TaskSet) /\ Side(g) \in Sides
  BY FlushCarriesNothing, SideOfGateway
<1>2. QED
  BY <1>1 DEF TypeOK, TaskSet, Serves, Moves

\* Serving q, whose messages were on the route or have just joined it, leaves its route in
\* order and behind it the messages the loop still carries.
LEMMA ServedKeeps ==
    ASSUME TypeOK, Delivery, received' \in {received, received + 1},
           NEW g \in Gateways, NEW q \in Seq(Messages), NEW rest \in Seq(TaskSet),
           Addressed(rest, Side(g), received'), Lined(rest),
           Carried(rest) \subseteq Carried(tasks[Side(g)]),
           Serves(g, q, rest), InOrder(sent[g] \o q), Known(sent[g] \o q, received'),
           \A later \in Carried(rest) : Behind(sent[g] \o q, later)
    PROVE  Delivery'
<1> DEFINE s == Side(g)
<1>1. PICK d \in 0 .. Len(q) : Moves(g, Suffix(q, d), rest)
  BY DEF Serves
<1>2. s \in Sides /\ g \in Own(s) /\ sent[g] \in Seq(Messages) /\ received \in Nat
  BY SideOfGateway DEF TypeOK
<1>3. Route(g)' = sent[g] \o Suffix(q, d) /\ \A h \in Gateways \ {g} : Route(h)' = Route(h)
  BY <1>1 DEF Moves
<1> DEFINE new == sent[g] \o Suffix(q, d)  old == sent[g] \o q
<1>4. InOrder(new) /\ \A i \in 1 .. Len(new) : \E j \in 1 .. Len(old) : new[i] = old[j]
  BY <1>2, OrderWithoutMiddle
<1> HIDE DEF new, old
<1>5. /\ Known(new, received')
      /\ \A later \in Carried(rest) : Behind(new, later)
  BY <1>4 DEF Known, Behind, old
<1>6. /\ tasks' \in [Sides -> Seq(TaskSet)]
      /\ \A t \in Sides \ {s} : tasks'[t] = tasks[t]
      /\ tasks'[s] \in {rest, Append(rest, FlushTask(g))}
  BY <1>1, <1>2, TasksTyped DEF Moves, TypeOK
<1>7. /\ Carried(tasks'[s]) = Carried(rest) /\ Lined(tasks'[s])
      /\ Addressed(tasks'[s], s, received')
  <2>1. /\ Append(rest, FlushTask(g)) \in Seq(TaskSet)
        /\ Carried(Append(rest, FlushTask(g))) = Carried(rest)
        /\ Lined(Append(rest, FlushTask(g)))
    BY FlushCarriesNothing
  <2>2. Addressed(Append(rest, FlushTask(g)), s, received')
    <3>1. FlushTask(g) \in TaskSet /\ FlushTask(g).kind = "flush" /\ FlushTask(g).to \in Own(s)
      BY <1>2 DEF FlushTask, TaskSet
    <3> HIDE DEF s
    <3>2. Addressed(rest, s, received')
      BY DEF s
    <3>3. QED
      BY <3>1, <3>2, AddressedAppend
  <2>3. QED
    BY <1>6, <2>1, <2>2
<1> HIDE DEF s
<1>8. \A t \in Sides : Addressed(tasks'[t], t, received')
  <2>1. SUFFICES ASSUME NEW t \in Sides, t # s
                 PROVE  Addressed(tasks[t], t, received')
    BY <1>6, <1>7
  <2>2. Addressed(tasks[t], t, received) /\ tasks[t] \in Seq(TaskSet)
    BY DEF Delivery, TasksAddressed, TypeOK, TaskSet
  <2>3. QED
    BY <1>2, <2>2, AddressedLater
<1>9. IdsKnown'
  <2>1. SUFFICES ASSUME NEW h \in Gateways, h # g
                 PROVE  Known(Route(h), received')
    BY <1>3, <1>5 DEF IdsKnown, new
  <2>2. Known(Route(h), received) /\ Route(h) \in Seq(Messages)
    BY ConcatProperties DEF Delivery, IdsKnown, TypeOK, Route
  <2>3. \A i \in 1 .. Len(Route(h)) : Route(h)[i] \in Messages
    BY <2>2, ElementOfSeq
  <2>4. QED
    BY <1>2, <2>2, <2>3 DEF Known, Messages
<1>10. InLine'
  <2>1. \A h \in Gateways : InOrder(Route(h)')
    BY <1>3, <1>4 DEF Delivery, InLine, new
  <2>2. \A t \in Sides : Lined(tasks'[t])
    BY <1>6, <1>7 DEF Delivery, InLine
  <2>3. ASSUME NEW t \in Sides, NEW msg \in Carried(tasks'[t]), NEW h \in Own(t)
        PROVE  Behind(Route(h)', msg)
    <3>1. h \in Gateways /\ Side(h) = t
      BY SideOfGateway
    <3>2. CASE h = g
      BY <1>3, <1>5, <1>7, <2>3, <3>1, <3>2 DEF s, new
    <3>3. CASE h # g
      <4>1. msg \in Carried(tasks[t])
        BY <1>6, <1>7, <2>3 DEF s
      <4>2. QED
        BY <1>3, <3>1, <3>3, <4>1 DEF Delivery, InLine
    <3>4. QED
      BY <3>2, <3>3
  <2>4. QED
    BY <2>1, <2>2, <2>3 DEF InLine
<1>11. QED
  BY <1>8, <1>9, <1>10 DEF Delivery, TasksAddressed

\* The rest of a loop's tasks while a handler runs: all of them, or all but the first.
RestOf(s, rest) == rest = tasks[s] \/ (tasks[s] # <<>> /\ rest = Tail(tasks[s]))

\* Both are as good as the tasks were.
LEMMA RestKeeps ==
    ASSUME TypeOK, Delivery, NEW s \in Sides, NEW rest, RestOf(s, rest)
    PROVE  /\ rest \in Seq(TaskSet) /\ Addressed(rest, s, received) /\ Lined(rest)
           /\ Carried(rest) \subseteq Carried(tasks[s])
<1>1. /\ tasks[s] \in Seq(TaskSet) /\ Addressed(tasks[s], s, received) /\ Lined(tasks[s])
  BY DEF TypeOK, TaskSet, Delivery, TasksAddressed, InLine
<1>2. CASE rest = tasks[s]
  BY <1>1, <1>2
<1>3. CASE tasks[s] # <<>> /\ rest = Tail(tasks[s])
  <2>1. rest \in Seq(TaskSet)
    BY <1>1, <1>3, HeadTailProperties
  <2>2. Addressed(rest, s, received)
    BY <1>1, <1>3, AddressedTail
  <2>3. Lined(rest) /\ Carried(rest) \subseteq Carried(tasks[s])
    BY <1>1, <1>3, CarriedByTail
  <2>4. QED
    BY <2>1, <2>2, <2>3
<1>4. QED
  BY <1>2, <1>3 DEF RestOf

\* A flush keeps order and ids.
LEMMA FlushedKeeps ==
    ASSUME TypeOK, Delivery, NEW g \in Gateways, NEW rest, RestOf(Side(g), rest),
           Serves(g, queue[g], rest), received' = received
    PROVE  Delivery'
<1>1. Side(g) \in Sides /\ g \in Own(Side(g)) /\ queue[g] \in Seq(Messages)
  BY SideOfGateway DEF TypeOK
<1>2. /\ rest \in Seq(TaskSet) /\ Addressed(rest, Side(g), received) /\ Lined(rest)
      /\ Carried(rest) \subseteq Carried(tasks[Side(g)])
  BY <1>1, RestKeeps
<1>3. InOrder(sent[g] \o queue[g]) /\ Known(sent[g] \o queue[g], received)
  BY DEF Delivery, InLine, IdsKnown, Route
<1>4. \A later \in Carried(rest) : Behind(sent[g] \o queue[g], later)
  BY <1>1, <1>2 DEF Delivery, InLine, Route
<1>5. QED
  BY <1>1, <1>2, <1>3, <1>4, ServedKeeps

\* A message that is behind the route and before what the loop still carries may join.
LEMMA DeliveredKeeps ==
    ASSUME TypeOK, Delivery, NEW g \in Gateways, NEW rest, RestOf(Side(g), rest),
           NEW msg \in Messages, Serves(g, Append(queue[g], msg), rest),
           received' \in {received, received + 1}, msg.id <= received',
           Behind(Route(g), msg),
           \A later \in Carried(rest) : later.from # msg.from \/ msg.id < later.id
    PROVE  Delivery'
<1> DEFINE q == Append(queue[g], msg)
<1>1. /\ Side(g) \in Sides /\ g \in Own(Side(g)) /\ queue[g] \in Seq(Messages)
      /\ sent[g] \in Seq(Messages) /\ received \in Nat
  BY SideOfGateway DEF TypeOK
<1>2. /\ rest \in Seq(TaskSet) /\ Addressed(rest, Side(g), received) /\ Lined(rest)
      /\ Carried(rest) \subseteq Carried(tasks[Side(g)])
  BY <1>1, RestKeeps
<1>3. Addressed(rest, Side(g), received')
  BY <1>1, <1>2, AddressedLater
<1>4. q \in Seq(Messages)
  BY <1>1, AppendProperties
<1>5. /\ InOrder(sent[g] \o q)
      /\ \A later : later.from # msg.from \/ msg.id < later.id =>
             (Behind(sent[g] \o queue[g], later) => Behind(sent[g] \o q, later))
  <2>1. InOrder(sent[g] \o queue[g]) /\ Behind(sent[g] \o queue[g], msg)
    BY DEF Delivery, InLine, Route
  <2>2. QED
    BY <1>1, <2>1, OrderWithOneMore
<1>6. \A later \in Carried(rest) : Behind(sent[g] \o q, later)
  <2>1. \A later \in Carried(rest) : Behind(sent[g] \o queue[g], later)
    BY <1>1, <1>2 DEF Delivery, InLine, Route
  <2>2. QED
    BY <1>5, <2>1
<1>7. Known(sent[g] \o q, received')
  <2> DEFINE r == sent[g] \o queue[g]
  <2>1. r \in Seq(Messages) /\ Known(r, received)
    BY <1>1, ConcatProperties DEF Delivery, IdsKnown, Route
  <2>2. sent[g] \o q = Append(r, msg)
    BY <1>1, JoinedAppend
  <2> HIDE DEF r, q
  <2>3. \A i \in 1 .. Len(r) : r[i].id <= received'
    <3>1. \A i \in 1 .. Len(r) : r[i] \in Messages
      BY <2>1, ElementOfSeq
    <3>2. QED
      BY <1>1, <2>1, <3>1 DEF Known, Messages
  <2>4. /\ Len(Append(r, msg)) = Len(r) + 1 /\ Append(r, msg)[Len(r) + 1] = msg
        /\ \A i \in 1 .. Len(r) : Append(r, msg)[i] = r[i]
        /\ Len(r) \in Nat
    BY <2>1, AppendProperties, LenProperties
  <2>5. QED
    BY <2>2, <2>3, <2>4 DEF Known
<1> HIDE DEF q
<1>8. QED
  BY <1>2, <1>3, <1>4, <1>5, <1>6, <1>7, ServedKeeps DEF q

\* A message not yet given out is behind every route.
LEMMA NewestIsBehind ==
    ASSUME TypeOK, Delivery, NEW g \in Gateways, NEW msg, msg.id = received + 1
    PROVE  Behind(Route(g), msg)
<1>1. SUFFICES ASSUME NEW i \in 1 .. Len(Route(g))
               PROVE  Route(g)[i].id < msg.id
  BY DEF Behind
<1>2. Route(g) \in Seq(Messages) /\ received \in Nat
  BY ConcatProperties DEF TypeOK, Route
<1>3. Route(g)[i] \in Messages
  BY <1>2, ElementOfSeq
<1>4. Route(g)[i].id \in Nat /\ Route(g)[i].id <= received
  BY <1>3 DEF Delivery, IdsKnown, Known, Messages
<1>5. QED
  BY <1>2, <1>4

\* A step that moves no message and takes tasks away at most.
LEMMA QuietKeeps ==
    ASSUME TypeOK, Delivery, received' \in {received, received + 1},
           UNCHANGED <<queue, sent>>,
           \A s \in Sides : tasks'[s] = <<>> \/ RestOf(s, tasks'[s])
    PROVE  Delivery'
<1>1. \A s \in Sides : tasks'[s] \in Seq(TaskSet) /\ Addressed(tasks'[s], s, received)
                      /\ Lined(tasks'[s]) /\ Carried(tasks'[s]) \subseteq Carried(tasks[s])
  <2>1. SUFFICES ASSUME NEW s \in Sides, tasks'[s] = <<>>
                 PROVE  /\ tasks'[s] \in Seq(TaskSet) /\ Addressed(tasks'[s], s, received)
                        /\ Lined(tasks'[s]) /\ Carried(tasks'[s]) \subseteq Carried(tasks[s])
    BY RestKeeps
  <2>2. QED
    BY <2>1 DEF Addressed, Lined, Carried
<1>2. received \in Nat
  BY DEF TypeOK
<1>3. TasksAddressed'
  BY <1>1, <1>2, AddressedLater DEF TasksAddressed
<1>4. \A g \in Gateways : Route(g)' = Route(g)
  BY DEF Route
<1>5. IdsKnown'
  <2>1. SUFFICES ASSUME NEW g \in Gateways
                 PROVE  Known(Route(g), received')
    BY <1>4 DEF IdsKnown
  <2>2. Known(Route(g), received) /\ Route(g) \in Seq(Messages)
    BY ConcatProperties DEF Delivery, IdsKnown, TypeOK, Route
  <2>3. \A i \in 1 .. Len(Route(g)) : Route(g)[i] \in Messages
    BY <2>2, ElementOfSeq
  <2>4. QED
    BY <1>2, <2>2, <2>3 DEF Known, Messages
<1>6. InLine'
  <2>1. \A g \in Gateways : InOrder(Route(g)')
    BY <1>4 DEF Delivery, InLine
  <2>2. \A s \in Sides : \A msg \in Carried(tasks'[s]) : \A g \in Own(s) :
            Behind(Route(g)', msg)
    <3>1. \A s \in Sides : \A msg \in Carried(tasks[s]) : \A g \in Own(s) :
              Behind(Route(g), msg)
      BY DEF Delivery, InLine
    <3>2. SUFFICES ASSUME NEW s \in Sides, NEW msg \in Carried(tasks'[s]), NEW g \in Own(s)
                   PROVE  Behind(Route(g)', msg)
      OBVIOUS
    <3>3. g \in Gateways /\ msg \in Carried(tasks[s])
      BY <1>1, <3>2, SideOfGateway
    <3>4. QED
      BY <1>4, <3>1, <3>3
  <2>3. QED
    BY <1>1, <2>1, <2>2 DEF InLine
<1>7. QED
  BY <1>3, <1>5, <1>6 DEF Delivery

\* A message just received is posted behind all that the other loop carries.
LEMMA PostedKeeps ==
    ASSUME TypeOK, Delivery, NEW s \in Sides, NEW msg \in Messages,
           msg.id = received + 1, msg.from \in Own(Other(s)), received' = received + 1,
           UNCHANGED <<queue, sent>>, tasks' = [tasks EXCEPT ![s] = Append(@, MessageTask(msg))]
    PROVE  Delivery'
<1> DEFINE e == MessageTask(msg)
<1>1. /\ tasks \in [Sides -> Seq(TaskSet)] /\ received \in Nat
      /\ e \in TaskSet /\ e.kind = "message" /\ e.msg = msg
  BY DEF TypeOK, TaskSet, MessageTask
<1> HIDE DEF e
<1>2. /\ tasks'[s] = Append(tasks[s], e) /\ tasks[s] \in Seq(TaskSet)
      /\ \A t \in Sides \ {s} : tasks'[t] = tasks[t]
  BY <1>1 DEF e
<1>3. \A t \in Sides : Addressed(tasks[t], t, received + 1) /\ Lined(tasks[t])
  BY <1>1, AddressedLater DEF Delivery, TasksAddressed, InLine
<1>4. Addressed(tasks'[s], s, received + 1)
  BY <1>1, <1>2, <1>3, AddressedAppend
<1>5. \A other \in Carried(tasks[s]) : other.id < received + 1
  <2>1. SUFFICES ASSUME NEW i \in 1 .. Len(tasks[s]), tasks[s][i].kind = "message"
                 PROVE  tasks[s][i].msg.id < received + 1
    BY DEF Carried
  <2>2. tasks[s][i].msg.id <= received
    BY <2>1 DEF Delivery, TasksAddressed, Addressed
  <2>3. tasks[s][i] \in TaskSet
    BY <1>2, ElementOfSeq
  <2>4. tasks[s][i].msg.id \in Nat
    BY <2>1, <2>3 DEF TaskSet, Messages
  <2>5. QED
    BY <1>1, <2>2, <2>4
<1>6. /\ Carried(tasks'[s]) = Carried(tasks[s]) \cup {msg}
      /\ Lined(tasks'[s])
  <2>1. /\ Carried(Append(tasks[s], e)) =
               Carried(tasks[s]) \cup (IF e.kind = "message" THEN {e.msg} ELSE {})
        /\ Lined(tasks[s]) /\ (e.kind = "message" =>
               \A other \in Carried(tasks[s]) : other.from = e.msg.from => other.id < e.msg.id)
           => Lined(Append(tasks[s], e))
    BY <1>1, <1>2, CarriedByAppend
  <2>2. QED
    BY <1>1, <1>2, <1>3, <1>5, <2>1
<1>7. \A g \in Gateways : Route(g)' = Route(g)
  BY DEF Route
<1>8. TasksAddressed'
  BY <1>2, <1>3, <1>4 DEF TasksAddressed
<1>9. IdsKnown'
  <2>1. SUFFICES ASSUME NEW g \in Gateways
                 PROVE  Known(Route(g), received + 1)
    BY <1>7 DEF IdsKnown
  <2>2. Known(Route(g), received) /\ Route(g) \in Seq(Messages)
    BY ConcatProperties DEF Delivery, IdsKnown, TypeOK, Route
  <2>3. \A i \in 1 .. Len(Route(g)) : Route(g)[i] \in Messages
    BY <2>2, ElementOfSeq
  <2>4. QED
    BY <1>1, <2>2, <2>3 DEF Known, Messages
<1>10. InLine'
  <2>1. \A g \in Gateways : InOrder(Route(g)')
    BY <1>7 DEF Delivery, InLine
  <2>2. \A t \in Sides : Lined(tasks'[t])
    BY <1>2, <1>3, <1>6
  <2>3. ASSUME NEW t \in Sides, NEW other \in Carried(tasks'[t]), NEW g \in Own(t)
        PROVE  Behind(Route(g)', other)
    <3>1. g \in Gateways
      BY SideOfGateway
    <3>2. CASE other \in Carried(tasks[t])
      BY <1>7, <3>1, <3>2 DEF Delivery, InLine
    <3>3. CASE other = msg
      BY <1>7, <3>1, <3>3, NewestIsBehind
    <3>4. QED
      BY <1>2, <1>6, <2>3, <3>2, <3>3
  <2>4. QED
    BY <2>1, <2>2, <2>3 DEF InLine
<1>11. QED
  BY <1>8, <1>9, <1>10 DEF Delivery

-----------------------------------------------------------------------------
(* The actions *)

LinkStates == {"none", "connecting", "retry", "open", "closing"}
Phases == {"off", "created", "running", "leaving", "stopped", "crashed"}

\* The type invariant, part by part.
LEMMA TypeParts ==
    TypeOK <=> /\ phase \in [Sides -> Phases] /\ tasks \in [Sides -> Seq(TaskSet)]
               /\ flushTimer \in WssGateways \cup {NoGateway}
               /\ link \in [Gateways -> LinkStates] /\ QueuesTyped
               /\ received \in 0 .. MaxMessages /\ resets \in Nat
BY DEF TypeOK, Phases, TaskSet, LinkStates, QueuesTyped

\* A step that leaves the queues and their counters alone.
LEMMA SameQueues ==
    ASSUME TypeOK, RatesCounted, UNCHANGED queueVars, faults' \in Nat
    PROVE  QueuesTyped' /\ RatesCounted'
BY DEF TypeOK, QueuesTyped, RatesCounted, queueVars, QueueLimit

\* In the beginning nothing is there.
LEMMA InitKeeps == Init => IInv
<1>1. SUFFICES ASSUME Init
               PROVE  IInv
  OBVIOUS
<1>2. QueuesTyped
  <2>1. \A g \in Gateways : queue[g] = <<>> /\ Len(queue[g]) < QueueLimit(g)
    BY <1>1, RouterV1Assumption DEF Init, QueueLimit
  <2>2. refused \in [Gateways -> BOOLEAN]
    BY <1>1 DEF Init
  <2>3. QED
    BY <1>1, <2>1, <2>2 DEF Init, QueuesTyped
<1>3. TypeOK
  BY <1>1, <1>2, RouterV1Assumption DEF Init, TypeOK, QueuesTyped
<1>4. RatesCounted
  BY <1>1, RouterV1Assumption DEF Init, RatesCounted, Gateways
<1>5. \A g \in Gateways : Route(g) = <<>>
  BY <1>1, EmptySeq, ConcatEmptySeq DEF Init, Route
<1>6. \A s \in Sides : tasks[s] = <<>>
  BY <1>1 DEF Init
<1>7. TasksAddressed /\ IdsKnown
  BY <1>5, <1>6 DEF TasksAddressed, Addressed, IdsKnown, Known
<1>8. InLine
  BY <1>5, <1>6 DEF InLine, InOrder, Lined, Carried
<1>9. QED
  BY <1>3, <1>4, <1>7, <1>8 DEF IInv, Delivery

\* The message handlers: a message to nobody or to its source is dropped, one for this
\* side delivered, and any other posted, unless the other client is not there.
LEMMA ReceiveKeeps ==
    ASSUME IInv, NEW g \in Gateways, Receive(g)
    PROVE  IInv'
<1> DEFINE s == Side(g)
<1>1. TypeOK /\ RatesCounted /\ Delivery /\ s \in Sides /\ g \in Own(s)
  BY SideOfGateway DEF IInv
<1>2. PICK to \in Gateways \cup {Stranger, Malformed} :
          LET msg == [id |-> received + 1, from |-> g, to |-> to] IN
          CASE to \in {Malformed, g} -> UNCHANGED <<phase, tasks, flushTimer, queueVars, faults>>
            [] to \in Own(Side(g)) \ {g} -> Deliver(msg, tasks[Side(g)]) /\ UNCHANGED phase
            [] OTHER -> Post(Other(Side(g)), msg) /\ UNCHANGED <<flushTimer, queueVars, faults>>
  BY DEF Receive
<1> DEFINE msg == [id |-> received + 1, from |-> g, to |-> to]
<1>3. /\ received \in Nat /\ received' = received + 1 /\ received' \in 0 .. MaxMessages
      /\ msg \in Messages /\ msg.id = received + 1 /\ msg.from = g /\ msg.to = to
  <2>1. MaxMessages \in Nat /\ received \in 0 .. MaxMessages
    BY <1>1, RouterV1Assumption DEF TypeOK
  <2>2. received < MaxMessages /\ received' = received + 1
    BY DEF Receive
  <2>3. received + 1 \in 1 .. MaxMessages
    BY <2>1, <2>2
  <2>4. QED
    BY <2>1, <2>2, <2>3 DEF Messages
<1>4. link' = link /\ resets' = resets
  BY DEF Receive
<1>5. Malformed \notin Gateways
  BY RouterV1Assumption
<1>6. CASE to \in {Malformed, g}
  <2>1. UNCHANGED <<phase, tasks, flushTimer, queueVars, faults>>
    BY <1>1, <1>2, <1>5, <1>6, SideOfGateway
  <2>2. QueuesTyped' /\ RatesCounted'
    BY <1>1, <2>1, SameQueues DEF TypeOK
  <2>3. TypeOK'
    BY <1>1, <1>3, <1>4, <2>1, <2>2, TypeParts DEF TypeOK, QueuesTyped
  <2>4. Delivery'
    BY <1>1, <1>3, <2>1, QuietKeeps DEF queueVars, RestOf
  <2>5. QED
    BY <2>2, <2>3, <2>4 DEF IInv
<1>7. CASE to \in Own(s) \ {g}
  <2>1. Deliver(msg, tasks[s]) /\ phase' = phase
    BY <1>1, <1>2, <1>5, <1>7, SideOfGateway
  <2>2. to \in Gateways /\ Side(to) = s
    BY <1>1, <1>7, SideOfGateway
  <2> HIDE DEF msg
  <2>3. /\ Serves(to, Append(queue[to], msg), tasks[s]) /\ QueuesTyped' /\ RatesCounted'
        /\ flushTimer' \in WssGateways \cup {NoGateway}
    BY <1>1, <1>3, <2>1, <2>2, DeliverServes
  <2>4. tasks' \in [Sides -> Seq(TaskSet)]
    <3>1. tasks[s] \in Seq(TaskSet)
      BY <1>1 DEF TypeOK, TaskSet
    <3>2. QED
      BY <1>1, <2>2, <2>3, <3>1, TasksTyped
  <2>5. TypeOK'
    <3>1. phase' \in [Sides -> Phases] /\ link' \in [Gateways -> LinkStates] /\ resets' \in Nat
      BY <1>1, <1>4, <2>1 DEF TypeOK, Phases, LinkStates
    <3>2. QED
      BY <1>3, <2>3, <2>4, <3>1 DEF TypeOK, QueuesTyped, TaskSet, Phases, LinkStates
  <2>6. \A later \in Carried(tasks[s]) : later.from # msg.from
    BY <1>1, <1>3, CarriedAddressed, SideOfGateway DEF Delivery, TasksAddressed
  <2>7. Behind(Route(to), msg)
    BY <1>1, <1>3, <2>2, NewestIsBehind
  <2>8. Delivery'
    <3>1. RestOf(Side(to), tasks[s])
      BY <2>2 DEF RestOf
    <3>2. msg.id <= received' /\ received' \in {received, received + 1}
      BY <1>3
    <3>3. QED
      BY <1>1, <1>3, <2>2, <2>3, <2>6, <2>7, <3>1, <3>2, DeliveredKeeps
  <2>9. QED
    BY <2>3, <2>5, <2>8 DEF IInv
<1>8. CASE to \notin {Malformed, g} /\ to \notin Own(s) \ {g}
  <2>1. Post(Other(s), msg) /\ UNCHANGED <<flushTimer, queueVars, faults>>
    BY <1>2, <1>8
  <2>2. QueuesTyped' /\ RatesCounted'
    BY <1>1, <2>1, SameQueues DEF TypeOK
  <2>3. Other(s) \in Sides /\ Other(Other(s)) = s
    BY <1>1 DEF Sides, Other
  <2>4. \/ UNCHANGED <<tasks, phase>>
        \/ tasks' = [tasks EXCEPT ![Other(s)] = Posted(@, msg)] /\ UNCHANGED phase
        \/ phase' = [t \in Sides |-> "crashed"] /\ UNCHANGED tasks
    BY <2>1 DEF Post
  <2>5. phase' \in [Sides -> Phases]
    BY <1>1, <2>4 DEF TypeOK, Phases
  <2> HIDE DEF msg
  <2>6. tasks' \in [Sides -> Seq(TaskSet)]
    <3>1. MessageTask(msg) \in TaskSet /\ tasks \in [Sides -> Seq(TaskSet)]
      BY <1>1, <1>3 DEF MessageTask, TaskSet, TypeOK
    <3>2. \A t \in Sides : Append(tasks[t], MessageTask(msg)) \in Seq(TaskSet)
      BY <3>1, AppendProperties
    <3>3. QED
      BY <2>3, <2>4, <3>1, <3>2 DEF Posted
  <2>7. TypeOK'
    <3>1. /\ flushTimer' \in WssGateways \cup {NoGateway}
          /\ link' \in [Gateways -> LinkStates] /\ resets' \in Nat
      BY <1>1, <1>4, <2>1 DEF TypeOK, LinkStates
    <3>2. QED
      BY <1>3, <2>2, <2>5, <2>6, <3>1 DEF TypeOK, QueuesTyped, TaskSet, Phases, LinkStates
  <2>8. Delivery'
    <3>1. queue' = queue /\ sent' = sent
      BY <2>1 DEF queueVars
    <3>2. CASE tasks' = tasks
      BY <1>1, <1>3, <3>1, <3>2, QuietKeeps DEF RestOf
    <3>3. CASE tasks' = [tasks EXCEPT ![Other(s)] = Posted(@, msg)]
      BY <1>1, <1>3, <2>3, <3>1, <3>3, PostedKeeps DEF Posted
    <3>4. QED
      BY <2>4, <3>2, <3>3
  <2>9. QED
    BY <2>2, <2>7, <2>8 DEF IInv
<1>9. QED
  BY <1>6, <1>7, <1>8

\* A posted handler: a flush, a message for a gateway of this side, or one for nobody.
LEMMA RunTaskKeeps ==
    ASSUME IInv, NEW s \in Sides, RunTask(s)
    PROVE  IInv'
<1> DEFINE task == Head(tasks[s])
           rest == Tail(tasks[s])
<1>1. TypeOK /\ RatesCounted /\ Delivery
  BY DEF IInv
<1>2. /\ tasks[s] # <<>> /\ tasks[s] \in Seq(TaskSet)
      /\ UNCHANGED <<phase, link, received, resets>>
  BY <1>1 DEF RunTask, TypeOK, TaskSet
<1>3. (CASE task.kind = "flush" -> Flush(task.to, link[task.to] = "open", rest)
         [] task.kind = "message" /\ task.msg.to \in Own(s) -> Deliver(task.msg, rest)
         [] OTHER -> /\ tasks' = [tasks EXCEPT ![s] = rest]
                     /\ UNCHANGED <<flushTimer, queueVars, faults>>)
  BY DEF RunTask
<1>4. /\ task \in TaskSet /\ rest \in Seq(TaskSet) /\ RestOf(s, rest)
      /\ task = tasks[s][1] /\ 1 \in 1 .. Len(tasks[s])
  BY <1>2, HeadTailProperties, EmptySeq DEF RestOf
<1>5. \/ task.kind = "flush" /\ task.to \in Own(s)
      \/ task.kind = "message"
  BY <1>1, <1>4 DEF Delivery, TasksAddressed, Addressed
<1>6. /\ phase' \in [Sides -> Phases] /\ link' \in [Gateways -> LinkStates]
      /\ received' \in 0 .. MaxMessages /\ resets' \in Nat /\ received' = received
  BY <1>1, <1>2 DEF TypeOK, Phases, LinkStates
<1>7. ASSUME tasks' \in [Sides -> Seq(TaskSet)],
             flushTimer' \in WssGateways \cup {NoGateway}, QueuesTyped'
      PROVE  TypeOK'
  BY <1>6, <1>7 DEF TypeOK, QueuesTyped, TaskSet, Phases, LinkStates
<1>8. CASE task.kind = "flush"
  <2> DEFINE g == task.to  open == link[g] = "open"
  <2>1. Flush(g, open, rest)
    BY <1>3, <1>8
  <2>2. g \in Gateways /\ Side(g) = s /\ open \in BOOLEAN
    BY <1>5, <1>8, SideOfGateway
  <2> HIDE DEF g, open, rest
  <2>3. /\ Serves(g, queue[g], rest) /\ QueuesTyped' /\ RatesCounted'
        /\ flushTimer' \in WssGateways \cup {NoGateway}
    BY <1>1, <2>1, <2>2, FlushServes
  <2>4. TypeOK'
    BY <1>1, <1>4, <1>7, <2>2, <2>3, TasksTyped
  <2>5. Delivery'
    BY <1>1, <1>4, <1>6, <2>2, <2>3, FlushedKeeps
  <2>6. QED
    BY <2>3, <2>4, <2>5 DEF IInv
<1>9. CASE task.kind = "message" /\ task.msg.to \in Own(s)
  <2> DEFINE msg == task.msg  g == msg.to
  <2>1. Deliver(msg, rest)
    BY <1>3, <1>9
  <2>2. msg \in Messages /\ g \in Gateways /\ Side(g) = s /\ g \in Own(s)
    BY <1>4, <1>9, SideOfGateway DEF TaskSet
  <2>3. /\ msg \in Carried(tasks[s])
        /\ \A later \in Carried(rest) : msg.from = later.from => msg.id < later.id
    BY <1>1, <1>2, <1>9, CarriedByTail DEF Delivery, InLine
  <2> HIDE DEF msg, rest
  <2>4. /\ Serves(g, Append(queue[g], msg), rest) /\ QueuesTyped' /\ RatesCounted'
        /\ flushTimer' \in WssGateways \cup {NoGateway}
    BY <1>1, <2>1, <2>2, DeliverServes
  <2>5. TypeOK'
    BY <1>1, <1>4, <1>7, <2>2, <2>4, TasksTyped
  <2>6. msg.id <= received' /\ Behind(Route(g), msg)
    BY <1>1, <1>6, <2>2, <2>3, CarriedAddressed DEF Delivery, TasksAddressed, InLine
  <2>7. Delivery'
    <3>1. \A later \in Carried(rest) : later.from # msg.from \/ msg.id < later.id
      BY <2>3
    <3>2. received' \in {received, received + 1} /\ RestOf(Side(g), rest)
      BY <1>4, <1>6, <2>2
    <3> HIDE DEF g
    <3>3. QED
      BY <1>1, <2>2, <2>4, <2>6, <3>1, <3>2, DeliveredKeeps
  <2>8. QED
    BY <2>4, <2>5, <2>7 DEF IInv
<1>10. CASE task.kind = "message" /\ task.msg.to \notin Own(s)
  <2>1. /\ tasks' = [tasks EXCEPT ![s] = rest]
        /\ UNCHANGED <<flushTimer, queueVars, faults>>
    BY <1>3, <1>10
  <2>2. QueuesTyped' /\ RatesCounted'
    BY <1>1, <2>1, SameQueues DEF TypeOK
  <2>3. tasks' \in [Sides -> Seq(TaskSet)]
    BY <1>1, <1>4, <2>1 DEF TypeOK, TaskSet
  <2>4. TypeOK'
    BY <1>1, <1>7, <2>1, <2>2, <2>3 DEF TypeOK
  <2>5. Delivery'
    <3>1. \A t \in Sides : RestOf(t, tasks'[t])
      BY <1>1, <1>4, <2>1 DEF RestOf, TypeOK
    <3>2. queue' = queue /\ sent' = sent
      BY <2>1 DEF queueVars
    <3>3. QED
      BY <1>1, <1>6, <3>1, <3>2, QuietKeeps
  <2>6. QED
    BY <2>2, <2>4, <2>5 DEF IInv
<1>11. QED
  BY <1>5, <1>8, <1>9, <1>10

\* The flush of an expired timer; the timer is free behind it.
LEMMA TimerFiresKeeps ==
    ASSUME IInv, TimerFires
    PROVE  IInv'
<1> DEFINE g == flushTimer  open == link[g] = "open"
<1>1. TypeOK /\ RatesCounted /\ Delivery
  BY DEF IInv
<1>2. g \in Gateways /\ Side(g) = "wss" /\ open \in BOOLEAN /\ "wss" \in Sides
  BY <1>1, SideOfGateway, RouterV1Assumption DEF TimerFires, TypeOK, Gateways, Side, Sides
<1>3. /\ Transmit(g, open, ToFlush(g, open), FlushBatch, tasks["wss"], TRUE)
      /\ flushTimer' = NoGateway /\ UNCHANGED <<phase, link, received, resets>>
  BY DEF TimerFires
<1> HIDE DEF g, open
<1>4. Serves(g, queue[g], tasks["wss"]) /\ QueuesTyped' /\ RatesCounted'
  BY <1>1, <1>2, <1>3, TransmitServes
<1>5. tasks' \in [Sides -> Seq(TaskSet)]
  <2>1. tasks["wss"] \in Seq(TaskSet)
    BY <1>1, <1>2 DEF TypeOK, TaskSet
  <2>2. QED
    BY <1>1, <1>2, <1>4, <2>1, TasksTyped
<1>6. TypeOK'
  BY <1>1, <1>3, <1>4, <1>5 DEF TypeOK, QueuesTyped, TaskSet
<1>7. Delivery'
  BY <1>1, <1>2, <1>3, <1>4, FlushedKeeps DEF RestOf
<1>8. QED
  BY <1>4, <1>6, <1>7 DEF IInv

\* The open handler flushes what waited for the connection.
LEMMA OpenedKeeps ==
    ASSUME IInv, NEW g \in Gateways, Opened(g)
    PROVE  IInv'
<1>1. TypeOK /\ RatesCounted /\ Delivery /\ Side(g) \in Sides
  BY SideOfGateway DEF IInv
<1>2. /\ Flush(g, TRUE, tasks[Side(g)]) /\ UNCHANGED <<phase, received, resets>>
      /\ link' = [link EXCEPT ![g] = "open"]
  BY DEF Opened, Move
<1>3. /\ Serves(g, queue[g], tasks[Side(g)]) /\ QueuesTyped' /\ RatesCounted'
      /\ flushTimer' \in WssGateways \cup {NoGateway}
  BY <1>1, <1>2, FlushServes
<1>4. tasks' \in [Sides -> Seq(TaskSet)]
  <2>1. tasks[Side(g)] \in Seq(TaskSet)
    BY <1>1 DEF TypeOK, TaskSet
  <2>2. QED
    BY <1>1, <1>3, <2>1, TasksTyped
<1>5. TypeOK'
  <2>1. link' \in [Gateways -> LinkStates]
    BY <1>1, <1>2 DEF TypeOK, LinkStates
  <2>2. QED
    BY <1>1, <1>2, <1>3, <1>4, <2>1 DEF TypeOK, QueuesTyped, TaskSet, LinkStates
<1>6. Delivery'
  BY <1>1, <1>2, <1>3, FlushedKeeps DEF RestOf
<1>7. QED
  BY <1>3, <1>5, <1>6 DEF IInv

\* The reset zeroes the rates, and with them the history of the bursts.
LEMMA ResetRatesKeeps ==
    ASSUME IInv, ResetRates
    PROVE  IInv'
<1>1. TypeOK /\ RatesCounted /\ Delivery
  BY DEF IInv
<1>2. /\ outRate' \in [WssGateways -> Nat] /\ burst' \in [Gateways -> Nat]
      /\ resets' \in Nat /\ UNCHANGED <<phase, tasks, flushTimer, link, queue, sent, refused,
                                       received, faults>>
  BY <1>1 DEF ResetRates, TypeOK
<1>3. TypeOK'
  BY <1>1, <1>2 DEF TypeOK, QueueLimit
<1>4. RatesCounted'
  BY RouterV1Assumption DEF ResetRates, RatesCounted, Gateways
<1>5. Delivery'
  BY <1>1, <1>2, QuietKeeps DEF RestOf
<1>6. QED
  BY <1>3, <1>4, <1>5 DEF IInv

\* A step that moves no message and no rate, and takes away tasks at most.
LEMMA StillKeeps ==
    ASSUME IInv, UNCHANGED <<queueVars, received>>,
           flushTimer' = flushTimer, resets' = resets, faults' \in Nat,
           link' \in [Gateways -> LinkStates], phase' \in [Sides -> Phases],
           tasks' \in [Sides -> Seq(TaskSet)],
           \A s \in Sides : tasks'[s] = <<>> \/ RestOf(s, tasks'[s])
    PROVE  IInv'
<1>1. TypeOK /\ RatesCounted /\ Delivery
  BY DEF IInv
<1>2. QueuesTyped' /\ RatesCounted'
  BY <1>1, SameQueues
<1>3. TypeOK'
  BY <1>1, <1>2 DEF TypeOK, QueuesTyped, TaskSet, LinkStates, Phases
<1>4. Delivery'
  BY <1>1, QuietKeeps DEF queueVars
<1>5. QED
  BY <1>2, <1>3, <1>4 DEF IInv

\* Handshakes, losses, closes and retries.
LEMMA LinkKeeps ==
    ASSUME IInv, NEW g \in Gateways,
           HandshakeFailed(g) \/ Lost(g) \/ Closed(g) \/ RetryFires(g)
    PROVE  IInv'
<1>1. TypeOK
  BY DEF IInv
<1>2. PICK to \in LinkStates : link' = [link EXCEPT ![g] = to]
  BY DEF HandshakeFailed, Lost, Closed, RetryFires, Move, LinkStates
<1>3. link' \in [Gateways -> LinkStates]
  BY <1>1, <1>2 DEF TypeOK, LinkStates
<1>4. /\ UNCHANGED <<phase, tasks, flushTimer, queueVars, received, resets>>
      /\ faults' \in Nat
  BY <1>1 DEF HandshakeFailed, Lost, Closed, RetryFires, KeepQueues, TypeOK
<1>5. phase' \in [Sides -> Phases] /\ tasks' \in [Sides -> Seq(TaskSet)]
  BY <1>1, <1>4 DEF TypeOK, Phases, TaskSet
<1>6. QED
  BY <1>3, <1>4, <1>5, StillKeeps DEF RestOf

\* The life of a side.
LEMMA EnterKeeps ==
    ASSUME IInv, NEW s \in Sides, Create(s) \/ Start(s) \/ Leave(s) \/ Stop(s)
    PROVE  IInv'
<1>1. TypeOK
  BY DEF IInv
<1>2. PICK to \in Phases : phase' = [phase EXCEPT ![s] = to]
  BY DEF Create, Start, Leave, Stop, Enter, Phases
<1>3. phase' \in [Sides -> Phases]
  BY <1>1, <1>2 DEF TypeOK, Phases
<1>4. UNCHANGED <<queueVars, received, faults, resets, flushTimer>>
  BY DEF Create, Start, Leave, Stop, Enter
<1>5. link' \in [Gateways -> LinkStates]
  BY <1>1 DEF TypeOK, Create, Start, Leave, Stop, LinkStates
<1>6. tasks' = tasks \/ tasks' = [tasks EXCEPT ![s] = <<>>]
  BY DEF Create, Start, Leave, Stop
<1>7. /\ tasks' \in [Sides -> Seq(TaskSet)]
      /\ \A t \in Sides : tasks'[t] = <<>> \/ RestOf(t, tasks'[t])
  <2>1. tasks \in [Sides -> Seq(TaskSet)] /\ <<>> \in Seq(TaskSet)
    BY <1>1 DEF TypeOK, TaskSet
  <2>2. CASE tasks' = tasks
    BY <2>1, <2>2 DEF RestOf
  <2>3. CASE tasks' = [tasks EXCEPT ![s] = <<>>]
    <3>1. tasks'[s] = <<>> /\ \A t \in Sides \ {s} : tasks'[t] = tasks[t]
      BY <2>1, <2>3
    <3>2. \A t \in Sides : tasks'[t] = <<>> \/ RestOf(t, tasks'[t])
      BY <3>1 DEF RestOf
    <3>3. QED
      BY <2>1, <2>3, <3>2
  <2>4. QED
    BY <1>6, <2>2, <2>3
<1>8. faults' \in Nat
  BY <1>1, <1>4 DEF TypeOK
<1>9. QED
  BY <1>3, <1>4, <1>5, <1>7, <1>8, StillKeeps

\* A step that changes nothing.
LEMMA StutterKeeps ==
    ASSUME IInv, UNCHANGED vars
    PROVE  IInv'
<1>1. TypeOK
  BY DEF IInv
<1>2. UNCHANGED <<phase, tasks, flushTimer, link, queueVars, received, faults, resets>>
  BY DEF vars
<1>3. /\ faults' \in Nat /\ link' \in [Gateways -> LinkStates]
      /\ phase' \in [Sides -> Phases] /\ tasks' \in [Sides -> Seq(TaskSet)]
  BY <1>1, <1>2 DEF TypeOK, Phases, LinkStates, TaskSet
<1>4. QED
  BY <1>2, <1>3, StillKeeps DEF RestOf

\* Every step keeps the invariant.
LEMMA NextKeeps == IInv /\ [Next]_vars => IInv'
<1>1. SUFFICES ASSUME IInv, [Next]_vars
               PROVE  IInv'
  OBVIOUS
<1>2. ASSUME NEW g \in Gateways, GatewayStep(g)
      PROVE  IInv'
  BY <1>1, <1>2, OpenedKeeps, LinkKeeps, ReceiveKeeps DEF GatewayStep
<1>3. ASSUME NEW s \in Sides, SideStep(s)
      PROVE  IInv'
  BY <1>1, <1>3, RunTaskKeeps, EnterKeeps DEF SideStep
<1>4. CASE Finished \/ UNCHANGED vars
  BY <1>1, <1>4, StutterKeeps DEF Finished
<1>5. QED
  BY <1>1, <1>2, <1>3, <1>4, TimerFiresKeeps, ResetRatesKeeps DEF Next

-----------------------------------------------------------------------------
(* The theorems *)

\* The inductive invariant holds in every reachable state.
THEOREM Invariance == Spec => []IInv
BY InitKeeps, NextKeeps, PTL DEF Spec

\* Every variable keeps its type, and a queue at rest is below its limit (TypeOK).
THEOREM TypeCorrect == Spec => []TypeOK
<1>1. IInv => TypeOK
  BY DEF IInv
<1>2. QED
  BY <1>1, Invariance, PTL

\* Between two resets of the rate a wss gateway is sent less than a batch over the limit,
\* for every limit and size of a batch (RateIsLimited).
THEOREM RateStaysLimited == Spec => []RateIsLimited
<1>1. IInv => RateIsLimited
  BY DEF IInv, RatesCounted, RateIsLimited
<1>2. QED
  BY <1>1, Invariance, PTL

\* The messages of a source are sent, queued and posted in the order in which they were
\* received, none twice (SourceOrderKept).
THEOREM OrderPreserved == Spec => []SourceOrderKept
<1>1. IInv => SourceOrderKept
  <2>1. SUFFICES ASSUME IInv
                 PROVE  SourceOrderKept
    OBVIOUS
  <2>2. \A g \in Gateways : InOrder(Route(g))
    BY <2>1 DEF IInv, Delivery, InLine
  <2>3. ASSUME NEW s \in Sides, NEW i \in Posts(s)
        PROVE  /\ \A j \in Posts(s) : i < j /\ tasks[s][i].msg.from = tasks[s][j].msg.from
                                         => tasks[s][i].msg.id < tasks[s][j].msg.id
               /\ \A g \in Own(s) : Behind(Route(g), tasks[s][i].msg)
    <3>1. Lined(tasks[s]) /\ \A msg \in Carried(tasks[s]) : \A g \in Own(s) :
                                  Behind(Route(g), msg)
      BY <2>1 DEF IInv, Delivery, InLine
    <3>2. tasks[s][i].msg \in Carried(tasks[s])
      BY <2>3 DEF Posts, Carried
    <3>3. QED
      BY <2>3, <3>1, <3>2 DEF Posts, Lined
  <2>4. QED
    BY <2>2, <2>3 DEF SourceOrderKept
<1>2. QED
  BY <1>1, Invariance, PTL
=============================================================================
