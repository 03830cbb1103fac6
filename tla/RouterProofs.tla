---------------------------- MODULE RouterProofs ----------------------------
(* Safety of the router for any gateways, limits, batch size and bounds.     *)
EXTENDS Router, SequenceTheorems, TLAPS

-----------------------------------------------------------------------------
(* The operators flushMessageQueue is made of *)

\* Splitting a queue: both parts are queues and their lengths add up.
LEMMA Split ==
    ASSUME NEW S, NEW q \in Seq(S), NEW n \in 0 .. Len(q)
    PROVE  /\ Prefix(q, n) \in Seq(S) /\ Len(Prefix(q, n)) = n
           /\ Suffix(q, n) \in Seq(S) /\ Len(Suffix(q, n)) = Len(q) - n
<1>1. Len(q) \in Nat /\ n \in Int /\ \A i \in 1 .. Len(q) : q[i] \in S
  BY LenProperties, ElementOfSeq
<1>2. \A i \in 1 .. n : q[i] \in S
  BY <1>1
<1>3. \A i \in n + 1 .. Len(q) : q[i] \in S
  BY <1>1
<1>4. Prefix(q, n) \in Seq(S) /\ Len(Prefix(q, n)) = n
  BY <1>1, <1>2, SubSeqProperties DEF Prefix
<1>5. Suffix(q, n) \in Seq(S) /\ Len(Suffix(q, n)) = Len(q) - n
  BY <1>1, <1>3, SubSeqProperties DEF Suffix
<1>6. QED
  BY <1>4, <1>5

\* Appending one part to a history keeps its type and adds the lengths.
LEMMA Joined ==
    ASSUME NEW S, NEW s \in Seq(S), NEW t \in Seq(S)
    PROVE  s \o t \in Seq(S) /\ Len(s \o t) = Len(s) + Len(t)
BY ConcatProperties

\* The trim loop leaves less than the limit and pops no more than there is.
LEMMA ExcessBounds ==
    ASSUME NEW S, NEW q \in Seq(S), NEW limit \in Nat \ {0}
    PROVE  /\ Excess(q, limit) \in 0 .. Len(q)
           /\ Len(q) - Excess(q, limit) < limit
<1>1. Len(q) \in Nat
  BY LenProperties
<1>2. QED
  BY <1>1 DEF Excess

\* A batch is never larger than what is queued.
LEMMA BatchBounds ==
    ASSUME NEW S, NEW q \in Seq(S), NEW n \in BatchSizes(q)
    PROVE  n \in 0 .. Len(q)
<1>1. Len(q) \in Nat /\ Batch \in Nat
  BY LenProperties, RouterAssumption
<1>2. QED
  BY <1>1 DEF BatchSizes

\* Appending a task to a queue puts it there and loses none.
LEMMA HoldsAfterAppend ==
    ASSUME NEW S, NEW q \in Seq(S), NEW e \in S
    PROVE  /\ Holds(Append(q, e), e)
           /\ \A t : Holds(q, t) => Holds(Append(q, e), t)
<1>1. /\ Len(q) \in Nat /\ Len(Append(q, e)) = Len(q) + 1
      /\ \A i \in 1 .. Len(q) : Append(q, e)[i] = q[i]
      /\ Append(q, e)[Len(q) + 1] = e
  BY AppendProperties, LenProperties
<1>2. QED
  BY <1>1 DEF Holds

\* Taking the first task off a queue keeps every other task.
LEMMA HoldsAfterTail ==
    ASSUME NEW S, NEW q \in Seq(S), q # <<>>
    PROVE  \A t : Holds(q, t) /\ t # Head(q) => Holds(Tail(q), t)
<1>1. /\ Len(q) \in Nat /\ Len(Tail(q)) = Len(q) - 1 /\ Head(q) = q[1]
      /\ \A i \in 1 .. Len(Tail(q)) : Tail(q)[i] = q[i + 1]
  BY HeadTailProperties, LenProperties
<1>2. SUFFICES ASSUME NEW t, NEW i \in 1 .. Len(q), q[i] = t, t # Head(q)
               PROVE  Holds(Tail(q), t)
  BY DEF Holds
<1>3. i - 1 \in 1 .. Len(Tail(q)) /\ Tail(q)[i - 1] = q[i]
  BY <1>1, <1>2
<1>4. QED
  BY <1>2, <1>3 DEF Holds

\* A gateway of a manager's server map has the manager's limits, which are positive.
LEMMA GatewayOfManager ==
    ASSUME NEW m \in Managers, NEW g \in Own(m)
    PROVE  /\ g \in Gateways /\ Manager(g) = m
           /\ QueueLimit[m] \in Nat \ {0} /\ RateLimit[m] \in Nat \ {0}
BY RouterAssumption DEF Managers, Own, Gateways, Manager

\* Every gateway is in the server map of exactly its manager.
LEMMA ManagerOfGateway ==
    ASSUME NEW g \in Gateways
    PROVE  Manager(g) \in Managers /\ g \in Own(Manager(g))
BY DEF Managers, Own, Gateways, Manager

-----------------------------------------------------------------------------
(* The inductive invariant *)

\* Nothing ever assigns outRateClockTime, and clockTime is set before a loop runs.
LimiterDisarmed ==
    /\ \A g \in Gateways : info[g].outRateClockTime = 0
    /\ \A m \in Managers : Running(m) => clockTime[m] > 0
    /\ flushTimer = [m \in Managers |-> NoGateway]

\* A loop only flushes gateways of its own.
Addressed(m, q) == \A i \in 1 .. Len(q) : q[i].kind = "flush" => q[i].to \in Own(m)
TasksAddressed == \A m \in Managers : Addressed(m, tasks[m])

\* A manager that has not started holds no connection.
IdleWhenOff == \A g \in Gateways : phase[Manager(g)] = "off" => info[g].conn = "null"

IInv == TypeOK /\ IdleWhenOff /\ LimiterDisarmed /\ TasksAddressed
            /\ OneLinkPerGateway /\ QueueBelowLimit /\ CountersBalance /\ NoStrandedMessage

\* What flushing g leaves behind, whoever called it.
Drained(m, g, c, rest) ==
    /\ info' \in [Gateways -> ConnectionInfo]
    /\ sent' \in [Gateways -> Seq(Messages)] /\ trimmed' \in [Gateways -> Seq(Messages)]
    /\ burst' \in [Gateways -> Nat] /\ sendErrors' \in Nat
    /\ \A h \in Gateways \ {g} :
           info'[h] = info[h] /\ sent'[h] = sent[h] /\ trimmed'[h] = trimmed[h]
    /\ info'[g].conn = c.conn /\ info'[g].outRateClockTime = c.outRateClockTime
    /\ info'[g].inMessageCount = c.inMessageCount
    /\ info'[g].outMessageCount + Len(sent[g]) = c.outMessageCount + Len(sent'[g])
    /\ Len(sent'[g]) + Len(info'[g].queue) + Len(trimmed'[g])
           = Len(sent[g]) + Len(c.queue) + Len(trimmed[g])
    /\ Len(info'[g].queue) < QueueLimit[m]
    /\ \/ tasks' = [tasks EXCEPT ![m] = Append(rest, FlushTask(g))]
       \/ /\ tasks' = [tasks EXCEPT ![m] = rest]
          /\ c.conn # "open" \/ info'[g].queue = <<>>

\* A flush the limiter lets through (DrainQueue) sends, keeps or trims every message
\* of the queue, and posts the next flush when it leaves any on an open connection.
LEMMA DrainQueueDrains ==
    ASSUME TypeOK, NEW m \in Managers, NEW g \in Own(m), NEW c \in ConnectionInfo,
           NEW rest, ~Throttled(m, c), DrainQueue(m, g, c, rest)
    PROVE  Drained(m, g, c, rest)
<1> DEFINE excess == Excess(c.queue, QueueLimit[m])
           kept   == Suffix(c.queue, excess)
           rate   == CurrentRate(c, clockTime[m])
<1>1. g \in Gateways /\ QueueLimit[m] \in Nat \ {0}
  BY GatewayOfManager
<1>2. /\ c.queue \in Seq(Messages) /\ c.outMessageCount \in Nat /\ rate \in Nat
      /\ sent[g] \in Seq(Messages) /\ trimmed[g] \in Seq(Messages)
  BY <1>1 DEF TypeOK, ConnectionInfo, CurrentRate
<1>3. excess \in 0 .. Len(c.queue) /\ Len(c.queue) - excess < QueueLimit[m]
  BY <1>1, <1>2, ExcessBounds
<1>4. /\ kept \in Seq(Messages) /\ Len(kept) = Len(c.queue) - excess
      /\ Prefix(c.queue, excess) \in Seq(Messages) /\ Len(Prefix(c.queue, excess)) = excess
  BY <1>2, <1>3, Split
<1>5. /\ trimmed' = [trimmed EXCEPT ![g] = @ \o Prefix(c.queue, excess)]
      /\ IF c.conn = "open" THEN SendBatch(m, g, c, kept, rest)
         ELSE Hold(m, g, c, kept, rest)
  BY DEF DrainQueue
<1> HIDE DEF excess, kept, rate
<1>6. /\ trimmed[g] \o Prefix(c.queue, excess) \in Seq(Messages)
      /\ Len(trimmed[g] \o Prefix(c.queue, excess)) = Len(trimmed[g]) + excess
  BY <1>2, <1>4, Joined
<1>7. /\ trimmed' \in [Gateways -> Seq(Messages)]
      /\ Len(trimmed'[g]) = Len(trimmed[g]) + excess
      /\ \A h \in Gateways \ {g} : trimmed'[h] = trimmed[h]
  BY <1>1, <1>6, <1>5 DEF TypeOK
<1>8. Len(c.queue) \in Nat /\ Len(sent[g]) \in Nat /\ Len(trimmed[g]) \in Nat /\ excess \in Nat
  BY <1>2, <1>3, LenProperties
<1>9. CASE c.conn # "open"
  <2>1. Hold(m, g, c, kept, rest)
    BY <1>9, <1>5
  <2>2. [c EXCEPT !.queue = kept] \in ConnectionInfo
    BY <1>4 DEF ConnectionInfo
  <2>3. /\ info' \in [Gateways -> ConnectionInfo] /\ info'[g] = [c EXCEPT !.queue = kept]
        /\ \A h \in Gateways \ {g} : info'[h] = info[h]
    BY <1>1, <2>1, <2>2 DEF Hold, TypeOK
  <2>4. /\ info'[g].conn = c.conn /\ info'[g].queue = kept
        /\ info'[g].inMessageCount = c.inMessageCount
        /\ info'[g].outMessageCount = c.outMessageCount
        /\ info'[g].outRateClockTime = c.outRateClockTime
    BY <2>3 DEF ConnectionInfo
  <2>5. Len(sent[g]) + Len(kept) + Len(trimmed'[g])
            = Len(sent[g]) + Len(c.queue) + Len(trimmed[g])
    <3> DEFINE out == Len(sent[g]) stays == Len(kept) gone == Len(trimmed'[g])
               had == Len(c.queue) before == Len(trimmed[g])
    <3>1. /\ out \in Nat /\ had \in Nat /\ before \in Nat /\ excess \in Nat
          /\ stays = had - excess /\ gone = before + excess
      BY <1>4, <1>7, <1>8
    <3> HIDE DEF out, stays, gone, had, before
    <3>2. out + stays + gone = out + had + before
      BY <3>1
    <3>3. QED
      BY <3>2 DEF out, stays, gone, had, before
  <2>6. QED
    BY <1>3, <1>4, <1>7, <1>9, <2>1, <2>3, <2>4, <2>5 DEF Hold, Drained, TypeOK
<1>10. CASE c.conn = "open"
  <2>1. SendBatch(m, g, c, kept, rest)
    BY <1>10, <1>5
  <2>2. PICK n \in BatchSizes(kept) :
            /\ info' = [info EXCEPT ![g] = AfterBatch(c, kept, rate, n)]
            /\ sent' = [sent EXCEPT ![g] = @ \o Prefix(kept, n)]
            /\ burst' = [burst EXCEPT ![g] = @ + n]
            /\ sendErrors' = IF n < Len(kept) /\ n < Batch THEN sendErrors + 1 ELSE sendErrors
            /\ tasks' = [tasks EXCEPT ![m] =
                            IF Repost(kept, n) THEN Append(rest, FlushTask(g)) ELSE rest]
    BY <2>1 DEF SendBatch, rate
  <2>3. n \in 0 .. Len(kept)
    BY <1>4, BatchBounds
  <2>4. /\ Prefix(kept, n) \in Seq(Messages) /\ Len(Prefix(kept, n)) = n
        /\ Suffix(kept, n) \in Seq(Messages) /\ Len(Suffix(kept, n)) = Len(kept) - n
    BY <1>4, <2>3, Split
  <2>5. n \in Nat /\ Len(kept) \in Nat
    BY <1>3, <1>4, <1>8, <2>3
  <2>6. AfterBatch(c, kept, rate, n) \in ConnectionInfo
    <3>1. c.outMessageCount + n \in Nat /\ rate + n \in Nat
      BY <1>2, <2>5
    <3>2. QED
      BY <2>4, <3>1 DEF AfterBatch, ConnectionInfo
  <2>7. /\ info' \in [Gateways -> ConnectionInfo] /\ info'[g] = AfterBatch(c, kept, rate, n)
        /\ \A h \in Gateways \ {g} : info'[h] = info[h]
    BY <1>1, <2>2, <2>6 DEF TypeOK
  <2>8. /\ info'[g].conn = c.conn /\ info'[g].queue = Suffix(kept, n)
        /\ info'[g].inMessageCount = c.inMessageCount
        /\ info'[g].outMessageCount = c.outMessageCount + n
        /\ info'[g].outRateClockTime = c.outRateClockTime
    BY <2>7 DEF AfterBatch, ConnectionInfo
  <2>9. /\ sent[g] \o Prefix(kept, n) \in Seq(Messages)
        /\ Len(sent[g] \o Prefix(kept, n)) = Len(sent[g]) + n
    BY <1>2, <2>4, Joined
  <2>10. /\ sent' \in [Gateways -> Seq(Messages)] /\ Len(sent'[g]) = Len(sent[g]) + n
         /\ \A h \in Gateways \ {g} : sent'[h] = sent[h]
    BY <1>1, <2>2, <2>9 DEF TypeOK
  <2>11. burst' \in [Gateways -> Nat] /\ sendErrors' \in Nat
    BY <1>1, <2>2, <2>5 DEF TypeOK
  <2>12. Repost(kept, n) \/ info'[g].queue = <<>>
    <3>1. CASE n < Len(kept)
      BY <3>1 DEF Repost
    <3>2. CASE n = Len(kept)
      <4>1. Len(info'[g].queue) = 0
        BY <2>4, <2>5, <2>8, <3>2
      <4>2. QED
        BY <2>4, <2>8, <4>1, EmptySeq
    <3>3. QED
      BY <2>3, <2>5, <3>1, <3>2
  <2>13. Len(sent'[g]) + Len(info'[g].queue) + Len(trimmed'[g])
             = Len(sent[g]) + Len(c.queue) + Len(trimmed[g])
    <3> DEFINE out == Len(sent[g]) sentNow == Len(sent'[g]) stays == Len(info'[g].queue)
               gone == Len(trimmed'[g]) had == Len(c.queue) before == Len(trimmed[g])
    <3>1. /\ out \in Nat /\ had \in Nat /\ before \in Nat /\ excess \in Nat
          /\ sentNow = out + n /\ stays = (had - excess) - n /\ gone = before + excess
      BY <1>4, <1>7, <1>8, <2>4, <2>8, <2>10
    <3> HIDE DEF out, sentNow, stays, gone, had, before
    <3>2. sentNow + stays + gone = out + had + before
      BY <2>5, <3>1
    <3>3. QED
      BY <3>2 DEF out, sentNow, stays, gone, had, before
  <2>14. info'[g].outMessageCount + Len(sent[g]) = c.outMessageCount + Len(sent'[g])
    BY <1>2, <1>8, <2>5, <2>8, <2>10
  <2>15. Len(info'[g].queue) < QueueLimit[m]
    BY <1>1, <1>3, <1>4, <2>4, <2>5, <2>8
  <2>16. QED
    BY <1>7, <2>2, <2>7, <2>8, <2>10, <2>11, <2>12, <2>13, <2>14, <2>15 DEF Drained
<1>11. QED
  BY <1>9, <1>10

-----------------------------------------------------------------------------
(* A flush, from whichever handler, keeps the invariant *)

\* The flush a handler posts is a task.
LEMMA TasksAreTyped ==
    ASSUME NEW g \in Gateways
    PROVE  FlushTask(g) \in Tasks /\ FlushTask(g).kind = "flush" /\ FlushTask(g).to = g
BY DEF FlushTask, Tasks

\* Posting the flush of an own gateway keeps the tasks of the loop addressed.
LEMMA AddressedAfterAppend ==
    ASSUME NEW m \in Managers, NEW q \in Seq(Tasks), Addressed(m, q), NEW g \in Own(m)
    PROVE  Addressed(m, Append(q, FlushTask(g)))
<1>1. g \in Gateways
  BY GatewayOfManager
<1>2. /\ Len(q) \in Nat /\ Len(Append(q, FlushTask(g))) = Len(q) + 1
      /\ \A i \in 1 .. Len(q) : Append(q, FlushTask(g))[i] = q[i]
      /\ Append(q, FlushTask(g))[Len(q) + 1] = FlushTask(g)
  BY <1>1, TasksAreTyped, AppendProperties, LenProperties
<1>3. QED
  BY <1>1, <1>2, TasksAreTyped DEF Addressed

\* The parts of the invariant that a flush can disturb.
FlushPart ==
    /\ info \in [Gateways -> ConnectionInfo] /\ tasks \in [Managers -> Seq(Tasks)]
    /\ sent \in [Gateways -> Seq(Messages)] /\ trimmed \in [Gateways -> Seq(Messages)]
    /\ burst \in [Gateways -> Nat] /\ sendErrors \in Nat
    /\ LimiterDisarmed /\ TasksAddressed
    /\ QueueBelowLimit /\ CountersBalance /\ NoStrandedMessage

\* A flush keeps queues bounded, counters balanced and no message stranded.
LEMMA FlushKeeps ==
    ASSUME IInv, NEW m \in Managers, NEW g \in Own(m), Running(m),
           NEW c \in ConnectionInfo, c.outRateClockTime = 0,
           c.outMessageCount = Len(sent[g]),
           c.inMessageCount = c.outMessageCount + Len(c.queue) + Len(trimmed[g]),
           NEW rest \in Seq(Tasks), Addressed(m, rest),
           \A h \in Gateways \ {g} :
               Holds(tasks[m], FlushTask(h)) => Holds(rest, FlushTask(h)),
           Flush(m, g, c, rest), phase' = phase, clockTime' = clockTime
    PROVE  FlushPart' /\ info'[g].conn = c.conn
                      /\ \A h \in Gateways \ {g} : info'[h] = info[h]
<1>1. /\ TypeOK /\ LimiterDisarmed /\ TasksAddressed /\ QueueBelowLimit
      /\ CountersBalance /\ NoStrandedMessage
  BY DEF IInv
<1>2. /\ g \in Gateways /\ Manager(g) = m
      /\ QueueLimit[m] \in Nat \ {0} /\ RateLimit[m] \in Nat \ {0}
  BY GatewayOfManager
<1>3. ~Throttled(m, c)
  <2>1. clockTime[m] \in Nat /\ clockTime[m] > 0
    BY <1>1 DEF TypeOK, LimiterDisarmed
  <2>2. CurrentRate(c, clockTime[m]) = 0
    BY <2>1 DEF CurrentRate
  <2>3. QED
    BY <1>2, <2>2 DEF Throttled
<1>4. DrainQueue(m, g, c, rest) /\ flushTimer' = flushTimer
  BY <1>1, <1>3 DEF Flush, TypeOK
<1>5. Drained(m, g, c, rest)
  BY <1>1, <1>3, <1>4, DrainQueueDrains
<1>6. /\ \A h \in Gateways \ {g} :
             info'[h] = info[h] /\ sent'[h] = sent[h] /\ trimmed'[h] = trimmed[h]
      /\ info'[g].conn = c.conn /\ info'[g].outRateClockTime = 0
  BY <1>5 DEF Drained
<1>7. /\ tasks' \in [Managers -> Seq(Tasks)]
      /\ tasks'[m] = Append(rest, FlushTask(g)) \/ tasks'[m] = rest
      /\ \A n \in Managers \ {m} : tasks'[n] = tasks[n]
  <2>1. FlushTask(g) \in Tasks
    BY <1>2, TasksAreTyped
  <2>2. Append(rest, FlushTask(g)) \in Seq(Tasks)
    BY <2>1, AppendProperties
  <2>3. QED
    BY <1>1, <1>5, <2>2 DEF Drained, TypeOK
<1>8. LimiterDisarmed'
  BY <1>1, <1>2, <1>4, <1>6 DEF LimiterDisarmed, Running
<1>9. TasksAddressed'
  BY <1>1, <1>7, AddressedAfterAppend DEF TasksAddressed
<1>10. QueueBelowLimit'
  BY <1>1, <1>2, <1>5, <1>6 DEF QueueBelowLimit, Drained
<1>11. CountersBalance'
  <2> DEFINE out == Len(sent[g]) sentNow == Len(sent'[g]) stays == Len(info'[g].queue)
             gone == Len(trimmed'[g]) had == Len(c.queue) before == Len(trimmed[g])
             counted == info'[g].outMessageCount
  <2>1. /\ sent[g] \in Seq(Messages) /\ trimmed[g] \in Seq(Messages)
        /\ c.queue \in Seq(Messages) /\ info'[g] \in ConnectionInfo
        /\ sent'[g] \in Seq(Messages) /\ trimmed'[g] \in Seq(Messages)
        /\ info'[g].queue \in Seq(Messages)
    BY <1>1, <1>2, <1>5 DEF TypeOK, Drained, ConnectionInfo
  <2>2. /\ out \in Nat /\ had \in Nat /\ before \in Nat
        /\ sentNow \in Nat /\ stays \in Nat /\ gone \in Nat /\ counted \in Nat
    BY <2>1, LenProperties DEF ConnectionInfo
  <2>3. /\ counted + out = c.outMessageCount + sentNow
        /\ sentNow + stays + gone = out + had + before
        /\ c.outMessageCount = out
        /\ info'[g].inMessageCount = c.outMessageCount + had + before
    BY <1>5 DEF Drained
  <2> HIDE DEF out, sentNow, stays, gone, had, before, counted
  <2>4. counted = sentNow /\ info'[g].inMessageCount = counted + stays + gone
    BY <2>2, <2>3
  <2>5. /\ info'[g].outMessageCount = Len(sent'[g])
        /\ info'[g].inMessageCount
               = info'[g].outMessageCount + Len(info'[g].queue) + Len(trimmed'[g])
    BY <2>4 DEF sentNow, stays, gone, counted
  <2>6. QED
    BY <1>1, <1>6, <2>5 DEF CountersBalance
<1>12. NoStrandedMessage'
  <2>1. SUFFICES ASSUME NEW h \in Gateways, Running(Manager(h)),
                        info'[h].conn = "open", info'[h].queue # <<>>
                 PROVE  Holds(tasks'[Manager(h)], FlushTask(h))
    BY DEF NoStrandedMessage, Running, Holds
  <2>2. FlushTask(g) \in Tasks
    BY <1>2, TasksAreTyped
  <2>3. /\ Holds(Append(rest, FlushTask(g)), FlushTask(g))
        /\ \A t : Holds(rest, t) => Holds(Append(rest, FlushTask(g)), t)
    BY <2>2, HoldsAfterAppend
  <2>4. CASE h = g
    <3>1. tasks'[m] = Append(rest, FlushTask(g))
      BY <1>1, <1>5, <1>6, <2>1, <2>4 DEF Drained, TypeOK
    <3>2. QED
      BY <1>2, <2>4, <2>3, <3>1
  <2>5. CASE h # g
    <3>1. /\ Manager(h) \in Managers
          /\ Holds(tasks[Manager(h)], FlushTask(h)) \/ flushTimer[Manager(h)] = h
      BY <1>1, <1>6, <2>1, <2>5, ManagerOfGateway DEF NoStrandedMessage
    <3>2. flushTimer[Manager(h)] = NoGateway /\ h # NoGateway
      BY <1>1, <3>1, RouterAssumption DEF LimiterDisarmed
    <3>3. CASE Manager(h) # m
      BY <1>7, <3>1, <3>2, <3>3
    <3>4. CASE Manager(h) = m
      <4>1. Holds(rest, FlushTask(h))
        BY <2>5, <3>1, <3>2, <3>4
      <4>2. QED
        BY <1>2, <1>7, <2>3, <3>4, <4>1
    <3>5. QED
      BY <3>3, <3>4
  <2>6. QED
    BY <2>4, <2>5
<1>13. QED
  BY <1>5, <1>6, <1>7, <1>8, <1>9, <1>10, <1>11, <1>12 DEF FlushPart, Drained

-----------------------------------------------------------------------------
(* Every step keeps the invariant *)

\* The types of the variables a flush leaves alone.
OtherTypes ==
    /\ phase \in [Managers -> {"off", "running", "stopped"}]
    /\ clockTime \in [Managers -> Nat]
    /\ connecting \in [Gateways -> Nat] /\ retry \in [Gateways -> Nat]
    /\ crashed \in BOOLEAN
    /\ received \in 0 .. MaxMessages /\ losses \in Nat

\* The inductive invariant is what a flush disturbs and what it does not.
LEMMA IInvParts == IInv <=> FlushPart /\ OtherTypes /\ OneLinkPerGateway /\ IdleWhenOff
BY DEF IInv, TypeOK, FlushPart, OtherTypes, LimiterDisarmed

\* The same split in the next state.
LEMMA IInvNext ==
    ASSUME FlushPart', OtherTypes', OneLinkPerGateway', IdleWhenOff'
    PROVE  IInv'
BY DEF IInv, TypeOK, FlushPart, OtherTypes, LimiterDisarmed

\* The managers start with nothing queued, connected or posted.
LEMMA InitKeeps == Init => IInv
<1> SUFFICES ASSUME Init PROVE IInv
  OBVIOUS
<1>1. NewInfo \in ConnectionInfo /\ NewInfo.queue = <<>> /\ NewInfo.outRateClockTime = 0
  BY DEF NewInfo, ConnectionInfo
<1>2. \A m \in Managers : phase[m] = "off"
  BY DEF Init
<1>3. TypeOK
  <2>1. <<>> \in Seq(Messages) /\ <<>> \in Seq(Tasks)
    BY EmptySeq
  <2>2. 0 \in 0 .. MaxMessages
    BY RouterAssumption
  <2>3. QED
    BY <1>1, <2>1, <2>2 DEF Init, TypeOK
<1>4. LimiterDisarmed /\ OneLinkPerGateway /\ NoStrandedMessage
  BY <1>1, <1>2, ManagerOfGateway
     DEF Init, LimiterDisarmed, OneLinkPerGateway, NoStrandedMessage, Running
<1>5. TasksAddressed
  BY DEF Init, TasksAddressed, Addressed
<1>6. QueueBelowLimit
  BY <1>1, GatewayOfManager, ManagerOfGateway DEF Init, QueueBelowLimit
<1>7. CountersBalance
  BY DEF Init, CountersBalance, NewInfo
<1>8. QED
  BY <1>1, <1>3, <1>4, <1>5, <1>6, <1>7 DEF Init, IInv, IdleWhenOff, NewInfo

\* A message appended to a queue counts as come in.
LEMMA EnqueuedBalances ==
    ASSUME IInv, NEW g \in Gateways, NEW msg \in Messages
    PROVE  LET c == Enqueued(info[g], msg) IN
           /\ c \in ConnectionInfo /\ c.conn = info[g].conn /\ c.outRateClockTime = 0
           /\ c.outMessageCount = Len(sent[g])
           /\ c.inMessageCount = c.outMessageCount + Len(c.queue) + Len(trimmed[g])
<1> DEFINE c == Enqueued(info[g], msg)
<1>1. /\ info[g] \in ConnectionInfo /\ info[g].queue \in Seq(Messages)
      /\ trimmed[g] \in Seq(Messages) /\ sent[g] \in Seq(Messages)
      /\ info[g].inMessageCount \in Nat
  BY DEF IInv, TypeOK, ConnectionInfo
<1>2. /\ Append(info[g].queue, msg) \in Seq(Messages)
      /\ Len(Append(info[g].queue, msg)) = Len(info[g].queue) + 1
  BY <1>1, AppendProperties
<1>3. info[g].inMessageCount + 1 \in Nat
  BY <1>1
<1>4. /\ c \in ConnectionInfo /\ c.conn = info[g].conn
      /\ c.outRateClockTime = info[g].outRateClockTime
      /\ c.queue = Append(info[g].queue, msg)
      /\ c.outMessageCount = info[g].outMessageCount
      /\ c.inMessageCount = info[g].inMessageCount + 1
  BY <1>1, <1>2, <1>3 DEF Enqueued, ConnectionInfo
<1>5. info[g].outRateClockTime = 0 /\ info[g].outMessageCount = Len(sent[g])
  BY DEF IInv, LimiterDisarmed, CountersBalance
<1>6. c.inMessageCount = c.outMessageCount + Len(c.queue) + Len(trimmed[g])
  <2> DEFINE out == Len(sent[g]) had == Len(info[g].queue) gone == Len(trimmed[g])
             now == Len(c.queue)
  <2>1. out \in Nat /\ had \in Nat /\ gone \in Nat
    BY <1>1, LenProperties
  <2>2. info[g].inMessageCount = out + had + gone
    BY <1>5 DEF IInv, CountersBalance
  <2>3. now = had + 1
    BY <1>2, <1>4
  <2>4. c.inMessageCount = info[g].inMessageCount + 1 /\ c.outMessageCount = out
    BY <1>4, <1>5
  <2> HIDE DEF out, had, gone, now, c
  <2>5. c.inMessageCount = c.outMessageCount + now + gone
    BY <2>1, <2>2, <2>3, <2>4
  <2>6. QED
    BY <2>5 DEF now, gone
<1>7. QED
  BY <1>4, <1>5, <1>6

\* Queueing a message and flushing it (the tail of handleMessage) keeps the invariant.
LEMMA DeliverKeeps ==
    ASSUME IInv, NEW m \in Managers, Running(m), NEW msg \in Messages, msg.to \in Own(m),
           NEW rest \in Seq(Tasks), Addressed(m, rest),
           \A h \in Gateways : Holds(tasks[m], FlushTask(h)) => Holds(rest, FlushTask(h)),
           Deliver(m, msg, rest), phase' = phase, clockTime' = clockTime
    PROVE  /\ FlushPart' /\ crashed' = crashed
           /\ \A h \in Gateways : info'[h].conn = info[h].conn
<1> DEFINE g == msg.to
           c == Enqueued(info[g], msg)
<1>1. g \in Gateways
  BY GatewayOfManager
<1>2. /\ c \in ConnectionInfo /\ c.conn = info[g].conn /\ c.outRateClockTime = 0
      /\ c.outMessageCount = Len(sent[g])
      /\ c.inMessageCount = c.outMessageCount + Len(c.queue) + Len(trimmed[g])
  BY <1>1, EnqueuedBalances
<1>3. Flush(m, g, c, rest) /\ crashed' = crashed
  BY DEF Deliver
<1> HIDE DEF c
<1>4. FlushPart' /\ info'[g].conn = c.conn /\ \A h \in Gateways \ {g} : info'[h] = info[h]
  BY <1>1, <1>2, <1>3, FlushKeeps
<1>5. QED
  BY <1>2, <1>3, <1>4

\* A flush of what is queued already.
LEMMA CurrentBalances ==
    ASSUME IInv, NEW g \in Gateways
    PROVE  /\ info[g] \in ConnectionInfo /\ info[g].outRateClockTime = 0
           /\ info[g].outMessageCount = Len(sent[g])
           /\ info[g].inMessageCount
                = info[g].outMessageCount + Len(info[g].queue) + Len(trimmed[g])
BY DEF IInv, TypeOK, LimiterDisarmed, CountersBalance

\* A step that leaves phases, handshakes, retries and connections alone keeps the links.
LEMMA LinksKept ==
    ASSUME OneLinkPerGateway, IdleWhenOff,
           phase' = phase, connecting' = connecting, retry' = retry,
           \A g \in Gateways : info'[g].conn = info[g].conn
    PROVE  OneLinkPerGateway' /\ IdleWhenOff'
BY DEF OneLinkPerGateway, IdleWhenOff, Linked, Running

\* run() gives each of its gateways a handshake or a retry timer.
LEMMA StartKeeps ==
    ASSUME IInv, NEW m \in Managers, Start(m)
    PROVE  IInv'
<1>1. FlushPart /\ OtherTypes /\ OneLinkPerGateway /\ IdleWhenOff
  BY IInvParts
<1>2. /\ tasks' = tasks /\ info' = info /\ sent' = sent /\ trimmed' = trimmed
      /\ burst' = burst /\ sendErrors' = sendErrors /\ flushTimer' = flushTimer
      /\ crashed' = crashed /\ received' = received /\ losses' = losses
      /\ phase' = [phase EXCEPT ![m] = "running"]
      /\ clockTime' = [clockTime EXCEPT ![m] = 1]
      /\ phase[m] = "off"
  BY DEF Start, flushVars
<1>3. \A g \in Gateways : Handshakes(g) \in 0 .. 1
  BY DEF Handshakes
<1>4. OtherTypes'
  BY <1>1, <1>2, <1>3 DEF OtherTypes, Start
<1>5. \A g \in Gateways : g \in Own(m) <=> Manager(g) = m
  BY GatewayOfManager, ManagerOfGateway
<1>6. \A g \in Own(m) : info[g].conn = "null"
  BY <1>1, <1>2, <1>5, GatewayOfManager DEF IdleWhenOff
<1>7. \A g \in Gateways : Running(Manager(g))' =>
          g \in Own(m) \/ Running(Manager(g))
  BY <1>1, <1>2, <1>5, ManagerOfGateway DEF Running, OtherTypes
<1>8. OneLinkPerGateway'
  BY <1>1, <1>2, <1>3, <1>6, <1>7 DEF OneLinkPerGateway, Start, Linked, Running, OtherTypes
<1>9. IdleWhenOff'
  BY <1>1, <1>2, <1>5, ManagerOfGateway DEF IdleWhenOff, OtherTypes
<1>10. LimiterDisarmed' /\ TasksAddressed' /\ QueueBelowLimit' /\ CountersBalance'
  BY <1>1, <1>2 DEF FlushPart, OtherTypes, LimiterDisarmed, TasksAddressed, Addressed,
                    QueueBelowLimit, CountersBalance, Running
<1>11. NoStrandedMessage'
  BY <1>1, <1>2, <1>6, <1>7 DEF FlushPart, NoStrandedMessage, Running
<1>12. FlushPart'
  BY <1>1, <1>2, <1>10, <1>11 DEF FlushPart
<1>13. QED
  BY <1>4, <1>8, <1>9, <1>12, IInvNext

\* The clock moves on, and a running loop's clock stays above zero.
LEMMA ClockTickKeeps ==
    ASSUME IInv, NEW m \in Managers, ClockTick(m)
    PROVE  IInv'
<1>1. FlushPart /\ OtherTypes /\ OneLinkPerGateway /\ IdleWhenOff
  BY IInvParts
<1>2. /\ tasks' = tasks /\ info' = info /\ sent' = sent /\ trimmed' = trimmed
      /\ sendErrors' = sendErrors /\ flushTimer' = flushTimer /\ phase' = phase
      /\ crashed' = crashed /\ received' = received /\ losses' = losses
      /\ connecting' = connecting /\ retry' = retry
      /\ clockTime' = [clockTime EXCEPT ![m] = @ + 1]
      /\ burst' = [g \in Gateways |-> IF g \in Own(m) THEN 0 ELSE burst[g]]
  BY DEF ClockTick, linkVars
<1>3. clockTime' \in [Managers -> Nat]
      /\ \A n \in Managers : clockTime[n] > 0 => clockTime'[n] > 0
  BY <1>1, <1>2 DEF OtherTypes
<1>4. burst' \in [Gateways -> Nat]
  BY <1>1, <1>2 DEF FlushPart
<1>5. OtherTypes'
  BY <1>1, <1>2, <1>3 DEF OtherTypes
<1>6. OneLinkPerGateway' /\ IdleWhenOff'
  BY <1>1, <1>2, LinksKept
<1>7. LimiterDisarmed' /\ TasksAddressed' /\ QueueBelowLimit' /\ CountersBalance'
      /\ NoStrandedMessage'
  BY <1>1, <1>2, <1>3 DEF FlushPart, LimiterDisarmed, TasksAddressed, Addressed,
                    QueueBelowLimit, CountersBalance, NoStrandedMessage, Running
<1>8. FlushPart'
  BY <1>1, <1>2, <1>4, <1>7 DEF FlushPart
<1>9. QED
  BY <1>5, <1>6, <1>8, IInvNext

\* The end of run() takes the pending tasks, handshakes and timers of its loop.
LEMMA StopKeeps ==
    ASSUME IInv, NEW m \in Managers, Stop(m)
    PROVE  IInv'
<1>1. FlushPart /\ OtherTypes /\ OneLinkPerGateway /\ IdleWhenOff
  BY IInvParts
<1>2. /\ info' = info /\ sent' = sent /\ trimmed' = trimmed /\ burst' = burst
      /\ sendErrors' = sendErrors /\ crashed' = crashed /\ received' = received
      /\ losses' = losses /\ clockTime' = clockTime
      /\ tasks' = [tasks EXCEPT ![m] = <<>>]
      /\ phase' = [phase EXCEPT ![m] = "stopped"]
      /\ flushTimer' = [flushTimer EXCEPT ![m] = NoGateway]
  BY DEF Stop, flushVars
<1>3. flushTimer' = flushTimer
  BY <1>1, <1>2 DEF FlushPart, LimiterDisarmed
<1>4. <<>> \in Seq(Tasks) /\ Len(<<>>) = 0
  BY EmptySeq
<1>5. OtherTypes'
  BY <1>1, <1>2 DEF OtherTypes, Stop
<1>6. \A g \in Gateways : Running(Manager(g))' => Running(Manager(g)) /\ g \notin Own(m)
  BY <1>1, <1>2, GatewayOfManager, ManagerOfGateway DEF Running, OtherTypes
<1>7. OneLinkPerGateway'
  BY <1>1, <1>2, <1>6 DEF OneLinkPerGateway, Stop, Linked, OtherTypes
<1>8. IdleWhenOff'
  BY <1>1, <1>2, ManagerOfGateway DEF IdleWhenOff, OtherTypes
<1>9. tasks' \in [Managers -> Seq(Tasks)]
  BY <1>1, <1>2, <1>4 DEF FlushPart
<1>10. TasksAddressed'
  BY <1>1, <1>2, <1>4 DEF FlushPart, TasksAddressed, Addressed
<1>11. QueueBelowLimit' /\ CountersBalance'
  BY <1>1, <1>2 DEF FlushPart, QueueBelowLimit, CountersBalance
<1>12. LimiterDisarmed'
  BY <1>1, <1>2, <1>3 DEF FlushPart, LimiterDisarmed, OtherTypes, Running
<1>13. \A g \in Gateways : g \notin Own(m) => tasks'[Manager(g)] = tasks[Manager(g)]
  BY <1>1, <1>2, ManagerOfGateway DEF FlushPart
<1>14. NoStrandedMessage'
  BY <1>1, <1>2, <1>3, <1>6, <1>13 DEF FlushPart, NoStrandedMessage, Holds
<1>15. FlushPart'
  BY <1>1, <1>2, <1>9, <1>10, <1>11, <1>12, <1>14 DEF FlushPart
<1>16. QED
  BY <1>5, <1>7, <1>8, <1>15, IInvNext

\* The link handlers that do not flush: they change connections, never to open.
LinkStep(g) ==
    HandshakeFailed(g) \/ Lost(g) \/ Closed(g) \/ RetryFires(g)

\* The fail and close handlers and the reconnect timer hand a gateway's one link on.
LEMMA LinkStepKeeps ==
    ASSUME IInv, NEW g \in Gateways, LinkStep(g)
    PROVE  IInv'
<1>1. FlushPart /\ OtherTypes /\ OneLinkPerGateway /\ IdleWhenOff
  BY IInvParts
<1>2. /\ tasks' = tasks /\ sent' = sent /\ trimmed' = trimmed /\ burst' = burst
      /\ sendErrors' = sendErrors /\ flushTimer' = flushTimer /\ phase' = phase
      /\ clockTime' = clockTime /\ crashed' = crashed /\ received' = received
      /\ losses' \in {losses, losses + 1} /\ Running(Manager(g))
  BY DEF LinkStep, HandshakeFailed, Lost, Closed, RetryFires, managerVars, flushVars
<1>3. \E conn \in {"null", "closing", info[g].conn} : info' = [info EXCEPT ![g].conn = conn]
  <2>1. CASE RetryFires(g)
    BY <1>1, <2>1 DEF RetryFires, flushVars, FlushPart, ConnectionInfo
  <2>2. CASE HandshakeFailed(g) \/ Lost(g) \/ Closed(g)
    BY <2>2 DEF HandshakeFailed, Lost, Closed
  <2>3. QED
    BY <2>1, <2>2 DEF LinkStep
<1>4. PICK conn \in {"null", "closing", info[g].conn} :
          info' = [info EXCEPT ![g].conn = conn]
  BY <1>3
<1>5. info[g] \in ConnectionInfo /\ conn \in {"null", "open", "closing"}
  BY <1>1, <1>4 DEF FlushPart, ConnectionInfo
<1>6. /\ info' \in [Gateways -> ConnectionInfo]
      /\ \A h \in Gateways : /\ h # g => info'[h] = info[h]
                             /\ info'[h].queue = info[h].queue
                             /\ info'[h].inMessageCount = info[h].inMessageCount
                             /\ info'[h].outMessageCount = info[h].outMessageCount
                             /\ info'[h].outRateClockTime = info[h].outRateClockTime
                             /\ info'[h].conn = "open" => info[h].conn = "open"
  BY <1>1, <1>4, <1>5 DEF FlushPart, ConnectionInfo
<1>7. Handshakes(g) \in 0 .. 1
  BY DEF Handshakes
<1>8. /\ connecting[g] \in Nat /\ retry[g] \in Nat
      /\ connecting[g] + retry[g] + Linked(g) = 1
  BY <1>1, <1>2 DEF OtherTypes, OneLinkPerGateway
<1>9. \A h \in Gateways \ {g} : connecting'[h] = connecting[h] /\ retry'[h] = retry[h]
  BY <1>1 DEF OtherTypes, LinkStep, HandshakeFailed, Lost, Closed, RetriesArmed, RetryFires
<1>10. /\ connecting' \in [Gateways -> Nat] /\ retry' \in [Gateways -> Nat]
       /\ connecting'[g] + retry'[g] + Linked(g)' = 1
  <2>1. CASE HandshakeFailed(g)
    BY <1>1, <1>8, <2>1 DEF OtherTypes, HandshakeFailed, Linked, FlushPart
  <2>2. CASE Lost(g)
    BY <1>1, <1>8, <2>2 DEF OtherTypes, Lost, Linked, FlushPart
  <2>3. CASE Closed(g)
    BY <1>1, <1>8, <2>3 DEF OtherTypes, Closed, RetriesArmed, Linked, FlushPart
  <2>4. CASE RetryFires(g)
    BY <1>1, <1>7, <1>8, <2>4 DEF OtherTypes, RetryFires, Linked, flushVars
  <2>5. QED
    BY <2>1, <2>2, <2>3, <2>4 DEF LinkStep
<1>11. OtherTypes'
  BY <1>1, <1>2, <1>10 DEF OtherTypes
<1>12. OneLinkPerGateway'
  BY <1>1, <1>2, <1>6, <1>9, <1>10 DEF OneLinkPerGateway, Running, Linked
<1>13. IdleWhenOff'
  BY <1>1, <1>2, <1>6 DEF IdleWhenOff, Running
<1>14. LimiterDisarmed' /\ TasksAddressed' /\ QueueBelowLimit' /\ CountersBalance'
       /\ NoStrandedMessage'
  BY <1>1, <1>2, <1>6 DEF FlushPart, LimiterDisarmed, TasksAddressed, Addressed,
                    QueueBelowLimit, CountersBalance, NoStrandedMessage, Running
<1>15. FlushPart'
  BY <1>1, <1>2, <1>6, <1>14 DEF FlushPart
<1>16. QED
  BY <1>11, <1>12, <1>13, <1>15, IInvNext

\* The open handler moves the handshake to a connection and flushes.
LEMMA OpenedKeeps ==
    ASSUME IInv, NEW g \in Gateways, Opened(g)
    PROVE  IInv'
<1> DEFINE m == Manager(g)
           c == [info[g] EXCEPT !.conn = "open"]
<1>1. FlushPart /\ OtherTypes /\ OneLinkPerGateway /\ IdleWhenOff
  BY IInvParts
<1>2. /\ m \in Managers /\ g \in Own(m) /\ Running(m) /\ connecting[g] > 0
      /\ connecting' = [connecting EXCEPT ![g] = @ - 1] /\ retry' = retry
      /\ Flush(m, g, c, tasks[m]) /\ phase' = phase /\ clockTime' = clockTime
      /\ losses' = losses /\ crashed' = crashed /\ received' = received
  BY ManagerOfGateway DEF Opened
<1>3. /\ c \in ConnectionInfo /\ c.conn = "open" /\ c.queue = info[g].queue
      /\ c.outRateClockTime = 0 /\ c.outMessageCount = Len(sent[g])
      /\ c.inMessageCount = c.outMessageCount + Len(c.queue) + Len(trimmed[g])
  BY CurrentBalances DEF ConnectionInfo
<1>4. tasks[m] \in Seq(Tasks) /\ Addressed(m, tasks[m])
  BY <1>1, <1>2 DEF FlushPart, TasksAddressed
<1> HIDE DEF c
<1>5. /\ FlushPart' /\ info'[g].conn = "open"
      /\ \A h \in Gateways \ {g} : info'[h] = info[h]
  BY <1>2, <1>3, <1>4, FlushKeeps
<1>6. /\ connecting[g] \in Nat /\ retry[g] \in Nat
      /\ connecting[g] + retry[g] + Linked(g) = 1 /\ Linked(g) \in 0 .. 1
  BY <1>1, <1>2 DEF OtherTypes, OneLinkPerGateway, Linked
<1>7. connecting[g] = 1 /\ retry[g] = 0 /\ connecting' \in [Gateways -> Nat]
      /\ connecting'[g] = 0 /\ \A h \in Gateways \ {g} : connecting'[h] = connecting[h]
  BY <1>1, <1>2, <1>6 DEF OtherTypes
<1>8. OtherTypes'
  BY <1>1, <1>2, <1>7 DEF OtherTypes
<1>9. OneLinkPerGateway'
  BY <1>1, <1>2, <1>5, <1>7 DEF OneLinkPerGateway, Linked, Running
<1>10. IdleWhenOff'
  BY <1>1, <1>2, <1>5 DEF IdleWhenOff, Running
<1>11. QED
  BY <1>5, <1>8, <1>9, <1>10, IInvNext

\* Posting to the other loop adds a message task behind everything posted there.
LEMMA PostKeeps ==
    ASSUME IInv, NEW m \in Managers, NEW msg \in Messages, PostMessage(m, msg),
           UNCHANGED <<flushVars, flushTimer, phase, clockTime>>
    PROVE  FlushPart' /\ crashed' \in BOOLEAN
<1>1. FlushPart /\ crashed \in BOOLEAN
  BY DEF IInv, FlushPart, TypeOK
<1>2. /\ info' = info /\ sendErrors' = sendErrors /\ sent' = sent /\ trimmed' = trimmed
      /\ burst' = burst /\ flushTimer' = flushTimer /\ phase' = phase
      /\ clockTime' = clockTime
  BY DEF flushVars
<1>3. CASE tasks' = tasks
  BY <1>1, <1>2, <1>3 DEF PostMessage, FlushPart, LimiterDisarmed, TasksAddressed, Addressed,
       QueueBelowLimit, CountersBalance, NoStrandedMessage, Running
<1>4. CASE tasks' = [tasks EXCEPT ![m] = Append(@, MessageTask(msg))] /\ crashed' = crashed
  <2> DEFINE q == tasks[m]
             e == MessageTask(msg)
  <2>1. q \in Seq(Tasks) /\ e \in Tasks /\ e.kind = "message"
    BY <1>1 DEF FlushPart, MessageTask, Tasks
  <2> HIDE DEF q, e
  <2>2. /\ Append(q, e) \in Seq(Tasks) /\ Len(q) \in Nat /\ Len(Append(q, e)) = Len(q) + 1
        /\ \A i \in 1 .. Len(q) : Append(q, e)[i] = q[i]
        /\ Append(q, e)[Len(q) + 1] = e
    BY <2>1, AppendProperties, LenProperties
  <2>3. /\ tasks' \in [Managers -> Seq(Tasks)] /\ tasks'[m] = Append(q, e)
        /\ \A n \in Managers \ {m} : tasks'[n] = tasks[n]
    BY <1>1, <1>4, <2>2 DEF FlushPart, q, e
  <2>4. Addressed(m, q)
    BY <1>1 DEF FlushPart, TasksAddressed, q
  <2>5. Addressed(m, Append(q, e))
    BY <2>1, <2>2, <2>4 DEF Addressed
  <2>6. TasksAddressed'
    BY <1>1, <2>3, <2>5 DEF FlushPart, TasksAddressed
  <2>7. \A t : Holds(q, t) => Holds(Append(q, e), t)
    BY <2>1, HoldsAfterAppend
  <2>8. \A n \in Managers : \A t : Holds(tasks[n], t) => Holds(tasks'[n], t)
    BY <2>3, <2>7 DEF q
  <2>9. NoStrandedMessage'
    BY <1>1, <1>2, <2>8, ManagerOfGateway DEF FlushPart, NoStrandedMessage, Running
  <2>10. LimiterDisarmed' /\ QueueBelowLimit' /\ CountersBalance'
    BY <1>1, <1>2 DEF FlushPart, LimiterDisarmed, QueueBelowLimit, CountersBalance, Running
  <2>11. QED
    BY <1>1, <1>2, <1>4, <2>3, <2>6, <2>9, <2>10 DEF FlushPart
<1>5. QED
  BY <1>1, <1>3, <1>4 DEF PostMessage, Posted

\* The message handler, delivering or routing, keeps the invariant.
LEMMA ReceiveKeeps ==
    ASSUME IInv, NEW g \in Gateways, Receive(g)
    PROVE  IInv'
<1> DEFINE m == Manager(g)
<1>1. FlushPart /\ OtherTypes /\ OneLinkPerGateway /\ IdleWhenOff
  BY IInvParts
<1>2. /\ m \in Managers /\ Other(m) \in Managers /\ Running(m)
      /\ received < MaxMessages /\ received' = received + 1
      /\ phase' = phase /\ clockTime' = clockTime
      /\ connecting' = connecting /\ retry' = retry /\ losses' = losses
  BY ManagerOfGateway DEF Receive, linkVars, Other, Managers
<1>3. PICK to \in Gateways \cup {Stranger, Malformed} :
          HandleReceived(m, [id |-> received + 1, from |-> g, to |-> to])
  BY DEF Receive
<1> DEFINE msg == [id |-> received + 1, from |-> g, to |-> to]
<1>4. received' \in 0 .. MaxMessages /\ received + 1 \in 1 .. MaxMessages
  BY <1>1, <1>2, RouterAssumption DEF OtherTypes
<1>5. msg \in Messages
  BY <1>4 DEF Messages
<1> HIDE DEF msg
<1>6. FlushPart' /\ crashed' \in BOOLEAN /\ \A h \in Gateways : info'[h].conn = info[h].conn
  <2>1. CASE ~Dropped(msg) /\ msg.to \in Own(m)
    <3>1. Deliver(m, msg, tasks[m])
      BY <1>3, <2>1 DEF HandleReceived, msg
    <3>2. tasks[m] \in Seq(Tasks) /\ Addressed(m, tasks[m])
      BY <1>1, <1>2 DEF FlushPart, TasksAddressed
    <3>3. QED
      BY <1>1, <1>2, <1>5, <2>1, <3>1, <3>2, DeliverKeeps DEF OtherTypes
  <2>2. CASE ~(~Dropped(msg) /\ msg.to \in Own(m))
    <3>1. /\ UNCHANGED <<flushVars, flushTimer>>
          /\ UNCHANGED <<tasks, crashed>> \/ PostMessage(Other(m), msg)
      BY <1>3, <2>2 DEF HandleReceived, msg
    <3>2. CASE PostMessage(Other(m), msg)
      BY <1>2, <1>5, <3>1, <3>2, PostKeeps DEF flushVars
    <3>3. CASE UNCHANGED <<tasks, crashed>>
      BY <1>1, <1>2, <3>1, <3>3 DEF flushVars, FlushPart, OtherTypes, LimiterDisarmed,
           TasksAddressed, Addressed, QueueBelowLimit, CountersBalance, NoStrandedMessage,
           Running
    <3>4. QED
      BY <3>1, <3>2, <3>3
  <2>3. QED
    BY <2>1, <2>2
<1>7. OtherTypes'
  BY <1>1, <1>2, <1>4, <1>6 DEF OtherTypes
<1>8. OneLinkPerGateway' /\ IdleWhenOff'
  BY <1>1, <1>2, <1>6, LinksKept
<1>9. QED
  BY <1>6, <1>7, <1>8, IInvNext

\* Taking the oldest task off a loop leaves a well-formed loop.
LEMMA TaskTaken ==
    ASSUME IInv, NEW m \in Managers, tasks[m] # <<>>
    PROVE  /\ Head(tasks[m]) \in Tasks
           /\ Head(tasks[m]).kind = "flush" => Head(tasks[m]).to \in Own(m)
           /\ Tail(tasks[m]) \in Seq(Tasks) /\ Addressed(m, Tail(tasks[m]))
           /\ \A t : Holds(tasks[m], t) /\ t # Head(tasks[m]) => Holds(Tail(tasks[m]), t)
<1>1. tasks[m] \in Seq(Tasks) /\ Addressed(m, tasks[m])
  BY DEF IInv, TypeOK, TasksAddressed
<1>2. /\ Len(tasks[m]) \in Nat \ {0} /\ Len(Tail(tasks[m])) = Len(tasks[m]) - 1
      /\ Head(tasks[m]) = tasks[m][1] /\ Head(tasks[m]) \in Tasks
      /\ Tail(tasks[m]) \in Seq(Tasks)
      /\ \A i \in 1 .. Len(Tail(tasks[m])) : Tail(tasks[m])[i] = tasks[m][i + 1]
  BY <1>1, HeadTailProperties, EmptySeq
<1>3. Addressed(m, Tail(tasks[m]))
  BY <1>1, <1>2 DEF Addressed
<1>4. Head(tasks[m]).kind = "flush" => Head(tasks[m]).to \in Own(m)
  BY <1>1, <1>2 DEF Addressed
<1>5. QED
  BY <1>1, <1>2, <1>3, <1>4, HoldsAfterTail

\* A posted handler or the flush timer keeps the invariant.
LEMMA RunTaskKeeps ==
    ASSUME IInv, NEW m \in Managers, RunTask(m)
    PROVE  IInv'
<1>1. FlushPart /\ OtherTypes /\ OneLinkPerGateway /\ IdleWhenOff
  BY IInvParts
<1>2. /\ Running(m) /\ phase' = phase /\ clockTime' = clockTime /\ received' = received
      /\ connecting' = connecting /\ retry' = retry /\ losses' = losses
  BY DEF RunTask, linkVars
<1>3. Ready(m) = IF tasks[m] = <<>> THEN {} ELSE {Head(tasks[m])}
  BY <1>1 DEF Ready, FlushPart, LimiterDisarmed
<1> DEFINE task == Head(tasks[m])
           rest == Tail(tasks[m])
<1>4. /\ tasks[m] # <<>>
      /\ \/ task.kind = "message" /\ HandlePosted(m, task.msg)
         \/ /\ task.kind = "flush" /\ Flush(m, task.to, info[task.to], rest)
            /\ crashed' = crashed
         \/ task.kind = "timer"
  <2>1. PICK t \in Ready(m) :
            CASE t.kind = "message" -> HandlePosted(m, t.msg)
              [] t.kind = "flush" ->
                     Flush(m, t.to, info[t.to], Tail(tasks[m])) /\ UNCHANGED crashed
              [] t.kind = "timer" -> FlushByTimer(m, t.to) /\ UNCHANGED crashed
    BY DEF RunTask
  <2>2. tasks[m] # <<>> /\ t = task
    BY <1>3, <2>1
  <2>3. task \in Tasks
    BY <2>2, TaskTaken
  <2>4. task.kind \in {"message", "flush"}
    BY <2>3 DEF Tasks
  <2>5. QED
    BY <2>1, <2>2, <2>4
<1>5. /\ task \in Tasks /\ rest \in Seq(Tasks) /\ Addressed(m, rest)
      /\ task.kind = "flush" => task.to \in Own(m)
      /\ \A t : Holds(tasks[m], t) /\ t # task => Holds(rest, t)
  BY <1>4, TaskTaken
<1>6. /\ task.kind \in {"message", "flush"}
      /\ task.kind = "message" => task.msg \in Messages
      /\ task.kind = "flush" => task = FlushTask(task.to)
  BY <1>5 DEF Tasks, FlushTask
<1>7. FlushPart' /\ crashed' \in BOOLEAN /\ \A h \in Gateways : info'[h].conn = info[h].conn
  <2>1. CASE task.kind = "flush"
    <3> DEFINE g == task.to
    <3>1. g \in Own(m) /\ g \in Gateways /\ Flush(m, g, info[g], rest) /\ crashed' = crashed
      BY <1>4, <1>5, <2>1, GatewayOfManager
    <3>2. \A h \in Gateways \ {g} : FlushTask(h) # task
      BY <1>6, <2>1 DEF FlushTask
    <3>3. \A h \in Gateways \ {g} : Holds(tasks[m], FlushTask(h)) => Holds(rest, FlushTask(h))
      BY <1>5, <3>2
    <3>4. /\ info[g] \in ConnectionInfo /\ info[g].outRateClockTime = 0
          /\ info[g].outMessageCount = Len(sent[g])
          /\ info[g].inMessageCount
                = info[g].outMessageCount + Len(info[g].queue) + Len(trimmed[g])
      BY <3>1, CurrentBalances
    <3> HIDE DEF task, rest, g
    <3>5. /\ FlushPart' /\ info'[g].conn = info[g].conn
          /\ \A h \in Gateways \ {g} : info'[h] = info[h]
      BY <1>2, <1>5, <3>1, <3>3, <3>4, FlushKeeps
    <3>6. QED
      BY <1>1, <3>1, <3>5 DEF OtherTypes
  <2>2. CASE task.kind = "message"
    <3> DEFINE msg == task.msg
    <3>1. msg \in Messages /\ HandlePosted(m, msg)
      BY <1>4, <1>6, <2>2
    <3>2. \A h \in Gateways : FlushTask(h) # task
      BY <2>2 DEF FlushTask
    <3>3. \A h \in Gateways : Holds(tasks[m], FlushTask(h)) => Holds(rest, FlushTask(h))
      BY <1>5, <3>2
    <3>4. CASE ~Dropped(msg) /\ msg.to \in Own(m)
      <4>1. Deliver(m, msg, rest)
        BY <3>1, <3>4 DEF HandlePosted
      <4> HIDE DEF task, rest, msg
      <4>2. QED
        BY <1>1, <1>2, <1>5, <3>1, <3>3, <3>4, <4>1, DeliverKeeps DEF OtherTypes
    <3>5. CASE ~(~Dropped(msg) /\ msg.to \in Own(m))
      <4>1. /\ tasks' = [tasks EXCEPT ![m] = rest] /\ crashed' = crashed
            /\ info' = info /\ sendErrors' = sendErrors /\ sent' = sent
            /\ trimmed' = trimmed /\ burst' = burst /\ flushTimer' = flushTimer
        BY <3>1, <3>5 DEF HandlePosted, NotRouted, flushVars
      <4> HIDE DEF task, rest, msg
      <4>2. /\ tasks' \in [Managers -> Seq(Tasks)] /\ tasks'[m] = rest
            /\ \A n \in Managers \ {m} : tasks'[n] = tasks[n]
        BY <1>1, <1>5, <4>1 DEF FlushPart
      <4>3. \A n \in Managers : \A h \in Gateways :
                Holds(tasks[n], FlushTask(h)) => Holds(tasks'[n], FlushTask(h))
        BY <3>3, <4>2
      <4>4. NoStrandedMessage'
        BY <1>1, <1>2, <4>1, <4>3, ManagerOfGateway DEF FlushPart, NoStrandedMessage, Running
      <4>5. TasksAddressed'
        BY <1>1, <1>5, <4>2 DEF FlushPart, TasksAddressed
      <4>6. LimiterDisarmed' /\ QueueBelowLimit' /\ CountersBalance'
        BY <1>1, <1>2, <4>1 DEF FlushPart, LimiterDisarmed, QueueBelowLimit,
             CountersBalance, Running
      <4>7. QED
        BY <1>1, <4>1, <4>2, <4>4, <4>5, <4>6 DEF FlushPart, OtherTypes
    <3>6. QED
      BY <3>4, <3>5
  <2>3. QED
    BY <1>6, <2>1, <2>2
<1>8. OtherTypes'
  BY <1>1, <1>2, <1>7 DEF OtherTypes
<1>9. OneLinkPerGateway' /\ IdleWhenOff'
  BY <1>1, <1>2, <1>7, LinksKept
<1>10. QED
  BY <1>7, <1>8, <1>9, IInvNext

\* A step that changes nothing keeps the invariant.
LEMMA StutterKeeps == IInv /\ UNCHANGED vars => IInv'
BY DEF IInv, TypeOK, LimiterDisarmed, TasksAddressed, Addressed, OneLinkPerGateway, Linked,
       IdleWhenOff, QueueBelowLimit, CountersBalance, NoStrandedMessage, Running, Holds,
       vars, managerVars, linkVars, flushVars

\* Every step keeps the invariant: one case for each action of Next.
LEMMA NextKeeps == IInv /\ [Next]_vars => IInv'
<1> SUFFICES ASSUME IInv, [Next]_vars PROVE IInv'
  OBVIOUS
<1>1. CASE UNCHANGED vars
  BY <1>1, StutterKeeps
<1>2. CASE Finished
  BY <1>2, StutterKeeps DEF Finished
<1>3. ASSUME NEW g \in Gateways, GatewayStep(g) PROVE IInv'
  BY <1>3, OpenedKeeps, ReceiveKeeps, LinkStepKeeps DEF GatewayStep, LinkStep
<1>4. ASSUME NEW m \in Managers, ManagerStep(m) PROVE IInv'
  BY <1>4, StartKeeps, RunTaskKeeps, ClockTickKeeps, StopKeeps DEF ManagerStep
<1>5. QED
  BY <1>1, <1>2, <1>3, <1>4 DEF Next

-----------------------------------------------------------------------------
(* The theorems *)

\* The router's reachable states satisfy the inductive invariant.
THEOREM Invariance == Spec => []IInv
BY InitKeeps, NextKeeps, PTL DEF Spec

\* Every variable keeps its type (TypeOK), for any number of gateways and messages.
THEOREM TypeCorrect == Spec => []TypeOK
<1>1. IInv => TypeOK
  BY DEF IInv
<1>2. QED
  BY <1>1, Invariance, PTL

\* The handlers of connectGateway and tryConnectGatewayLater leave each gateway of
\* a running manager exactly one link (OneLinkPerGateway).
THEOREM OneLink == Spec => []OneLinkPerGateway
<1>1. IInv => OneLinkPerGateway
  BY DEF IInv
<1>2. QED
  BY <1>1, Invariance, PTL

\* flushMessageQueue keeps every queue below its limit (QueueBelowLimit).
THEOREM QueuesBounded == Spec => []QueueBelowLimit
<1>1. IInv => QueueBelowLimit
  BY DEF IInv
<1>2. QED
  BY <1>1, Invariance, PTL

\* No message is lost unaccounted for (CountersBalance).
THEOREM CountersCorrect == Spec => []CountersBalance
<1>1. IInv => CountersBalance
  BY DEF IInv
<1>2. QED
  BY <1>1, Invariance, PTL

\* No message is stranded (NoStrandedMessage), whatever the limits and batch size.
THEOREM NothingStranded == Spec => []NoStrandedMessage
<1>1. IInv => NoStrandedMessage
  BY DEF IInv
<1>2. QED
  BY <1>1, Invariance, PTL

\* No connection of a running loop is over the limit.
NeverThrottled ==
    \A g \in Gateways : Running(Manager(g)) => ~Throttled(Manager(g), info[g])

\* outRateClockTime is never assigned, so the limiter of flushMessageQueue never
\* acts (NeverThrottled), whatever the limits.
THEOREM LimiterNeverActs == Spec => []NeverThrottled
<1>1. IInv => NeverThrottled
  <2>1. SUFFICES ASSUME IInv, NEW g \in Gateways, Running(Manager(g))
                 PROVE  ~Throttled(Manager(g), info[g])
    BY DEF NeverThrottled
  <2>2. /\ clockTime[Manager(g)] \in Nat /\ clockTime[Manager(g)] > 0
        /\ info[g].outRateClockTime = 0
    BY <2>1, ManagerOfGateway DEF IInv, TypeOK, LimiterDisarmed
  <2>3. CurrentRate(info[g], clockTime[Manager(g)]) = 0
    BY <2>2 DEF CurrentRate
  <2>4. RateLimit[Manager(g)] \in Nat \ {0}
    BY ManagerOfGateway, RouterAssumption
  <2>5. QED
    BY <2>3, <2>4 DEF Throttled
<1>2. QED
  BY <1>1, Invariance, PTL
=============================================================================
