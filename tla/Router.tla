------------------------------- MODULE Router -------------------------------
(***************************************************************************)
(* The message router of wss/websocketppserver2: WsGatewayManager and      *)
(* WssGatewayManager, each with its own single-threaded asio loop, and the *)
(* two functions that post messages from one loop to the other.            *)
(*                                                                         *)
(* The managers are the same program up to protocol names and limits, so   *)
(* one module models both, indexed by "ws" and "wss".  A handler runs to   *)
(* completion on its loop, hence is one action; the loops interleave, and  *)
(* they share only the posted tasks and the client pointer (phase).        *)
(***************************************************************************)
EXTENDS Naturals, Sequences

CONSTANTS
    WsGateways,    \* keys of wsServerMap
    WssGateways,   \* keys of wssServerMap
    Stranger,      \* a wsgId no server map holds
    Malformed,     \* stands for the wsgId of a text that is not a JSON message
    NoGateway,     \* flushQueueTimer == nullptr
    BadUrls,       \* gateways whose url get_connection refuses
    QueueLimit,    \* per manager: 512*1024 and 256*1024 in the code
    RateLimit,     \* per manager: 128*1024 and 64*1024
    Batch,         \* messages one flush may send: 128
    MaxMessages,   \* bound: messages the gateways send in a behaviour
    MaxLosses,     \* bound: connections lost
    MaxSendErrors, \* bound: errors conn->send returns on an open connection
    MaxTicks       \* bound: an update of a clock finds the sum of both no larger

Managers == {"ws", "wss"}
Gateways == WsGateways \cup WssGateways
Own(m) == IF m = "ws" THEN WsGateways ELSE WssGateways
Manager(g) == IF g \in WsGateways THEN "ws" ELSE "wss"
Other(m) == IF m = "ws" THEN "wss" ELSE "ws"

ASSUME RouterAssumption ==
    /\ WsGateways \cap WssGateways = {}
    /\ Gateways \cap {Stranger, Malformed, NoGateway} = {}
    /\ Malformed # Stranger
    /\ BadUrls \subseteq Gateways
    /\ QueueLimit \in [Managers -> Nat \ {0}]
    /\ RateLimit \in [Managers -> Nat \ {0}]
    /\ Batch \in Nat \ {0}
    /\ MaxMessages \in Nat /\ MaxLosses \in Nat
    /\ MaxSendErrors \in Nat /\ MaxTicks \in Nat

\* A message carries the wsgId it is for; id and from identify it in the model.
Messages == [id : 1 .. MaxMessages, from : Gateways, to : Gateways \cup {Stranger, Malformed}]

MessageTask(msg) == [kind |-> "message", msg |-> msg]
FlushTask(g) == [kind |-> "flush", to |-> g]
TimerTask(g) == [kind |-> "timer", to |-> g]

VARIABLES
    phase,       \* per manager: "off", "running" (asio is initialised), "stopped"
    tasks,       \* per manager: handlers posted to its loop, oldest first
    flushTimer,  \* per manager: the target flushQueueTimer will flush, or NoGateway
    clockTime,   \* per manager
    info,        \* per gateway: its connection_info
    connecting,  \* per gateway: handshakes in progress
    retry,       \* per gateway: reconnect timers pending
    crashed,     \* a null client was dereferenced: the process is gone
    received,    \* number of messages received so far
    losses, sendErrors,  \* counted against their bounds
    sent,        \* history, per gateway: messages handed to its connections
    trimmed,     \* history, per gateway: messages dropped from its full queue
    burst        \* history, per gateway: messages sent since the last clock update

managerVars == <<phase, tasks, flushTimer, clockTime>>
linkVars == <<connecting, retry, losses>>
flushVars == <<info, sendErrors, sent, trimmed, burst>>
vars == <<managerVars, linkVars, flushVars, crashed, received>>

Running(m) == phase[m] = "running"

NewInfo == [conn |-> "null", queue |-> <<>>, inMessageCount |-> 0,
            outMessageCount |-> 0, outRate |-> 0, outRateClockTime |-> 0]

Init ==
    /\ phase = [m \in Managers |-> "off"]
    /\ tasks = [m \in Managers |-> <<>>]
    /\ flushTimer = [m \in Managers |-> NoGateway]
    /\ clockTime = [m \in Managers |-> 0]
    /\ info = [g \in Gateways |-> NewInfo]
    /\ connecting = [g \in Gateways |-> 0]
    /\ retry = [g \in Gateways |-> 0]
    /\ crashed = FALSE
    /\ received = 0 /\ losses = 0 /\ sendErrors = 0
    /\ sent = [g \in Gateways |-> <<>>]
    /\ trimmed = [g \in Gateways |-> <<>>]
    /\ burst = [g \in Gateways |-> 0]

-----------------------------------------------------------------------------
(* flushMessageQueue *)

Prefix(q, n) == SubSeq(q, 1, n)
Suffix(q, n) == SubSeq(q, n + 1, Len(q))

\* Mutants of Excess: a limit that is off by one; a trim that clears the queue.
ExcessOffByOne(q, limit) == IF Len(q) <= limit THEN 0 ELSE Len(q) - limit
ExcessAll(q, limit) == IF Len(q) < limit THEN 0 ELSE Len(q)

\* How many messages the trim loop pops: it stops below the limit.
Excess(q, limit) == IF Len(q) < limit THEN 0 ELSE Len(q) - limit + 1

\* outRate is zeroed when the clock moved; no code assigns outRateClockTime.
CurrentRate(c, now) == IF c.outRateClockTime # now THEN 0 ELSE c.outRate

\* A batch ends early only at a send error; what was not sent stays queued.
BatchSizes(q) ==
    LET full == IF Len(q) < Batch THEN Len(q) ELSE Batch
    IN  IF sendErrors < MaxSendErrors THEN 0 .. full ELSE {full}

\* Mutants: the failed send is counted; the last message sent is not popped; the
\* flush is posted again only after a full batch.
AfterBatchCountsError(c, q, rate, n) ==
    [c EXCEPT !.queue = Suffix(q, n), !.outRate = rate + n,
              !.outMessageCount = @ + IF n < Len(q) THEN n + 1 ELSE n]
AfterBatchNoPop(c, q, rate, n) ==
    [c EXCEPT !.queue = Suffix(q, IF n = 0 THEN 0 ELSE n - 1),
              !.outMessageCount = @ + n, !.outRate = rate + n]
AfterBatchRateDown(c, q, rate, n) ==
    [c EXCEPT !.queue = Suffix(q, n), !.outMessageCount = @ + n, !.outRate = rate - n]
RepostFullBatch(q, n) == n < Len(q) /\ n = Batch

\* The connection_info after a batch of n, and whether another flush is posted.
AfterBatch(c, q, rate, n) ==
    [c EXCEPT !.queue = Suffix(q, n), !.outMessageCount = @ + n, !.outRate = rate + n]
Repost(q, n) == n < Len(q)

Throttled(m, c) == CurrentRate(c, clockTime[m]) >= RateLimit[m]

\* Nothing is sent: without an open connection the open handler will flush.
Hold(m, g, c, kept, rest) ==
    /\ info' = [info EXCEPT ![g] = [c EXCEPT !.queue = kept]]
    /\ tasks' = [tasks EXCEPT ![m] = rest]
    /\ UNCHANGED <<sendErrors, sent, burst>>

SendBatch(m, g, c, kept, rest) ==
    \E n \in BatchSizes(kept) :
        /\ info' = [info EXCEPT ![g] = AfterBatch(c, kept, CurrentRate(c, clockTime[m]), n)]
        /\ sent' = [sent EXCEPT ![g] = @ \o Prefix(kept, n)]
        /\ burst' = [burst EXCEPT ![g] = @ + n]
        /\ sendErrors' = IF n < Len(kept) /\ n < Batch THEN sendErrors + 1 ELSE sendErrors
        /\ tasks' = [tasks EXCEPT ![m] =
                        IF Repost(kept, n) THEN Append(rest, FlushTask(g)) ELSE rest]

\* Trim, then send.  c is the connection_info as the caller left it, rest the
\* tasks of the loop behind the running one.
DrainQueue(m, g, c, rest) ==
    LET excess == Excess(c.queue, QueueLimit[m])
        kept   == Suffix(c.queue, excess)
    IN  /\ trimmed' = [trimmed EXCEPT ![g] = @ \o Prefix(c.queue, excess)]
        /\ IF c.conn = "open" /\ ~Throttled(m, c)
           THEN SendBatch(m, g, c, kept, rest)
           ELSE Hold(m, g, c, kept, rest)

\* flushMessageQueue: a throttled flush arms flushQueueTimer if it is free.
Flush(m, g, c, rest) ==
    /\ DrainQueue(m, g, c, rest)
    /\ flushTimer' = [flushTimer EXCEPT ![m] =
           IF c.conn = "open" /\ Throttled(m, c) /\ @ = NoGateway THEN g ELSE @]

\* The timer's callback flushes first and clears flushQueueTimer afterwards.
FlushByTimer(m, g) ==
    /\ DrainQueue(m, g, info[g], tasks[m])
    /\ flushTimer' = [flushTimer EXCEPT ![m] = NoGateway]

-----------------------------------------------------------------------------
(* handleMessage, postMessage *)

PostedFirst(m, msg) == <<MessageTask(msg)>> \o tasks[m]  \* mutant: it overtakes
Posted(m, msg) == Append(tasks[m], MessageTask(msg))

\* Called on the other manager's loop; the client is null unless m runs.
PostMessage(m, msg) ==
    IF Own(m) = {} THEN UNCHANGED <<tasks, crashed>>
    ELSE IF Running(m)
         THEN /\ tasks' = [tasks EXCEPT ![m] = Posted(m, msg)]
              /\ UNCHANGED crashed
         ELSE crashed' = TRUE /\ UNCHANGED tasks

\* Not JSON, or for the gateway it came from.
Dropped(msg) == msg.to \in {Malformed, msg.from}

Enqueued(c, msg) ==
    [c EXCEPT !.queue = Append(@, msg), !.inMessageCount = @ + 1]

\* A message for a gateway of this manager is queued and flushed.
Deliver(m, msg, rest) ==
    /\ Flush(m, msg.to, Enqueued(info[msg.to], msg), rest)
    /\ UNCHANGED crashed

\* A message off the wire: queued here or routed to the other manager.
HandleReceived(m, msg) ==
    IF ~Dropped(msg) /\ msg.to \in Own(m) THEN Deliver(m, msg, tasks[m])
    ELSE /\ IF Dropped(msg) THEN UNCHANGED <<tasks, crashed>>
            ELSE PostMessage(Other(m), msg)
         /\ UNCHANGED <<flushVars, flushTimer>>

\* Mutant of NotRouted: needRoute is ignored, the message is posted back.
RoutedBack(m, msg) ==
    [tasks EXCEPT ![m] = Tail(@), ![Other(m)] = Append(@, MessageTask(msg))]
NotRouted(m, msg) == [tasks EXCEPT ![m] = Tail(@)]

\* A message the other manager posted: queued here or dropped, never routed on.
HandlePosted(m, msg) ==
    IF ~Dropped(msg) /\ msg.to \in Own(m) THEN Deliver(m, msg, Tail(tasks[m]))
    ELSE /\ tasks' = NotRouted(m, msg)
         /\ UNCHANGED <<flushVars, flushTimer, crashed>>

-----------------------------------------------------------------------------
(* The loops *)

\* connectGateway starts a handshake, or arms the retry timer when get_connection
\* refuses the url.
Handshakes(g) == IF g \in BadUrls THEN 0 ELSE 1

\* run(): one connection_info and one connect attempt per gateway.
Start(m) ==
    /\ phase[m] = "off" /\ Own(m) # {}
    /\ phase' = [phase EXCEPT ![m] = "running"]
    /\ clockTime' = [clockTime EXCEPT ![m] = 1]
    /\ connecting' = [g \in Gateways |->
           IF g \in Own(m) THEN Handshakes(g) ELSE connecting[g]]
    /\ retry' = [g \in Gateways |-> IF g \in Own(m) THEN 1 - Handshakes(g) ELSE retry[g]]
    /\ UNCHANGED <<tasks, flushTimer, losses, flushVars, crashed, received>>

\* The open handler stores the connection and flushes.
Opened(g) ==
    LET m == Manager(g) IN
    /\ Running(m) /\ connecting[g] > 0
    /\ connecting' = [connecting EXCEPT ![g] = @ - 1]
    /\ Flush(m, g, [info[g] EXCEPT !.conn = "open"], tasks[m])
    /\ UNCHANGED <<phase, clockTime, retry, losses, crashed, received>>

\* The fail handler.
HandshakeFailed(g) ==
    /\ Running(Manager(g)) /\ connecting[g] > 0
    /\ connecting' = [connecting EXCEPT ![g] = @ - 1]
    /\ retry' = [retry EXCEPT ![g] = @ + 1]
    /\ info' = [info EXCEPT ![g].conn = "null"]
    /\ UNCHANGED <<managerVars, losses, sendErrors, sent, trimmed, burst, crashed, received>>

\* A close frame or a transport error: the state leaves open at once, the close
\* handler runs later.
Lost(g) ==
    /\ Running(Manager(g)) /\ info[g].conn = "open"
    /\ losses < MaxLosses
    /\ losses' = losses + 1
    /\ info' = [info EXCEPT ![g].conn = "closing"]
    /\ UNCHANGED <<managerVars, connecting, retry, sendErrors, sent, trimmed, burst,
                   crashed, received>>

RetriesForgotten(g) == retry[g]  \* mutant: no timer is armed
RetriesArmed(g) == retry[g] + 1

\* The close handler.
Closed(g) ==
    /\ Running(Manager(g)) /\ info[g].conn = "closing"
    /\ info' = [info EXCEPT ![g].conn = "null"]
    /\ retry' = [retry EXCEPT ![g] = RetriesArmed(g)]
    /\ UNCHANGED <<managerVars, connecting, losses, sendErrors, sent, trimmed, burst,
                   crashed, received>>

\* The reconnect timer's callback: connectGateway.
RetryFires(g) ==
    /\ Running(Manager(g)) /\ retry[g] > 0
    /\ retry' = [retry EXCEPT ![g] = @ - Handshakes(g)]
    /\ connecting' = [connecting EXCEPT ![g] = @ + Handshakes(g)]
    /\ UNCHANGED <<managerVars, losses, flushVars, crashed, received>>

\* The message handler: websocketpp delivers data frames on open connections only.
Receive(g) ==
    LET m == Manager(g) IN
    /\ Running(m) /\ info[g].conn = "open"
    /\ received < MaxMessages
    /\ received' = received + 1
    /\ \E to \in Gateways \cup {Stranger, Malformed} :
           HandleReceived(m, [id |-> received + 1, from |-> g, to |-> to])
    /\ UNCHANGED <<phase, clockTime, linkVars>>

\* The loop runs its oldest posted handler, or an expired flush timer.
Ready(m) ==
    (IF tasks[m] = <<>> THEN {} ELSE {Head(tasks[m])}) \cup
    (IF flushTimer[m] = NoGateway THEN {} ELSE {TimerTask(flushTimer[m])})

RunTask(m) ==
    /\ Running(m)
    /\ \E task \in Ready(m) :
           CASE task.kind = "message" -> HandlePosted(m, task.msg)
             [] task.kind = "flush" ->
                    Flush(m, task.to, info[task.to], Tail(tasks[m])) /\ UNCHANGED crashed
             [] task.kind = "timer" -> FlushByTimer(m, task.to) /\ UNCHANGED crashed
    /\ UNCHANGED <<phase, clockTime, linkVars, received>>

ClockTick(m) ==
    /\ Running(m) /\ clockTime[m] + clockTime[Other(m)] <= MaxTicks
    /\ clockTime' = [clockTime EXCEPT ![m] = @ + 1]
    /\ burst' = [g \in Gateways |-> IF g \in Own(m) THEN 0 ELSE burst[g]]
    /\ UNCHANGED <<phase, tasks, flushTimer, linkVars, info, sendErrors, sent, trimmed,
                   crashed, received>>

\* client->run() throws, run() catches: the client is null from here on and
\* everything posted to its loop is destroyed with it.
Stop(m) ==
    /\ Running(m)
    /\ phase' = [phase EXCEPT ![m] = "stopped"]
    /\ tasks' = [tasks EXCEPT ![m] = <<>>]
    /\ flushTimer' = [flushTimer EXCEPT ![m] = NoGateway]
    /\ connecting' = [g \in Gateways |-> IF g \in Own(m) THEN 0 ELSE connecting[g]]
    /\ retry' = [g \in Gateways |-> IF g \in Own(m) THEN 0 ELSE retry[g]]
    /\ UNCHANGED <<clockTime, losses, flushVars, crashed, received>>

\* main returns once the run() it started have; a crash ends the process too.
Finished ==
    /\ crashed \/ \A m \in Managers : Own(m) # {} => phase[m] = "stopped"
    /\ UNCHANGED vars

GatewayStep(g) ==
    \/ Opened(g) \/ HandshakeFailed(g) \/ Lost(g) \/ Closed(g)
    \/ RetryFires(g) \/ Receive(g)

ManagerStep(m) == Start(m) \/ RunTask(m) \/ ClockTick(m) \/ Stop(m)

Next ==
    \/ /\ ~crashed
       /\ \/ \E g \in Gateways : GatewayStep(g)
          \/ \E m \in Managers : ManagerStep(m)
    \/ Finished

\* The loops run what is posted, timers expire, and a handshake in progress
\* ends one way or the other (set_open_handshake_timeout, set_close_handshake_timeout).
Fairness ==
    /\ \A m \in Managers : WF_vars(~crashed /\ RunTask(m)) /\ WF_vars(~crashed /\ Start(m))
    /\ \A g \in Gateways :
           /\ WF_vars(~crashed /\ (Opened(g) \/ HandshakeFailed(g)))
           /\ WF_vars(~crashed /\ Closed(g))
           /\ WF_vars(~crashed /\ RetryFires(g))

Spec == Init /\ [][Next]_vars
FairSpec == Spec /\ Fairness

-----------------------------------------------------------------------------
(* Properties *)

Tasks == [kind : {"message"}, msg : Messages] \cup [kind : {"flush"}, to : Gateways]

ConnectionInfo ==
    [conn : {"null", "open", "closing"}, queue : Seq(Messages), inMessageCount : Nat,
     outMessageCount : Nat, outRate : Nat, outRateClockTime : Nat]

\* Every variable has its type.
TypeOK ==
    /\ phase \in [Managers -> {"off", "running", "stopped"}]
    /\ tasks \in [Managers -> Seq(Tasks)]
    /\ flushTimer \in [Managers -> Gateways \cup {NoGateway}]
    /\ clockTime \in [Managers -> Nat]
    /\ info \in [Gateways -> ConnectionInfo]
    /\ connecting \in [Gateways -> Nat] /\ retry \in [Gateways -> Nat]
    /\ crashed \in BOOLEAN
    /\ received \in 0 .. MaxMessages /\ losses \in Nat /\ sendErrors \in Nat
    /\ sent \in [Gateways -> Seq(Messages)] /\ trimmed \in [Gateways -> Seq(Messages)]
    /\ burst \in [Gateways -> Nat]

Linked(g) == IF info[g].conn = "null" THEN 0 ELSE 1

\* A running manager always has exactly one of: a handshake, a retry timer, a
\* connection, for each of its gateways.  None, and the gateway is never
\* reconnected; two, and the second connection replaces the first in the map.
OneLinkPerGateway ==
    \A g \in Gateways : Running(Manager(g)) => connecting[g] + retry[g] + Linked(g) = 1

\* A queue is below its limit whenever no handler runs, connected or not.
QueueBelowLimit ==
    \A g \in Gateways : Len(info[g].queue) < QueueLimit[Manager(g)]

\* The counters of the connection_info balance: what came in has gone out, is
\* queued, or was trimmed.
CountersBalance ==
    \A g \in Gateways :
        /\ info[g].outMessageCount = Len(sent[g])
        /\ info[g].inMessageCount =
               info[g].outMessageCount + Len(info[g].queue) + Len(trimmed[g])

Holds(q, task) == \E i \in 1 .. Len(q) : q[i] = task

\* Messages queued for an open connection always have a flush on its way: no
\* message waits for an unrelated one to push it out.
NoStrandedMessage ==
    \A g \in Gateways :
        /\ Running(Manager(g))
        /\ info[g].conn = "open"
        /\ info[g].queue # <<>>
        => \/ Holds(tasks[Manager(g)], FlushTask(g))
           \/ flushTimer[Manager(g)] = g

\* The messages on their way to a manager, and those it has queued, dropped or sent.
Posts(m) == {i \in 1 .. Len(tasks[m]) : tasks[m][i].kind = "message"}
InTransit(m) == {tasks[m][i].msg : i \in Posts(m)}
Handled(g) == (sent[g] \o info[g].queue) \o trimmed[g]

Ids(q) == {q[i].id : i \in 1 .. Len(q)}
Distinct(q) == \A i, j \in 1 .. Len(q) : q[i].id = q[j].id => i = j

\* The router never duplicates a message, over reconnects, send errors and
\* repeated flushes: an id is in one place, and there once.
AtMostOneCopy ==
    /\ \A g \in Gateways :
           /\ Distinct(Handled(g))
           /\ \A h \in Gateways \ {g} : Ids(Handled(g)) \cap Ids(Handled(h)) = {}
    /\ \A m \in Managers :
           /\ \A i, j \in Posts(m) : tasks[m][i].msg.id = tasks[m][j].msg.id => i = j
           /\ \A msg \in InTransit(m) :
                  /\ \A other \in InTransit(Other(m)) : msg.id # other.id
                  /\ \A g \in Gateways : msg.id \notin Ids(Handled(g))

\* Along the way to a gateway -- posted, queued, sent -- the messages of one
\* source keep the order in which they were received.
InOrder(q) ==
    \A i, j \in 1 .. Len(q) : i < j /\ q[i].from = q[j].from => q[i].id < q[j].id
Route(g) == sent[g] \o info[g].queue

SourceOrderKept ==
    /\ \A g \in Gateways : InOrder(Route(g))
    /\ \A m \in Managers :
           /\ \A i, j \in Posts(m) :
                  i < j /\ tasks[m][i].msg.from = tasks[m][j].msg.from
                      => tasks[m][i].msg.id < tasks[m][j].msg.id
           /\ \A msg \in InTransit(m) : \A g \in Own(m) : \A i \in 1 .. Len(Route(g)) :
                  Route(g)[i].from = msg.from => Route(g)[i].id < msg.id

\* Towards each gateway the managers are a lossy queue (module LossyQueue).
GatewayQueues == INSTANCE LossyQueue WITH
    Targets <- Gateways,
    Limit <- [g \in Gateways |-> QueueLimit[Manager(g)]],
    queue <- [g \in Gateways |-> info[g].queue],
    delivered <- sent,
    lost <- trimmed

\* The flush handler implements the lossy queue, over trims, partial batches and
\* lost connections.
ImplementsLossyQueue == GatewayQueues!Spec

\* WsgBusCommon.h says the route functions "can be called on other thread":
\* such a call never kills the process.
RouteIsSafe == ~crashed

\* The comments on the limit of outRate (WsGatewayManager.cpp:201): one
\* connection sends at most a batch over the limit between two clock updates.
RateIsLimited ==
    \A g \in Gateways : burst[g] < RateLimit[Manager(g)] + Batch

\* A queue with an open connection, which takes a usable url, is emptied, unless the
\* connection is lost.
Waiting(g) == ~crashed /\ Running(Manager(g)) /\ info[g].conn = "open" /\ info[g].queue # <<>>
QueuesDrain == \A g \in Gateways \ BadUrls : Waiting(g) ~> ~Waiting(g)

\* A message routed to the other manager is settled there: queued or dropped,
\* it does not travel back and forth.
RoutedMessagesSettle ==
    <>[](crashed \/ \A m \in Managers : InTransit(m) = {})

\* A gateway with a usable url and without a connection gets another attempt as long
\* as its manager runs.
Disconnected(g) ==
    ~crashed /\ Running(Manager(g)) /\ info[g].conn # "open"
Reconnects ==
    \A g \in Gateways \ BadUrls : Disconnected(g) ~> (~Disconnected(g) \/ connecting[g] > 0)
=============================================================================
