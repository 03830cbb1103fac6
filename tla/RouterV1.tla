------------------------------ MODULE RouterV1 ------------------------------
(***************************************************************************)
(* The first version of the router, one file with both loops: towards a    *)
(* wss gateway it limits the rate, by a count of sent messages that a      *)
(* timer zeroes every 500 ms and by one flush timer that all of them       *)
(* share.  A handler runs to completion on its loop and is one action; the *)
(* loops share the two client pointers and post messages to each other.    *)
(*                                                                         *)
(* The counters nothing reads are left out, and with them the rate of a ws *)
(* connection, which has no limit.  The delays of timers are not modelled. *)
(***************************************************************************)
EXTENDS Naturals, Sequences, FiniteSets

CONSTANTS
    WsGateways, WssGateways,  \* keys of wsServerMap and wssServerMap
    Stranger,      \* a wsgId no server map holds
    Malformed,     \* stands for the wsgId of a text that is not a JSON message
    NoGateway,     \* tlsFlushTimer == nullptr
    WsQueueLimit, WssQueueLimit,  \* 512*1024 and 256*1024 in the code
    RateLimit,     \* 64*1024
    SendBatch,     \* messages a send may pass on: 128
    FlushBatch,    \* messages a flush may: 2048 and 1024
    MaxMessages, MaxFaults, MaxResets  \* bounds; a fault is a lost connection or a
                                       \* send that fails on an open one

Sides == {"ws", "wss"}
Gateways == WsGateways \cup WssGateways
Own(s) == IF s = "ws" THEN WsGateways ELSE WssGateways
Side(g) == IF g \in WsGateways THEN "ws" ELSE "wss"
Other(s) == IF s = "ws" THEN "wss" ELSE "ws"

ASSUME RouterV1Assumption ==
    /\ WsGateways \cap WssGateways = {}
    /\ Gateways \cap {Stranger, Malformed, NoGateway} = {} /\ Malformed # Stranger
    /\ {WsQueueLimit, WssQueueLimit} \subseteq Nat \ {0, 1}
    /\ {RateLimit, SendBatch, FlushBatch} \subseteq Nat \ {0} /\ SendBatch <= FlushBatch
    /\ {MaxMessages, MaxFaults, MaxResets} \subseteq Nat

Messages == [id : 1 .. MaxMessages, from : Gateways, to : Gateways \cup {Stranger, Malformed}]
MessageTask(msg) == [kind |-> "message", msg |-> msg]
FlushTask(g) == [kind |-> "flush", to |-> g]

VARIABLES
    phase,       \* per side: its client is null ("off", "stopped"), has no loop yet
                 \* ("created"), is "running", or is about to be nulled ("leaving")
    tasks,       \* per side: handlers posted to its loop, oldest first
    flushTimer,  \* the gateway tlsFlushTimer will flush, or NoGateway
    link,        \* per gateway: its handshake, retry timer or connection
    queue,       \* per gateway: messageQueue
    outRate,     \* per wss gateway
    received, faults, resets,  \* counted against their bounds
    sent,        \* history, per gateway: messages handed to its connections
    burst,       \* history, per gateway: how many of them since the last reset
    refused      \* history, per gateway: its last send or flush found the rate at its
                 \* limit and could arm no timer for it

queueVars == <<queue, outRate, sent, burst, refused>>
vars == <<phase, tasks, flushTimer, link, queueVars, received, faults, resets>>

Running(s) == phase[s] = "running"

Init ==
    /\ phase = [s \in Sides |-> "off"] /\ tasks = [s \in Sides |-> <<>>]
    /\ flushTimer = NoGateway
    /\ link = [g \in Gateways |-> "none"] /\ queue = [g \in Gateways |-> <<>>]
    /\ outRate = [g \in WssGateways |-> 0]
    /\ received = 0 /\ faults = 0 /\ resets = 0
    /\ sent = [g \in Gateways |-> <<>>] /\ burst = [g \in Gateways |-> 0]
    /\ refused = [g \in Gateways |-> FALSE]

-----------------------------------------------------------------------------
(* sendMessageToWsWsgId, sendMessageToWssWsgId, flushTowsWsgId, flushToWssWsgId *)

QueueLimit(g) == IF g \in WsGateways THEN WsQueueLimit ELSE WssQueueLimit

\* The oldest messages are dropped until the queue is below its limit.
Below(q, limit) ==
    LET excess == IF Len(q) < limit THEN 0 ELSE Len(q) - limit + 1
    IN  SubSeq(q, excess + 1, Len(q))
TrimmedToLimit(g, q) == Below(q, QueueLimit(g) + 1)  \* weakened: up to the limit
Trimmed(g, q) == Below(q, QueueLimit(g))

Throttled(g, open, kept) ==
    open /\ kept # <<>> /\ g \in WssGateways /\ outRate[g] >= RateLimit

\* A batch ends early only at a send error; what was not sent stays queued.
BatchSizes(q, batch) ==
    LET full == IF Len(q) < batch THEN Len(q) ELSE batch
    IN  IF faults < MaxFaults THEN 0 .. full ELSE {full}

\* Weakened: sends are not counted, as they are not on the way to a ws gateway; what
\* an error left over waits for the next message.
RateAfterKept(g, n) == outRate
RateAfter(g, n) == IF g \in WssGateways THEN [outRate EXCEPT ![g] = @ + n] ELSE outRate
AfterBatchNoFlush(g, left, rest) == rest
AfterBatch(g, left, rest) == IF left = <<>> THEN rest ELSE Append(rest, FlushTask(g))

\* kept is the queue after the trim; rest the tasks behind the running one; busy that
\* the flush timer can neither be armed for g nor is pending for it.
Transmit(g, open, kept, batch, rest, busy) ==
    IF ~open \/ Throttled(g, open, kept)
    THEN /\ queue' = [queue EXCEPT ![g] = kept]
         /\ tasks' = [tasks EXCEPT ![Side(g)] = rest]
         /\ refused' = [refused EXCEPT ![g] = open /\ busy]
         /\ UNCHANGED <<outRate, faults, sent, burst>>
    ELSE \E n \in BatchSizes(kept, batch) :
         LET left == SubSeq(kept, n + 1, Len(kept)) IN
         /\ queue' = [queue EXCEPT ![g] = left]
         /\ sent' = [sent EXCEPT ![g] = @ \o SubSeq(kept, 1, n)]
         /\ burst' = [burst EXCEPT ![g] = @ + n]
         /\ outRate' = RateAfter(g, n)
         /\ faults' = IF n < Len(kept) /\ n < batch THEN faults + 1 ELSE faults
         /\ tasks' = [tasks EXCEPT ![Side(g)] = AfterBatch(g, left, rest)]
         /\ refused' = [refused EXCEPT ![g] = FALSE]

\* Over the limit, the one flush timer is armed if it is free.
OthersTimer(g) == flushTimer \notin {g, NoGateway}
ArmNever(g, open, kept) == UNCHANGED flushTimer  \* weakened
Arm(g, open, kept) ==
    flushTimer' = IF Throttled(g, open, kept) /\ flushTimer = NoGateway THEN g ELSE flushTimer

Deliver(msg, rest) ==
    LET g == msg.to
        open == link[g] = "open"
        kept == Trimmed(g, Append(queue[g], msg))
    IN  Transmit(g, open, kept, SendBatch, rest, OthersTimer(g)) /\ Arm(g, open, kept)

\* The flush of a wss gateway returns before its trim.
ToFlush(g, open) ==
    IF g \in WsGateways \/ open THEN Trimmed(g, queue[g]) ELSE queue[g]

Flush(g, open, rest) ==
    /\ Transmit(g, open, ToFlush(g, open), FlushBatch, rest, OthersTimer(g))
    /\ Arm(g, open, ToFlush(g, open))

\* The timer's callback flushes first and sets tlsFlushTimer to null afterwards: over
\* the limit still, the flush arms no other.
TimerFires ==
    /\ Running("wss") /\ flushTimer # NoGateway
    /\ LET g == flushTimer
           open == link[g] = "open"
       IN  Transmit(g, open, ToFlush(g, open), FlushBatch, tasks["wss"], TRUE)
    /\ flushTimer' = NoGateway
    /\ UNCHANGED <<phase, link, received, resets>>

\* reset_limit_connect_tls_rate_timer: nothing is flushed.
ResetRates ==
    /\ Running("wss") /\ resets < MaxResets
    /\ resets' = resets + 1
    /\ outRate' = [g \in WssGateways |-> 0]
    /\ burst' = [g \in Gateways |-> IF g \in WssGateways THEN 0 ELSE burst[g]]
    /\ UNCHANGED <<phase, tasks, flushTimer, link, queue, sent, refused,
                   received, faults>>

-----------------------------------------------------------------------------
(* The message handlers, handleMsgFromWsRouter, handleMsgFromWssRouter *)

PostedInFront(q, msg) == <<MessageTask(msg)>> \o q  \* weakened
Posted(q, msg) == Append(q, MessageTask(msg))

\* Posting to a client without a loop is undefined, as is copying its pointer while
\* it is nulled; a loop that has ended takes the message and never runs it.
Post(s, msg) ==
    \/ /\ Own(s) = {} \/ phase[s] \in {"off", "stopped", "leaving"}
       /\ UNCHANGED <<tasks, phase>>
    \/ /\ Running(s)
       /\ tasks' = [tasks EXCEPT ![s] = Posted(@, msg)] /\ UNCHANGED phase
    \/ /\ phase[s] \in {"created", "leaving"}
       /\ phase' = [t \in Sides |-> "crashed"] /\ UNCHANGED tasks

Receive(g) ==
    /\ Running(Side(g)) /\ link[g] = "open" /\ received < MaxMessages
    /\ received' = received + 1
    /\ \E to \in Gateways \cup {Stranger, Malformed} :
       LET msg == [id |-> received + 1, from |-> g, to |-> to] IN
       CASE to \in {Malformed, g} -> UNCHANGED <<phase, tasks, flushTimer, queueVars, faults>>
         [] to \in Own(Side(g)) \ {g} -> Deliver(msg, tasks[Side(g)]) /\ UNCHANGED phase
         [] OTHER -> Post(Other(Side(g)), msg) /\ UNCHANGED <<flushTimer, queueVars, faults>>
    /\ UNCHANGED <<link, resets>>

\* The oldest posted handler; a message for a gateway of the other side is dropped.
RunTask(s) ==
    /\ Running(s) /\ tasks[s] # <<>>
    /\ LET task == Head(tasks[s])
           rest == Tail(tasks[s])
       IN  CASE task.kind = "flush" -> Flush(task.to, link[task.to] = "open", rest)
             [] task.kind = "message" /\ task.msg.to \in Own(s) -> Deliver(task.msg, rest)
             [] OTHER -> /\ tasks' = [tasks EXCEPT ![s] = rest]
                         /\ UNCHANGED <<flushTimer, queueVars, faults>>
    /\ UNCHANGED <<phase, link, received, resets>>

-----------------------------------------------------------------------------
(* Connections and the life of a side *)

Move(g, from, to) ==
    /\ Running(Side(g)) /\ link[g] = from
    /\ link' = [link EXCEPT ![g] = to]

KeepQueues == UNCHANGED <<phase, tasks, flushTimer, queueVars, received, resets>>

\* The open handler stores the connection and flushes.
Opened(g) ==
    /\ Move(g, "connecting", "open")
    /\ Flush(g, TRUE, tasks[Side(g)])
    /\ UNCHANGED <<phase, received, resets>>
HandshakeFailed(g) == Move(g, "connecting", "retry") /\ KeepQueues /\ UNCHANGED faults
Lost(g) ==
    /\ faults < MaxFaults /\ faults' = faults + 1
    /\ Move(g, "open", "closing") /\ KeepQueues
Closed(g) == Move(g, "closing", "retry") /\ KeepQueues /\ UNCHANGED faults

\* connect_plain, connect_tls: a url that get_connection refuses arms the retry timer.
RetryFires(g) ==
    /\ \E to \in {"connecting", "retry"} : Move(g, "retry", to)
    /\ KeepQueues /\ UNCHANGED faults

Enter(s, from, to) ==
    /\ phase[s] \in from /\ Own(s) # {}
    /\ phase' = [phase EXCEPT ![s] = to]
    /\ UNCHANGED <<queueVars, received, faults, resets>>

\* runWSRouter, runWSSRouter: the client pointer is set first, then the loop made ...
Create(s) == Enter(s, {"off"}, "created") /\ UNCHANGED <<tasks, flushTimer, link>>
Start(s) ==
    /\ Enter(s, {"created"}, "running")
    /\ \E bad \in SUBSET Own(s) :
           link' = [g \in Gateways |-> IF g \notin Own(s) THEN link[g]
                                      ELSE IF g \in bad THEN "retry" ELSE "connecting"]
    /\ UNCHANGED <<tasks, flushTimer>>
\* ... and a caught exception ends both, with all that was posted.
Leave(s) ==
    /\ Enter(s, {"created", "running"}, "leaving")
    /\ tasks' = [tasks EXCEPT ![s] = <<>>]
    /\ link' = [g \in Gateways |-> IF g \in Own(s) THEN "none" ELSE link[g]]
    /\ UNCHANGED flushTimer
Stop(s) == Enter(s, {"leaving"}, "stopped") /\ UNCHANGED <<tasks, flushTimer, link>>

Finished ==
    /\ \A s \in Sides : Own(s) # {} => phase[s] \in {"stopped", "crashed"}
    /\ UNCHANGED vars

GatewayStep(g) ==
    Opened(g) \/ HandshakeFailed(g) \/ Lost(g) \/ Closed(g) \/ RetryFires(g) \/ Receive(g)
SideStep(s) == Create(s) \/ Start(s) \/ RunTask(s) \/ Leave(s) \/ Stop(s)

Next ==
    \/ \E g \in Gateways : GatewayStep(g)
    \/ \E s \in Sides : SideStep(s)
    \/ TimerFires \/ ResetRates \/ Finished

\* The loops run what is posted, and the flush timer expires.
Fairness == WF_vars(TimerFires) /\ \A s \in Sides : WF_vars(RunTask(s))

Spec == Init /\ [][Next]_vars
FairSpec == Spec /\ Fairness

-----------------------------------------------------------------------------
(* Properties *)

\* Every variable has its type; a queue at rest is below its limit.
TypeOK ==
    /\ phase \in [Sides -> {"off", "created", "running", "leaving", "stopped", "crashed"}]
    /\ tasks \in [Sides -> Seq([kind : {"message"}, msg : Messages]
                                 \cup [kind : {"flush"}, to : Gateways])]
    /\ flushTimer \in WssGateways \cup {NoGateway}
    /\ link \in [Gateways -> {"none", "connecting", "retry", "open", "closing"}]
    /\ queue \in [Gateways -> Seq(Messages)]
    /\ \A g \in Gateways : Len(queue[g]) < QueueLimit(g)
    /\ outRate \in [WssGateways -> Nat]
    /\ received \in 0 .. MaxMessages /\ faults \in Nat /\ resets \in Nat
    /\ sent \in [Gateways -> Seq(Messages)] /\ burst \in [Gateways -> Nat]
    /\ refused \in [Gateways -> BOOLEAN]

\* Between two resets a wss gateway is sent less than a batch over the limit, over
\* sends, flushes by a post or the timer, and reconnects.
RateIsLimited == \A g \in WssGateways : burst[g] < RateLimit + FlushBatch

\* Posted, queued or sent, the messages of one source keep the order in which they
\* were received, and none is there twice.
InOrder(q) ==
    \A i, j \in 1 .. Len(q) : i < j /\ q[i].from = q[j].from => q[i].id < q[j].id
Route(g) == sent[g] \o queue[g]
Posts(s) == {i \in 1 .. Len(tasks[s]) : tasks[s][i].kind = "message"}
Behind(q, msg) == \A i \in 1 .. Len(q) : q[i].from = msg.from => q[i].id < msg.id
SourceOrderKept ==
    /\ \A g \in Gateways : InOrder(Route(g))
    /\ \A s \in Sides : \A i \in Posts(s) :
           /\ \A j \in Posts(s) : i < j /\ tasks[s][i].msg.from = tasks[s][j].msg.from
                                     => tasks[s][i].msg.id < tasks[s][j].msg.id
           /\ \A g \in Own(s) : Behind(Route(g), tasks[s][i].msg)

Waiting(g) == Running(Side(g)) /\ link[g] = "open" /\ queue[g] # <<>>

\* A flush over the limit that meets another gateway's timer, or runs in the callback of
\* its own, arms none.  With no flush of the queue posted either, nothing but the next
\* message for it or a reconnect flushes it again.
PostedFlush(g) == \E i \in 1 .. Len(tasks[Side(g)]) : tasks[Side(g)][i] = FlushTask(g)
Forgotten(g) == refused[g] /\ ~PostedFlush(g)

\* A queue with an open connection is emptied or forgotten: a full batch, a send error
\* and a flush that could arm the timer, or found its own pending, are all followed up.
QueuesDrain == \A g \in Gateways :
    (Waiting(g) /\ ~Forgotten(g)) ~> (~Waiting(g) \/ Forgotten(g))

\* What the comments at the limit promise of a message over it: it is delayed and then
\* sent.  A queue does not wait for ever on an open connection whose rate was reset.
Delayed(g) == Waiting(g) /\ outRate[g] < RateLimit
DelayedIsSent == \A g \in WssGateways : Delayed(g) ~> ~Delayed(g)
=============================================================================
