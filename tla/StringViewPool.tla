--------------------------- MODULE StringViewPool ---------------------------
(***************************************************************************)
(* BigHeapStringViewPool of jwt/cplus/io/Protocol, between its two         *)
(* threads: the producer copies messages one after the other into one big  *)
(* buffer and queues views of them, the consumer uses the views in that    *)
(* order and returns their space.  Two offsets that only grow bound the    *)
(* window of bytes in use; a view that starts near the end of the buffer   *)
(* runs on into a padding behind it instead of wrapping around.            *)
(*                                                                         *)
(* The offsets are plain integers, in AtomicBigHeapStringViewPool as well, *)
(* so the producer may read an earlier value of returnOffset.  A message   *)
(* that gets no view (it is empty, too long, or there is no room) travels  *)
(* in a string of its own and changes nothing here.                        *)
(***************************************************************************)
EXTENDS Integers, Sequences

CONSTANTS
    PoolSize,   \* the constructor's argument
    Padding,    \* 8*1024 in the code
    MaxLength,  \* 4*1024: longer messages get no view
    Lengths,    \* the lengths of the messages
    MaxOffset   \* bound: bytes allocated in a behaviour

ASSUME PoolAssumption ==
    /\ PoolSize \in Nat \ {0} /\ MaxOffset \in Nat
    /\ MaxLength \in Nat /\ Padding \in Nat /\ MaxLength <= Padding
    /\ Lengths \subseteq Nat \ {0}

Buffer == 0 .. PoolSize + Padding - 1

\* A view remembers the value of allocOffset it was made at, which names it.
Views == [start : Nat, length : Lengths]
Offset(view) == view.start % PoolSize
Cells(view) == Offset(view) .. Offset(view) + view.length - 1

VARIABLES
    allocOffset,
    returnOffset,
    seen,      \* the value of returnOffset the producer reads
    memory,    \* per byte of the buffer: the view last copied there
    live,      \* views made and not returned, oldest first
    published  \* how many of them the producer has queued

vars == <<allocOffset, returnOffset, seen, memory, live, published>>

Init ==
    /\ allocOffset = 0 /\ returnOffset = PoolSize /\ seen = PoolSize
    /\ memory = [x \in Buffer |-> -1]
    /\ live = <<>> /\ published = 0

AcceptedAny(length) == TRUE  \* weakened: no limit on the length
Accepted(length) == length <= MaxLength

\* The signed difference is compared with an unsigned length: negative, it is huge.
Exceeds(remain, length) == remain > length \/ remain < 0
FitsInPadding(length) == Exceeds(seen - allocOffset + Padding, length)  \* weakened
Fits(length) == Exceeds(seen - allocOffset, length)

\* Weakened: a view that runs into the padding is not charged for it.
AdvanceToEnd(view) ==
    IF Offset(view) + view.length > PoolSize
    THEN view.start + (PoolSize - Offset(view)) ELSE view.start + view.length
Advance(view) == view.start + view.length

\* allocateStringViewInPool, and the copy into the buffer.
Allocate(length) ==
    LET view == [start |-> allocOffset, length |-> length] IN
    /\ published = Len(live) /\ allocOffset <= MaxOffset
    /\ Accepted(length) /\ Fits(length)
    /\ allocOffset' = Advance(view)
    /\ memory' = [x \in Buffer \cup Cells(view) |->
                     IF x \in Cells(view) THEN view.start ELSE memory[x]]
    /\ live' = Append(live, view)
    /\ UNCHANGED <<returnOffset, seen, published>>

\* The producer queues the view for the consumer.
Publish ==
    /\ published' = Len(live)
    /\ UNCHANGED <<allocOffset, returnOffset, seen, memory, live>>

\* The consumer is done with its oldest view: deallocateStringViewInPool.
Release ==
    /\ published > 0
    /\ returnOffset' = IF Offset(Head(live)) \in Buffer
                       THEN returnOffset + Head(live).length ELSE returnOffset
    /\ live' = Tail(live) /\ published' = published - 1
    /\ UNCHANGED <<allocOffset, seen, memory>>

\* A return becomes visible to the producer.
See == seen' = returnOffset /\ UNCHANGED <<allocOffset, returnOffset, memory, live, published>>

Next == (\E length \in Lengths : Allocate(length)) \/ Publish \/ Release \/ See

Spec == Init /\ [][Next]_vars

-----------------------------------------------------------------------------
(* Properties *)

\* Every variable has its type; no copy leaves the buffer.
TypeOK ==
    /\ allocOffset \in Nat /\ returnOffset \in Nat /\ seen \in Nat
    /\ memory \in [Buffer -> Int]
    /\ live \in Seq(Views) /\ published \in 0 .. Len(live)

\* The bytes of a view stay the ones copied there until it is returned, over any
\* number of turns of the window, through the padding, and however late the
\* producer learns of a return.
ViewsIntact ==
    \A i \in 1 .. Len(live) : \A x \in Cells(live[i]) : memory[x] = live[i].start

\* When every view was returned, all of the pool is free again.
AllSpaceReturns == live = <<>> => returnOffset - allocOffset = PoolSize
=============================================================================
