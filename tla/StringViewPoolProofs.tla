----------------------- MODULE StringViewPoolProofs -----------------------
(***************************************************************************)
(* For every size of the pool, of its padding and of its messages: the     *)
(* window of StringViewPool keeps its views intact and gives all space     *)
(* back.  The argument is in the logical offsets, which never wrap: the    *)
(* live views lie one behind the other in an interval shorter than the     *)
(* pool.  Two of them are therefore in the same turn of the buffer, or in  *)
(* consecutive turns with the later one ending before the earlier one      *)
(* starts -- even when the earlier one runs into the padding.              *)
(***************************************************************************)
EXTENDS StringViewPool, TLAPS

-----------------------------------------------------------------------------
(* Remainders *)

\* What remainder and quotient are.
LEMMA ModRange ==
    ASSUME NEW p \in Nat \ {0}, NEW s \in Nat
    PROVE  s % p \in 0 .. p - 1 /\ s \div p \in Nat /\ s = (s \div p) * p + (s % p)
  BY SMTT(30)

\* Multiples of p lie p apart.
LEMMA Products ==
    ASSUME NEW p \in Nat \ {0}, NEW q \in Nat, NEW r \in Nat
    PROVE  /\ q * p \in Nat /\ r * p \in Nat
           /\ q < r => q * p + p <= r * p
           /\ q + 1 < r => q * p + p + p <= r * p
           /\ r = q + 1 => r * p = q * p + p
  BY SMTT(30)

\* Where the remainder of a later offset lies, less than a pool behind.
LEMMA ModShift ==
    ASSUME NEW p \in Nat \ {0}, NEW s \in Nat, NEW t \in Nat, s <= t, t < s + p
    PROVE  t % p = (s % p) + (t - s) \/ t % p = (s % p) + (t - s) - p
<1> DEFINE q == s \div p  r == t \div p  x == s % p  y == t % p  Q == q * p  R == r * p
<1>1. x \in 0 .. p - 1 /\ q \in Nat /\ s = Q + x  BY ModRange
<1>2. y \in 0 .. p - 1 /\ r \in Nat /\ t = R + y  BY ModRange
<1>3. /\ Q \in Nat /\ R \in Nat
      /\ q < r => Q + p <= R
      /\ r < q => R + p <= Q
      /\ q + 1 < r => Q + p + p <= R
      /\ r = q + 1 => R = Q + p
  BY <1>1, <1>2, Products
<1>4. q = r => Q = R  OBVIOUS
<1> HIDE DEF q, r, x, y, Q, R
<1>5. q = r \/ r = q + 1
  BY <1>1, <1>2, <1>3
<1>6. y = x + (t - s) \/ y = x + (t - s) - p
  BY <1>1, <1>2, <1>3, <1>4, <1>5
<1> QED BY <1>6 DEF x, y
-----------------------------------------------------------------------------
(* Views *)

\* Views that lie one behind the other within one length of the pool share no byte.
LEMMA ViewsApart ==
    ASSUME NEW v \in Views, NEW w \in Views,
           v.start + v.length <= w.start, w.start + w.length <= v.start + PoolSize
    PROVE  Cells(v) \cap Cells(w) = {}
<1>1. v.start \in Nat /\ w.start \in Nat /\ v.length \in Nat \ {0} /\ w.length \in Nat \ {0}
  BY PoolAssumption DEF Views
<1>2. PoolSize \in Nat \ {0}
  BY PoolAssumption
<1>3. v.start <= w.start /\ w.start < v.start + PoolSize
  BY <1>1, <1>2
<1>4. v.start % PoolSize \in 0 .. PoolSize - 1 /\ w.start % PoolSize \in 0 .. PoolSize - 1
  <2>1. v.start % PoolSize \in 0 .. PoolSize - 1
    BY <1>1, <1>2, ModRange
  <2>2. w.start % PoolSize \in 0 .. PoolSize - 1
    BY <1>1, <1>2, ModRange
  <2> QED BY <2>1, <2>2
<1>5. \/ w.start % PoolSize = (v.start % PoolSize) + (w.start - v.start)
      \/ w.start % PoolSize = (v.start % PoolSize) + (w.start - v.start) - PoolSize
  BY <1>1, <1>2, <1>3, ModShift
<1> QED BY <1>1, <1>2, <1>4, <1>5 DEF Cells, Offset

\* A view that is not too long lies in the buffer.
LEMMA InBuffer ==
    ASSUME NEW v \in Views, v.length <= MaxLength
    PROVE  Cells(v) \subseteq Buffer /\ Offset(v) \in Buffer
<1>1. v.start \in Nat /\ v.length \in Nat \ {0}
  BY PoolAssumption DEF Views
<1>2. Offset(v) \in 0 .. PoolSize - 1
  BY <1>1, ModRange, PoolAssumption DEF Offset
<1> QED BY <1>1, <1>2, PoolAssumption DEF Cells, Buffer

\* Every live view has an offset and a length.
LEMMA LiveViews ==
    ASSUME NEW s \in Seq(Views), NEW i \in 1 .. Len(s)
    PROVE  s[i] \in Views /\ s[i].start \in Nat /\ s[i].length \in Nat
<1>1. s[i] \in Views
  OBVIOUS
<1> QED BY <1>1, PoolAssumption DEF Views

-----------------------------------------------------------------------------
(* The inductive invariant *)

Base == returnOffset - PoolSize

\* What is in use, from Base to allocOffset, is less than the pool.
Window == Base \in Nat /\ seen <= returnOffset /\ allocOffset < seen

\* Every live view is short and lies in the window, the older before the newer.
InWindow ==
    \A i \in 1 .. Len(live) :
        /\ live[i].length <= MaxLength
        /\ Base <= live[i].start /\ live[i].start + live[i].length <= allocOffset
Ordered ==
    \A i, j \in 1 .. Len(live) :
        i < j => live[i].start + live[i].length <= live[j].start

\* The live views fill the window without a gap.
NoGap ==
    /\ live = <<>> => Base = allocOffset
    /\ live # <<>> =>
           /\ live[1].start = Base
           /\ live[Len(live)].start + live[Len(live)].length = allocOffset
    /\ \A i \in 1 .. Len(live) - 1 :
           live[i + 1].start = live[i].start + live[i].length

IInv == TypeOK /\ Window /\ InWindow /\ Ordered /\ NoGap /\ ViewsIntact

\* In the beginning no view is live.
LEMMA InitInvariant == Init => IInv
<1> SUFFICES ASSUME Init PROVE IInv
  OBVIOUS
<1>1. TypeOK
  BY PoolAssumption DEF Init, TypeOK, Buffer
<1>2. Window /\ InWindow /\ Ordered /\ NoGap /\ ViewsIntact
  BY PoolAssumption DEF Init, Window, Base, InWindow, Ordered, NoGap, ViewsIntact
<1> QED BY <1>1, <1>2 DEF IInv

\* An allocation puts a view behind the others and leaves their bytes alone.
LEMMA AllocateInvariant ==
    ASSUME IInv, NEW length \in Lengths, Allocate(length)
    PROVE  IInv'
<1> DEFINE view == [start |-> allocOffset, length |-> length]
           n == Len(live)
<1>1. /\ allocOffset \in Nat /\ returnOffset \in Nat /\ seen \in Nat /\ n \in Nat
      /\ live \in Seq(Views) /\ length \in Nat \ {0} /\ PoolSize \in Nat \ {0}
  BY PoolAssumption DEF IInv, TypeOK
<1>2. /\ view \in Views /\ view.start = allocOffset /\ view.length = length
      /\ view.length <= MaxLength
  BY <1>1 DEF Views, Allocate, Accepted
<1>3. allocOffset + length < seen
  BY <1>1 DEF Allocate, Fits, Exceeds, IInv, Window
<1>4. /\ allocOffset' = allocOffset + length
      /\ live' = Append(live, view)
      /\ returnOffset' = returnOffset /\ seen' = seen /\ published' = published
      /\ published = n
  BY <1>2 DEF Allocate, Advance
<1>5. /\ Len(live') = n + 1
      /\ live'[n + 1] = view
      /\ \A i \in 1 .. n : live'[i] = live[i]
      /\ live' \in Seq(Views)
  BY <1>1, <1>2, <1>4
<1>6. Cells(view) \subseteq Buffer
  BY <1>2, InBuffer
<1>7. memory' = [x \in Buffer |-> IF x \in Cells(view) THEN allocOffset ELSE memory[x]]
  <2>1. Buffer \cup Cells(view) = Buffer
    BY <1>6
  <2> QED BY <2>1 DEF Allocate
<1>8. TypeOK'
  BY <1>1, <1>4, <1>5, <1>7 DEF IInv, TypeOK
<1>9. Window' /\ Base' = Base
  BY <1>1, <1>3, <1>4 DEF IInv, Window, Base
<1>10. \A i \in 1 .. n : live[i] \in Views /\ live[i].start \in Nat /\ live[i].length \in Nat
  BY <1>1, LiveViews
<1>11. InWindow'
  <2>1. Base <= allocOffset
    <3>1. CASE live = <<>>
      BY <3>1, <1>1 DEF IInv, NoGap, Window
    <3>2. CASE live # <<>>
      <4>1. n \in 1 .. n
        BY <3>2, <1>1
      <4> QED BY <4>1, <1>1, <1>10 DEF IInv, InWindow, Window
    <3> QED BY <3>1, <3>2
  <2> SUFFICES ASSUME NEW i \in 1 .. n + 1
               PROVE  /\ live'[i].length <= MaxLength
                      /\ Base <= live'[i].start
                      /\ live'[i].start + live'[i].length <= allocOffset'
    BY <1>5, <1>9 DEF InWindow
  <2>2. CASE i = n + 1
    BY <2>1, <2>2, <1>1, <1>2, <1>4, <1>5
  <2>3. CASE i \in 1 .. n
    BY <2>3, <1>1, <1>4, <1>5, <1>10 DEF IInv, InWindow
  <2> QED BY <2>2, <2>3, <1>1
<1>12. Ordered'
  <2> SUFFICES ASSUME NEW i \in 1 .. n + 1, NEW j \in 1 .. n + 1, i < j
               PROVE  live'[i].start + live'[i].length <= live'[j].start
    BY <1>5 DEF Ordered
  <2>1. i \in 1 .. n /\ live'[i] = live[i]
    BY <1>1, <1>5
  <2>2. CASE j = n + 1
    BY <2>1, <2>2, <1>2, <1>5 DEF IInv, InWindow
  <2>3. CASE j \in 1 .. n
    BY <2>1, <2>3, <1>5 DEF IInv, Ordered
  <2> QED BY <2>2, <2>3, <1>1
<1>13. NoGap'
  BY <1>1, <1>2, <1>4, <1>5, <1>9, <1>10 DEF IInv, NoGap
<1>14. ViewsIntact'
  <2> SUFFICES ASSUME NEW i \in 1 .. n + 1, NEW x \in Cells(live'[i])
               PROVE  memory'[x] = live'[i].start
    BY <1>5 DEF ViewsIntact, Cells, Offset
  <2>1. CASE i = n + 1
    BY <2>1, <1>2, <1>5, <1>6, <1>7
  <2>2. CASE i \in 1 .. n
    <3>1. live'[i] = live[i] /\ x \in Cells(live[i]) /\ live[i] \in Views
      BY <2>2, <1>5, <1>10
    <3>2. /\ live[i].start + live[i].length <= view.start
          /\ view.start + view.length <= live[i].start + PoolSize
      BY <2>2, <1>1, <1>2, <1>3, <1>10 DEF IInv, InWindow, Window, Base
    <3>3. x \notin Cells(view)
      BY <3>1, <3>2, <1>2, ViewsApart
    <3>4. x \in Buffer /\ memory[x] = live[i].start
      BY <2>2, <3>1, InBuffer DEF IInv, InWindow, ViewsIntact
    <3> QED BY <3>1, <3>3, <3>4, <1>7
  <2> QED BY <2>1, <2>2, <1>1
<1> QED BY <1>8, <1>9, <1>11, <1>12, <1>13, <1>14 DEF IInv

\* A return moves the window to the next view.
LEMMA ReleaseInvariant ==
    ASSUME IInv, Release
    PROVE  IInv'
<1> DEFINE n == Len(live)
           head == Head(live)
<1>1. /\ allocOffset \in Nat /\ returnOffset \in Nat /\ seen \in Nat /\ n \in Nat
      /\ live \in Seq(Views) /\ published \in 1 .. n /\ PoolSize \in Nat \ {0}
  BY PoolAssumption DEF IInv, TypeOK, Release
<1>2. live # <<>> /\ n \in Nat \ {0} /\ head = live[1] /\ head \in Views
  BY <1>1
<1>3. \A i \in 1 .. n : live[i] \in Views /\ live[i].start \in Nat /\ live[i].length \in Nat
  BY <1>1, LiveViews
<1>4. Offset(head) \in Buffer
  BY <1>1, <1>2, InBuffer DEF IInv, InWindow
<1>5. /\ returnOffset' = returnOffset + head.length
      /\ live' = Tail(live) /\ published' = published - 1
      /\ UNCHANGED <<allocOffset, seen, memory>>
  BY <1>4 DEF Release
<1>6. /\ Len(live') = n - 1
      /\ \A i \in 1 .. n - 1 : live'[i] = live[i + 1]
      /\ live' \in Seq(Views)
  BY <1>1, <1>2, <1>5
<1>7. head.length \in Nat /\ head.start = Base
  BY <1>2, <1>3 DEF IInv, NoGap
<1>8. TypeOK'
  BY <1>1, <1>5, <1>6, <1>7 DEF IInv, TypeOK
<1>9. Window' /\ Base' = Base + head.length
  BY <1>1, <1>5, <1>7 DEF IInv, Window, Base
<1>10. \A i \in 2 .. n : head.start + head.length <= live[i].start
  BY <1>2 DEF IInv, Ordered
<1>11. InWindow'
  BY <1>1, <1>2, <1>3, <1>5, <1>6, <1>7, <1>9, <1>10 DEF IInv, InWindow
<1>12. Ordered'
  <2> SUFFICES ASSUME NEW i \in 1 .. n - 1, NEW j \in 1 .. n - 1, i < j
               PROVE  live'[i].start + live'[i].length <= live'[j].start
    BY <1>6 DEF Ordered
  <2>1. live'[i] = live[i + 1] /\ live'[j] = live[j + 1]
    BY <1>6
  <2>2. i + 1 \in 1 .. n /\ j + 1 \in 1 .. n /\ i + 1 < j + 1
    BY <1>1
  <2> QED BY <2>1, <2>2 DEF IInv, Ordered
<1>13. NoGap'
  <2>1. CASE n = 1
    BY <2>1, <1>1, <1>2, <1>3, <1>5, <1>6, <1>7, <1>9 DEF IInv, NoGap
  <2>2. CASE n > 1
    <3>1. live' # <<>> /\ Len(live') = n - 1 /\ n - 1 \in 1 .. n - 1
      BY <2>2, <1>1, <1>6
    <3>2. live'[1].start = Base'
      <4>1. live'[1] = live[2] /\ live[2].start = live[1].start + live[1].length
        BY <2>2, <1>1, <1>6 DEF IInv, NoGap
      <4> QED BY <4>1, <1>2, <1>7, <1>9
    <3>3. live'[n - 1].start + live'[n - 1].length = allocOffset'
      <4>1. live'[n - 1] = live[n]
        BY <3>1, <1>1, <1>6
      <4> QED BY <4>1, <1>2, <1>5 DEF IInv, NoGap
    <3>4. ASSUME NEW i \in 1 .. n - 2
          PROVE  live'[i + 1].start = live'[i].start + live'[i].length
      <4>1. live'[i] = live[i + 1] /\ live'[i + 1] = live[i + 1 + 1]
        BY <1>1, <1>6
      <4>2. i + 1 \in 1 .. n - 1
        BY <1>1
      <4> QED BY <4>1, <4>2 DEF IInv, NoGap
    <3> QED BY <3>1, <3>2, <3>3, <3>4, <1>1 DEF NoGap
  <2>3. n = 1 \/ n > 1
    BY <1>2
  <2> QED BY <2>1, <2>2, <2>3, Zenon
<1>14. ViewsIntact'
  BY <1>1, <1>2, <1>5, <1>6 DEF IInv, ViewsIntact, Cells, Offset
<1> QED BY <1>8, <1>9, <1>11, <1>12, <1>13, <1>14 DEF IInv

\* Every step keeps the invariant.
LEMMA StepInvariant == IInv /\ [Next]_vars => IInv'
<1> SUFFICES ASSUME IInv, [Next]_vars PROVE IInv'
  OBVIOUS
<1>1. ASSUME NEW length \in Lengths, Allocate(length) PROVE IInv'
  BY <1>1, AllocateInvariant
<1>2. CASE Publish
  BY <1>2 DEF Publish, IInv, TypeOK, Window, Base, InWindow, Ordered, NoGap, ViewsIntact,
             Cells, Offset
<1>3. CASE Release
  BY <1>3, ReleaseInvariant
<1>4. CASE See
  BY <1>4 DEF See, IInv, TypeOK, Window, Base, InWindow, Ordered, NoGap, ViewsIntact,
             Cells, Offset
<1>5. CASE UNCHANGED vars
  BY <1>5 DEF vars, IInv, TypeOK, Window, Base, InWindow, Ordered, NoGap, ViewsIntact,
             Cells, Offset
<1> QED BY <1>1, <1>2, <1>3, <1>4, <1>5 DEF Next

\* The invariant holds in every reachable state.
LEMMA Invariance == Spec => []IInv
  BY InitInvariant, StepInvariant, PTL DEF Spec

-----------------------------------------------------------------------------
(* The theorems *)

\* Every variable keeps its type; in particular no copy leaves the buffer, whose
\* padding is at least the longest message.
THEOREM CopiesStayInBuffer == Spec => []TypeOK
<1>1. IInv => TypeOK
  BY DEF IInv
<1> QED BY <1>1, Invariance, PTL

\* A view is never overwritten before it is returned.
THEOREM ViewsStayIntact == Spec => []ViewsIntact
<1>1. IInv => ViewsIntact
  BY DEF IInv
<1> QED BY <1>1, Invariance, PTL

\* Once all views are returned, all of the pool is free again: no space leaks.
THEOREM NoSpaceLeaks == Spec => []AllSpaceReturns
<1>1. IInv => AllSpaceReturns
  BY PoolAssumption DEF IInv, NoGap, AllSpaceReturns, Base, TypeOK
<1> QED BY <1>1, Invariance, PTL

\* The difference allocateStringViewInPool compares with an unsigned length.
RemainPositive == seen - allocOffset > 0

\* It is never negative, although the producer may compute it from an old returnOffset.
THEOREM RemainIsPositive == Spec => []RemainPositive
<1>1. IInv => RemainPositive
  BY DEF IInv, Window, TypeOK, RemainPositive
<1> QED BY <1>1, Invariance, PTL
=============================================================================
