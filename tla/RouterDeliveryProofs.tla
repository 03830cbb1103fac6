------------------------ MODULE RouterDeliveryProofs ------------------------
(***************************************************************************)
(* What the router promises its gateways, for any gateways, limits, batch  *)
(* size and bounds: no message is duplicated, the order of a source is     *)
(* kept, and every flush is a step of the lossy queue.  All three rest on  *)
(* one fact about flushMessageQueue (FlushServes): it cuts the queue into  *)
(* a front that is trimmed, a middle that is sent and a rest that stays.   *)
(***************************************************************************)
EXTENDS RouterProofs

-----------------------------------------------------------------------------
(* Cutting and joining queues *)

\* A queue is its three parts, and the parts of a rest are parts of the whole.
LEMMA ThreeParts ==
    ASSUME NEW q \in Seq(Messages), NEW d \in 0 .. Len(q), NEW n \in 0 .. Len(q) - d
    PROVE  /\ Prefix(q, d) \in Seq(Messages)
           /\ SubSeq(q, d + 1, d + n) \in Seq(Messages)
           /\ SubSeq(q, d + n + 1, Len(q)) \in Seq(Messages)
           /\ SubSeq(q, d + 1, d + n) = Prefix(Suffix(q, d), n)
           /\ SubSeq(q, d + n + 1, Len(q)) = Suffix(Suffix(q, d), n)
           /\ Suffix(q, d) = SubSeq(q, d + 1, d + n) \o SubSeq(q, d + n + 1, Len(q))
           /\ q = Prefix(q, d) \o Suffix(q, d)
<1>1. Len(q) \in Nat /\ d \in Nat /\ n \in Nat /\ d + n <= Len(q)
  BY LenProperties
<1>2. \A i \in 1 .. Len(q) : q[i] \in Messages
  BY ElementOfSeq
<1> DEFINE s == Suffix(q, d)
<1>3. /\ Prefix(q, d) \in Seq(Messages) /\ s \in Seq(Messages) /\ Len(s) = Len(q) - d
  BY Split
<1>4. \A i \in 1 .. Len(q) - d : s[i] = q[d + i]
  BY <1>1, <1>2, SubSeqProperties DEF Suffix
<1> HIDE DEF s
<1>5. /\ SubSeq(q, d + 1, d + n) \in Seq(Messages) /\ Len(SubSeq(q, d + 1, d + n)) = n
      /\ \A i \in 1 .. n : SubSeq(q, d + 1, d + n)[i] = q[d + i]
  <2>1. \A i \in d + 1 .. d + n : q[i] \in Messages
    BY <1>1, <1>2
  <2>2. QED
    BY <1>1, <2>1, SubSeqProperties
<1>6. /\ SubSeq(q, d + n + 1, Len(q)) \in Seq(Messages)
      /\ Len(SubSeq(q, d + n + 1, Len(q))) = Len(q) - d - n
      /\ \A i \in 1 .. Len(q) - d - n : SubSeq(q, d + n + 1, Len(q))[i] = q[d + n + i]
  <2>1. \A i \in d + n + 1 .. Len(q) : q[i] \in Messages
    BY <1>1, <1>2
  <2>2. QED
    BY <1>1, <2>1, SubSeqProperties
<1>7. /\ Prefix(s, n) \in Seq(Messages) /\ Len(Prefix(s, n)) = n
      /\ Suffix(s, n) \in Seq(Messages) /\ Len(Suffix(s, n)) = Len(q) - d - n
  <2>1. n \in 0 .. Len(s)
    BY <1>1, <1>3
  <2>2. /\ Prefix(s, n) \in Seq(Messages) /\ Len(Prefix(s, n)) = n
        /\ Suffix(s, n) \in Seq(Messages) /\ Len(Suffix(s, n)) = Len(s) - n
    BY <1>3, <2>1, Split
  <2>3. QED
    BY <1>1, <1>3, <2>2
<1>8. /\ \A i \in 1 .. n : Prefix(s, n)[i] = s[i]
      /\ \A i \in 1 .. Len(q) - d - n : Suffix(s, n)[i] = s[n + i]
  <2>1. \A i \in 1 .. Len(s) : s[i] \in Messages
    BY <1>3, ElementOfSeq
  <2>2. \A i \in 1 .. n : s[i] \in Messages
    BY <1>1, <1>3, <2>1
  <2>3. \A i \in n + 1 .. Len(s) : s[i] \in Messages
    BY <1>1, <1>3, <2>1
  <2>4. \A i \in 1 .. n : SubSeq(s, 1, n)[i] = s[i]
    BY <1>1, <2>2, SubSeqProperties
  <2>5. \A i \in 1 .. Len(s) - (n + 1) + 1 : SubSeq(s, n + 1, Len(s))[i] = s[(n + 1) + i - 1]
    BY <1>1, <1>3, <2>3, SubSeqProperties
  <2>6. QED
    BY <1>1, <1>3, <2>4, <2>5 DEF Prefix, Suffix
<1>9. SubSeq(q, d + 1, d + n) = Prefix(s, n)
  <2>1. \A i \in 1 .. n : SubSeq(q, d + 1, d + n)[i] = Prefix(s, n)[i]
    BY <1>1, <1>4, <1>5, <1>8
  <2>2. QED
    BY <1>5, <1>7, <2>1, SeqEqual
<1>10. SubSeq(q, d + n + 1, Len(q)) = Suffix(s, n)
  <2>1. \A i \in 1 .. Len(q) - d - n : SubSeq(q, d + n + 1, Len(q))[i] = Suffix(s, n)[i]
    BY <1>1, <1>4, <1>6, <1>8
  <2>2. QED
    BY <1>6, <1>7, <2>1, SeqEqual
<1>11. q = Prefix(q, d) \o s
  <2>1. SubSeq(q, 1, d) \o SubSeq(q, d + 1, Len(q)) = SubSeq(q, 1, Len(q))
    <3>1. 1 \in 1 .. Len(q) + 1 /\ d \in 1 - 1 .. Len(q) /\ Len(q) \in d .. Len(q)
      BY <1>1
    <3>2. QED
      BY <3>1, ConcatAdjacentSubSeq
  <2>2. QED
    BY <2>1, SubSeqFull DEF Prefix, Suffix, s
<1>12. s = SubSeq(q, d + 1, d + n) \o SubSeq(q, d + n + 1, Len(q))
  <2>1. SubSeq(q, d + 1, d + n) \o SubSeq(q, (d + n) + 1, Len(q)) = SubSeq(q, d + 1, Len(q))
    <3>1. /\ d + 1 \in 1 .. Len(q) + 1 /\ d + n \in (d + 1) - 1 .. Len(q)
          /\ Len(q) \in d + n .. Len(q)
      BY <1>1
    <3>2. QED
      BY <3>1, ConcatAdjacentSubSeq
  <2>2. QED
    BY <2>1 DEF Suffix, s
<1>13. QED
  BY <1>3, <1>5, <1>6, <1>9, <1>10, <1>11, <1>12 DEF s

\* A batch of n after a trim of d takes the middle of the queue and leaves the rest.
LEMMA PartsOfTheRest ==
    ASSUME NEW q \in Seq(Messages), NEW d \in 0 .. Len(q), NEW n \in 0 .. Len(q) - d
    PROVE  /\ SubSeq(q, d + 1, d + n) = Prefix(Suffix(q, d), n)
           /\ SubSeq(q, d + n + 1, Len(q)) = Suffix(Suffix(q, d), n)
           /\ Suffix(Suffix(q, d), n) \in Seq(Messages)
BY ThreeParts

\* Joining three queues, the order of joining does not matter.
LEMMA Associative ==
    ASSUME NEW s \in Seq(Messages), NEW t \in Seq(Messages), NEW u \in Seq(Messages)
    PROVE  (s \o t) \o u = s \o (t \o u)
BY ConcatAssociative

\* The ids of two joined queues are those of each, distinct if they are in each
\* and the queues share none.
LEMMA JoinedIds ==
    ASSUME NEW s \in Seq(Messages), NEW t \in Seq(Messages)
    PROVE  /\ Ids(s \o t) = Ids(s) \cup Ids(t)
           /\ Distinct(s \o t) <=> Distinct(s) /\ Distinct(t) /\ Ids(s) \cap Ids(t) = {}
<1> DEFINE k == Len(s)  l == Len(t)  u == s \o t
<1>1. /\ k \in Nat /\ l \in Nat /\ Len(u) = k + l
      /\ \A i \in 1 .. k : u[i] = s[i]
      /\ \A i \in 1 .. l : u[k + i] = t[i]
  <2>1. /\ k \in Nat /\ l \in Nat /\ Len(u) = k + l
        /\ \A i \in 1 .. k + l : u[i] = IF i <= k THEN s[i] ELSE t[i - k]
    BY LenProperties, ConcatProperties
  <2> HIDE DEF k, l, u
  <2>2. QED
    BY <2>1
<1> HIDE DEF u
<1>2. Ids(u) = Ids(s) \cup Ids(t)
  <2>1. Ids(s) \subseteq Ids(u)
    BY <1>1 DEF Ids
  <2>2. Ids(t) \subseteq Ids(u)
    <3>1. SUFFICES ASSUME NEW i \in 1 .. l
                   PROVE  t[i].id \in Ids(u)
      BY DEF Ids
    <3>2. k + i \in 1 .. Len(u)
      BY <1>1
    <3>3. u[k + i] = t[i]
      BY <1>1
    <3>4. QED
      BY <3>2, <3>3 DEF Ids
  <2>3. Ids(u) \subseteq Ids(s) \cup Ids(t)
    <3>1. SUFFICES ASSUME NEW i \in 1 .. Len(u)
                   PROVE  u[i].id \in Ids(s) \cup Ids(t)
      BY DEF Ids
    <3>2. CASE i <= k
      BY <1>1, <3>2 DEF Ids
    <3>3. CASE i > k
      <4>1. i - k \in 1 .. l /\ i = k + (i - k)
        BY <1>1, <3>3
      <4>2. u[i] = t[i - k]
        BY <1>1, <4>1
      <4>3. QED
        BY <4>1, <4>2 DEF Ids
    <3>4. QED
      BY <1>1, <3>2, <3>3
  <2>4. QED
    BY <2>1, <2>2, <2>3
<1>3. ASSUME Distinct(u)
      PROVE  Distinct(s) /\ Distinct(t) /\ Ids(s) \cap Ids(t) = {}
  <2>1. Distinct(s)
    BY <1>1, <1>3 DEF Distinct
  <2>2. Distinct(t)
    <3>1. SUFFICES ASSUME NEW i \in 1 .. l, NEW j \in 1 .. l, t[i].id = t[j].id
                   PROVE  i = j
      BY DEF Distinct
    <3>2. k + i \in 1 .. Len(u) /\ k + j \in 1 .. Len(u) /\ u[k + i].id = u[k + j].id
      BY <1>1, <3>1
    <3>3. k + i = k + j
      BY <1>3, <3>2 DEF Distinct
    <3>4. QED
      BY <1>1, <3>3
  <2>3. ASSUME NEW i \in 1 .. k, NEW j \in 1 .. l, s[i].id = t[j].id
        PROVE  FALSE
    <3>1. i \in 1 .. Len(u) /\ k + j \in 1 .. Len(u) /\ u[i].id = u[k + j].id
      BY <1>1, <2>3
    <3>2. i = k + j
      BY <1>3, <3>1 DEF Distinct
    <3>3. QED
      BY <1>1, <3>2
  <2>4. QED
    BY <2>1, <2>2, <2>3 DEF Ids
<1>4. ASSUME Distinct(s), Distinct(t), Ids(s) \cap Ids(t) = {}
      PROVE  Distinct(u)
  <2>1. \A i \in 1 .. k, j \in 1 .. l : s[i].id # t[j].id
    BY <1>4 DEF Ids
  <2>2. SUFFICES ASSUME NEW i \in 1 .. k + l, NEW j \in 1 .. k + l, u[i].id = u[j].id
                 PROVE  i = j
    BY <1>1 DEF Distinct
  <2>3. \A x \in 1 .. k + l : x \notin 1 .. k => x - k \in 1 .. l /\ u[x] = t[x - k]
    BY <1>1
  <2>4. CASE i \in 1 .. k /\ j \in 1 .. k
    BY <1>1, <1>4, <2>2, <2>4 DEF Distinct
  <2>5. CASE i \in 1 .. k /\ j \notin 1 .. k
    BY <1>1, <2>1, <2>2, <2>3, <2>5
  <2>6. CASE i \notin 1 .. k /\ j \in 1 .. k
    BY <1>1, <2>1, <2>2, <2>3, <2>6
  <2>7. CASE i \notin 1 .. k /\ j \notin 1 .. k
    <3>1. i - k \in 1 .. l /\ j - k \in 1 .. l /\ t[i - k].id = t[j - k].id
      BY <2>2, <2>3, <2>7
    <3>2. i - k = j - k
      BY <1>4, <3>1 DEF Distinct
    <3>3. QED
      BY <1>1, <3>2
  <2>8. QED
    BY <2>4, <2>5, <2>6, <2>7
<1>5. QED
  BY <1>2, <1>3, <1>4 DEF u

\* Losing messages at the front keeps the order of those that follow.
LEMMA OrderWithoutMiddle ==
    ASSUME NEW s \in Seq(Messages), NEW t \in Seq(Messages), NEW d \in 0 .. Len(t), InOrder(s \o t)
    PROVE  /\ InOrder(s \o Suffix(t, d))
           /\ \A i \in 1 .. Len(s \o Suffix(t, d)) :
                  \E j \in 1 .. Len(s \o t) : (s \o Suffix(t, d))[i] = (s \o t)[j]
<1> DEFINE k == Len(s)  l == Len(t)  r == Suffix(t, d)  u == s \o t  v == s \o r
           old(i) == IF i <= k THEN i ELSE i + d
<1>1. k \in Nat /\ l \in Nat /\ d \in Nat /\ d <= l /\ r \in Seq(Messages) /\ Len(r) = l - d
  BY LenProperties, Split
<1>2. \A i \in 1 .. l - d : r[i] = t[d + i]
  <2>1. \A i \in 1 .. l : t[i] \in Messages
    BY ElementOfSeq
  <2>2. \A i \in d + 1 .. l : t[i] \in Messages
    BY <1>1, <2>1
  <2>3. \A i \in 1 .. l - (d + 1) + 1 : r[i] = t[(d + 1) + i - 1]
    BY <1>1, <2>2, SubSeqProperties DEF Suffix
  <2> HIDE DEF r
  <2>4. QED
    BY <1>1, <2>3
<1>3. /\ Len(u) = k + l
      /\ \A i \in 1 .. k + l : u[i] = IF i <= k THEN s[i] ELSE t[i - k]
  BY ConcatProperties
<1> HIDE DEF r
<1>4. /\ Len(v) = k + (l - d)
      /\ \A i \in 1 .. k + (l - d) : v[i] = IF i <= k THEN s[i] ELSE r[i - k]
  <2>1. /\ Len(v) = Len(s) + Len(r)
        /\ \A i \in 1 .. Len(s) + Len(r) : v[i] = IF i <= Len(s) THEN s[i] ELSE r[i - Len(s)]
    BY <1>1, ConcatProperties
  <2>2. Len(r) = l - d
    BY <1>1
  <2>3. QED
    BY <2>1, <2>2
<1> HIDE DEF u, v, k, l
<1>5. \A i \in 1 .. Len(v) : old(i) \in 1 .. Len(u) /\ v[i] = u[old(i)]
  <2>1. SUFFICES ASSUME NEW i \in 1 .. Len(v)
                 PROVE  old(i) \in 1 .. Len(u) /\ v[i] = u[old(i)]
    OBVIOUS
  <2>2. CASE i <= k
    <3>1. i \in 1 .. k + l /\ i \in 1 .. k + (l - d) /\ old(i) = i
      BY <1>1, <1>4, <2>2
    <3>2. QED
      BY <1>3, <1>4, <2>2, <3>1
  <2>3. CASE i > k
    <3>1. i - k \in 1 .. l - d /\ i + d \in 1 .. k + l /\ i + d > k
          /\ d + (i - k) = (i + d) - k /\ old(i) = i + d
      BY <1>1, <1>4, <2>3
    <3>2. v[i] = r[i - k] /\ u[i + d] = t[(i + d) - k] /\ r[i - k] = t[d + (i - k)]
      BY <1>1, <1>2, <1>3, <1>4, <2>3, <3>1
    <3>3. QED
      BY <1>3, <2>3, <3>1, <3>2
  <2>4. QED
    BY <1>1, <1>4, <2>2, <2>3
<1>6. \A i, j \in 1 .. Len(v) : i < j => old(i) < old(j)
  BY <1>1, <1>4
<1> HIDE DEF old
<1>7. InOrder(v)
  <2>1. InOrder(u)
    BY DEF u
  <2>2. QED
    BY <1>5, <1>6, <2>1 DEF InOrder
<1>8. QED
  BY <1>5, <1>7 DEF u, v, r

\* A message behind a route, in the order of its source, may be appended to it.
Behind(q, msg) == \A i \in 1 .. Len(q) : q[i].from = msg.from => q[i].id < msg.id

LEMMA OrderWithOneMore ==
    ASSUME NEW s \in Seq(Messages), NEW q \in Seq(Messages), NEW msg \in Messages,
           InOrder(s \o q), Behind(s \o q, msg)
    PROVE  /\ InOrder(s \o Append(q, msg))
           /\ \A later : later.from # msg.from \/ msg.id < later.id =>
                  (Behind(s \o q, later) => Behind(s \o Append(q, msg), later))
<1> DEFINE u == s \o q  v == s \o Append(q, msg)
<1>1. v = Append(u, msg)
  <2>1. Append(q, msg) = q \o <<msg>> /\ Append(u, msg) = u \o <<msg>>
    BY ConcatProperties, AppendIsConcat
  <2>2. <<msg>> \in Seq(Messages)
    OBVIOUS
  <2>3. QED
    BY <2>1, <2>2, ConcatAssociative
<1>2. /\ Len(u) \in Nat /\ Len(v) = Len(u) + 1 /\ v[Len(u) + 1] = msg
      /\ \A i \in 1 .. Len(u) : v[i] = u[i]
  <2>1. u \in Seq(Messages)
    BY ConcatProperties
  <2> HIDE DEF u, v
  <2>2. QED
    BY <1>1, <2>1, AppendProperties, LenProperties
<1>3. InOrder(u) /\ Behind(u, msg)
  OBVIOUS
<1> HIDE DEF u, v
<1>4. InOrder(v)
  <2>1. SUFFICES ASSUME NEW i \in 1 .. Len(v), NEW j \in 1 .. Len(v), i < j,
                        v[i].from = v[j].from
                 PROVE  v[i].id < v[j].id
    BY DEF InOrder
  <2>2. i \in 1 .. Len(u) /\ v[i] = u[i]
    BY <1>2, <2>1
  <2>3. CASE j \in 1 .. Len(u)
    BY <1>2, <1>3, <2>1, <2>2, <2>3 DEF InOrder
  <2>4. CASE j = Len(u) + 1
    BY <1>2, <1>3, <2>1, <2>2, <2>4 DEF Behind
  <2>5. QED
    BY <1>2, <2>3, <2>4
<1>5. ASSUME NEW later, later.from # msg.from \/ msg.id < later.id, Behind(u, later)
      PROVE  Behind(v, later)
  <2>1. SUFFICES ASSUME NEW i \in 1 .. Len(v), v[i].from = later.from
                 PROVE  v[i].id < later.id
    BY DEF Behind
  <2>2. CASE i \in 1 .. Len(u)
    <3>1. v[i] = u[i]
      BY <1>2, <2>2
    <3>2. QED
      BY <1>5, <2>1, <2>2, <3>1 DEF Behind
  <2>3. CASE i = Len(u) + 1
    BY <1>2, <1>5, <2>1, <2>3
  <2>4. QED
    BY <1>2, <2>2, <2>3
<1>6. InOrder(s \o Append(q, msg))
  BY <1>4 DEF v
<1>7. ASSUME NEW later, later.from # msg.from \/ msg.id < later.id, Behind(s \o q, later)
      PROVE  Behind(s \o Append(q, msg), later)
  <2>1. Behind(u, later)
    BY <1>7 DEF u
  <2>2. Behind(v, later)
    BY <1>5, <1>7, <2>1
  <2>3. QED
    BY <2>2 DEF v
<1>8. QED
  BY <1>6, <1>7

-----------------------------------------------------------------------------
(* The messages posted to a loop *)

Carried(q) == {q[i].msg : i \in {j \in 1 .. Len(q) : q[j].kind = "message"}}

\* They have ids of their own, and those of one source are in its order.
Lined(q) ==
    \A i, j \in 1 .. Len(q) :
        i < j /\ q[i].kind = "message" /\ q[j].kind = "message" =>
            /\ q[i].msg.id # q[j].msg.id
            /\ q[i].msg.from = q[j].msg.from => q[i].msg.id < q[j].msg.id

\* Running the first task leaves the others in line, behind its message if it has one.
LEMMA CarriedByTail ==
    ASSUME NEW S, NEW q \in Seq(S), q # <<>>, Lined(q)
    PROVE  /\ Lined(Tail(q)) /\ Carried(Tail(q)) \subseteq Carried(q)
           /\ Head(q).kind = "message" =>
                  /\ Head(q).msg \in Carried(q)
                  /\ \A msg \in Carried(Tail(q)) :
                         /\ msg.id # Head(q).msg.id
                         /\ Head(q).msg.from = msg.from => Head(q).msg.id < msg.id
<1> DEFINE r == Tail(q)
<1>1. /\ Len(q) \in Nat \ {0} /\ Len(r) = Len(q) - 1 /\ Head(q) = q[1]
      /\ \A i \in 1 .. Len(r) : r[i] = q[i + 1]
  BY HeadTailProperties, EmptySeq
<1> HIDE DEF r
<1>2. \A i \in 1 .. Len(r) : i + 1 \in 1 .. Len(q) /\ 1 < i + 1
  BY <1>1
<1>3. Lined(r)
  <2>1. SUFFICES ASSUME NEW i \in 1 .. Len(r), NEW j \in 1 .. Len(r), i < j,
                        r[i].kind = "message", r[j].kind = "message"
                 PROVE  /\ r[i].msg.id # r[j].msg.id
                        /\ r[i].msg.from = r[j].msg.from => r[i].msg.id < r[j].msg.id
    BY DEF Lined
  <2>2. /\ q[i + 1] = r[i] /\ i + 1 \in 1 .. Len(q)
        /\ q[j + 1] = r[j] /\ j + 1 \in 1 .. Len(q) /\ i + 1 < j + 1
    BY <1>1, <1>2, <2>1
  <2>3. QED
    BY <2>1, <2>2 DEF Lined
<1>4. Carried(r) \subseteq Carried(q)
  BY <1>1, <1>2 DEF Carried
<1>5. ASSUME Head(q).kind = "message"
      PROVE  /\ Head(q).msg \in Carried(q)
             /\ \A msg \in Carried(r) :
                    /\ msg.id # Head(q).msg.id
                    /\ Head(q).msg.from = msg.from => Head(q).msg.id < msg.id
  <2>1. 1 \in 1 .. Len(q)
    BY <1>1
  <2>2. SUFFICES ASSUME NEW i \in 1 .. Len(r), r[i].kind = "message"
                 PROVE  /\ r[i].msg.id # q[1].msg.id
                        /\ q[1].msg.from = r[i].msg.from => q[1].msg.id < r[i].msg.id
    BY <1>1, <1>5, <2>1 DEF Carried
  <2>3. q[i + 1] = r[i] /\ i + 1 \in 1 .. Len(q) /\ 1 < i + 1
    BY <1>1, <1>2
  <2>4. QED
    BY <1>1, <1>5, <2>1, <2>2, <2>3 DEF Lined
<1>6. QED
  BY <1>3, <1>4, <1>5 DEF r

\* Posting a flush carries nothing; posting a message adds it, behind the others.
LEMMA CarriedByAppend ==
    ASSUME NEW S, NEW q \in Seq(S), NEW e \in S
    PROVE  /\ Carried(Append(q, e)) =
                  Carried(q) \cup (IF e.kind = "message" THEN {e.msg} ELSE {})
           /\ Lined(q) /\ (e.kind = "message" =>
                  \A msg \in Carried(q) :
                      /\ msg.id # e.msg.id
                      /\ msg.from = e.msg.from => msg.id < e.msg.id)
              => Lined(Append(q, e))
<1> DEFINE r == Append(q, e)
<1>1. /\ Len(q) \in Nat /\ Len(r) = Len(q) + 1 /\ r[Len(q) + 1] = e
      /\ \A i \in 1 .. Len(q) : r[i] = q[i]
  BY AppendProperties, LenProperties
<1> HIDE DEF r
<1>2. Carried(r) = Carried(q) \cup (IF e.kind = "message" THEN {e.msg} ELSE {})
  <2>1. Carried(q) \subseteq Carried(r)
    BY <1>1 DEF Carried
  <2>2. e.kind = "message" => e.msg \in Carried(r)
    <3>1. Len(q) + 1 \in 1 .. Len(r)
      BY <1>1
    <3>2. QED
      BY <1>1, <3>1 DEF Carried
  <2>3. ASSUME NEW i \in 1 .. Len(r), r[i].kind = "message"
        PROVE  r[i].msg \in Carried(q) \cup (IF e.kind = "message" THEN {e.msg} ELSE {})
    <3>1. CASE i \in 1 .. Len(q)
      BY <1>1, <2>3, <3>1 DEF Carried
    <3>2. CASE i = Len(q) + 1
      BY <1>1, <2>3, <3>2
    <3>3. QED
      BY <1>1, <3>1, <3>2
  <2>4. QED
    BY <2>1, <2>2, <2>3 DEF Carried
<1>3. ASSUME Lined(q),
             e.kind = "message" =>
                  \A msg \in Carried(q) :
                      /\ msg.id # e.msg.id
                      /\ msg.from = e.msg.from => msg.id < e.msg.id
      PROVE  Lined(r)
  <2>1. SUFFICES ASSUME NEW i \in 1 .. Len(r), NEW j \in 1 .. Len(r), i < j,
                        r[i].kind = "message", r[j].kind = "message"
                 PROVE  /\ r[i].msg.id # r[j].msg.id
                        /\ r[i].msg.from = r[j].msg.from => r[i].msg.id < r[j].msg.id
    BY DEF Lined
  <2>2. i \in 1 .. Len(q) /\ r[i] = q[i] /\ r[i].msg \in Carried(q)
    BY <1>1, <2>1 DEF Carried
  <2>3. CASE j \in 1 .. Len(q)
    BY <1>1, <1>3, <2>1, <2>2, <2>3 DEF Lined
  <2>4. CASE j = Len(q) + 1
    BY <1>1, <1>3, <2>1, <2>2, <2>4
  <2>5. QED
    BY <1>1, <2>3, <2>4
<1>4. QED
  BY <1>2, <1>3 DEF r

-----------------------------------------------------------------------------
(* What a flush does to a queue *)

\* The front of q is trimmed, its middle is sent to g, the rest stays; a front is
\* trimmed only from a queue at its limit.
Serves(g, q) ==
    \E d \in 0 .. Len(q) : \E n \in 0 .. Len(q) - d :
        /\ d = 0 \/ Len(q) - d = QueueLimit[Manager(g)] - 1
        /\ Len(q) - d < QueueLimit[Manager(g)]
        /\ trimmed' = [trimmed EXCEPT ![g] = @ \o Prefix(q, d)]
        /\ sent' = [sent EXCEPT ![g] = @ \o SubSeq(q, d + 1, d + n)]
        /\ info'[g].queue = SubSeq(q, d + n + 1, Len(q))
        /\ info' \in [Gateways -> ConnectionInfo]
        /\ \A h \in Gateways \ {g} : info'[h].queue = info[h].queue

\* The tasks of m are q, and behind them perhaps the flush that continues this one.
FlushLeaves(m, g, q) ==
    \/ tasks' = [tasks EXCEPT ![m] = q]
    \/ tasks' = [tasks EXCEPT ![m] = Append(q, FlushTask(g))]

\* flushMessageQueue (DrainQueue), throttled or not, connected or not, serves the queue.
LEMMA FlushServes ==
    ASSUME TypeOK, NEW m \in Managers, NEW g \in Own(m), NEW c \in ConnectionInfo,
           NEW rest, DrainQueue(m, g, c, rest)
    PROVE  Serves(g, c.queue) /\ FlushLeaves(m, g, rest)
<1> DEFINE q == c.queue
           d == Excess(q, QueueLimit[m])
           kept == Suffix(q, d)
<1>1. /\ g \in Gateways /\ Manager(g) = m /\ QueueLimit[m] \in Nat \ {0}
      /\ q \in Seq(Messages) /\ Len(q) \in Nat
  BY GatewayOfManager, LenProperties DEF ConnectionInfo
<1>2. /\ d \in 0 .. Len(q) /\ Len(q) - d < QueueLimit[m]
      /\ d = 0 \/ Len(q) - d = QueueLimit[m] - 1
  BY <1>1, ExcessBounds DEF Excess
<1>3. kept \in Seq(Messages) /\ Len(kept) = Len(q) - d
  BY <1>1, <1>2, Split
<1>4. /\ trimmed' = [trimmed EXCEPT ![g] = @ \o Prefix(q, d)]
      /\ SendBatch(m, g, c, kept, rest) \/ Hold(m, g, c, kept, rest)
  BY DEF DrainQueue
<1> HIDE DEF d
<1>5. CASE SendBatch(m, g, c, kept, rest)
  <2>1. PICK n \in BatchSizes(kept) :
            /\ info' = [info EXCEPT ![g] =
                           AfterBatch(c, kept, CurrentRate(c, clockTime[m]), n)]
            /\ sent' = [sent EXCEPT ![g] = @ \o Prefix(kept, n)]
            /\ tasks' = [tasks EXCEPT ![m] =
                            IF Repost(kept, n) THEN Append(rest, FlushTask(g)) ELSE rest]
    BY <1>5 DEF SendBatch
  <2>2. n \in 0 .. Len(q) - d /\ n \in Nat
    BY <1>2, <1>3, BatchBounds
  <2>3. /\ SubSeq(q, d + 1, d + n) = Prefix(kept, n)
        /\ SubSeq(q, d + n + 1, Len(q)) = Suffix(kept, n)
        /\ Suffix(kept, n) \in Seq(Messages)
    <3>1. q \in Seq(Messages) /\ d \in 0 .. Len(q) /\ n \in 0 .. Len(q) - d
      BY <1>1, <1>2, <2>2
    <3> HIDE DEF q
    <3>2. QED
      BY <3>1, PartsOfTheRest DEF kept
  <2>4. /\ AfterBatch(c, kept, CurrentRate(c, clockTime[m]), n) \in ConnectionInfo
        /\ AfterBatch(c, kept, CurrentRate(c, clockTime[m]), n).queue = Suffix(kept, n)
    <3>1. CurrentRate(c, clockTime[m]) \in Nat /\ c.outMessageCount \in Nat
      BY DEF CurrentRate, ConnectionInfo
    <3>2. c.outMessageCount + n \in Nat /\ CurrentRate(c, clockTime[m]) + n \in Nat
      BY <2>2, <3>1
    <3> HIDE DEF kept
    <3>3. QED
      BY <2>3, <3>2 DEF AfterBatch, ConnectionInfo
  <2>5. /\ info' \in [Gateways -> ConnectionInfo] /\ info'[g].queue = Suffix(kept, n)
        /\ \A h \in Gateways \ {g} : info'[h].queue = info[h].queue
    BY <1>1, <2>1, <2>4 DEF TypeOK
  <2>6. Serves(g, q)
    BY <1>1, <1>2, <1>4, <2>1, <2>2, <2>3, <2>5 DEF Serves
  <2>7. FlushLeaves(m, g, rest)
    BY <2>1 DEF FlushLeaves
  <2>8. QED
    BY <2>6, <2>7
<1>6. CASE Hold(m, g, c, kept, rest)
  <2>1. /\ info' = [info EXCEPT ![g] = [c EXCEPT !.queue = kept]]
        /\ sent' = sent /\ tasks' = [tasks EXCEPT ![m] = rest]
    BY <1>6 DEF Hold
  <2>2. 0 \in 0 .. Len(q) - d /\ Len(kept) \in Nat
    BY <1>1, <1>2, <1>3
  <2>3. SubSeq(q, d + 1, d + 0) = <<>> /\ SubSeq(q, d + 0 + 1, Len(q)) = kept
    <3>1. d + 1 \in Int /\ d + 0 \in Int /\ d + 0 < d + 1 /\ d + 0 + 1 = d + 1
      BY <1>1, <1>2
    <3>2. QED
      BY <3>1, SubSeqEmpty DEF Suffix
  <2>4. sent' = [sent EXCEPT ![g] = @ \o SubSeq(q, d + 1, d + 0)]
    <3>1. sent[g] \in Seq(Messages) /\ sent \in [Gateways -> Seq(Messages)]
      BY <1>1 DEF TypeOK
    <3>2. sent[g] \o <<>> = sent[g]
      BY <3>1, ConcatEmptySeq
    <3>3. QED
      BY <2>1, <2>3, <3>1, <3>2
  <2>5. [c EXCEPT !.queue = kept] \in ConnectionInfo /\ [c EXCEPT !.queue = kept].queue = kept
    BY <1>3 DEF ConnectionInfo
  <2>6. /\ info' \in [Gateways -> ConnectionInfo] /\ info'[g].queue = kept
        /\ \A h \in Gateways \ {g} : info'[h].queue = info[h].queue
    BY <1>1, <2>1, <2>5 DEF TypeOK
  <2>7. Serves(g, q)
    BY <1>1, <1>2, <1>4, <2>2, <2>3, <2>4, <2>6 DEF Serves
  <2>8. FlushLeaves(m, g, rest)
    BY <2>1 DEF FlushLeaves
  <2>9. QED
    BY <2>7, <2>8
<1>7. QED
  BY <1>4, <1>5, <1>6

\* Everything g has been sent, has queued in q, or has lost.
All(g, q) == (sent[g] \o q) \o trimmed[g]

\* Serving a queue moves messages about: it duplicates none and reorders none that
\* are still on the route, and it leaves the other gateways alone.
LEMMA ServeKeeps ==
    ASSUME TypeOK, NEW g \in Gateways, NEW q \in Seq(Messages), Serves(g, q),
           Distinct(All(g, q)), InOrder(sent[g] \o q)
    PROVE  /\ Distinct(Handled(g)') /\ Ids(Handled(g)') = Ids(All(g, q))
           /\ InOrder(Route(g)')
           /\ \A msg : Behind(sent[g] \o q, msg) => Behind(Route(g)', msg)
           /\ \A h \in Gateways \ {g} : Handled(h)' = Handled(h) /\ Route(h)' = Route(h)
<1>1. PICK d \in 0 .. Len(q) : \E n \in 0 .. Len(q) - d :
          /\ trimmed' = [trimmed EXCEPT ![g] = @ \o Prefix(q, d)]
          /\ sent' = [sent EXCEPT ![g] = @ \o SubSeq(q, d + 1, d + n)]
          /\ info'[g].queue = SubSeq(q, d + n + 1, Len(q))
          /\ \A h \in Gateways \ {g} : info'[h].queue = info[h].queue
  BY DEF Serves
<1>2. PICK n \in 0 .. Len(q) - d :
          /\ trimmed' = [trimmed EXCEPT ![g] = @ \o Prefix(q, d)]
          /\ sent' = [sent EXCEPT ![g] = @ \o SubSeq(q, d + 1, d + n)]
          /\ info'[g].queue = SubSeq(q, d + n + 1, Len(q))
          /\ \A h \in Gateways \ {g} : info'[h].queue = info[h].queue
  BY <1>1
<1> DEFINE s == sent[g]
           t == trimmed[g]
           a == Prefix(q, d)
           b == SubSeq(q, d + 1, d + n)
           c == SubSeq(q, d + n + 1, Len(q))
<1>3. s \in Seq(Messages) /\ t \in Seq(Messages)
  BY DEF TypeOK
<1>4. a \in Seq(Messages) /\ b \in Seq(Messages) /\ c \in Seq(Messages)
  <2>1. a \in Seq(Messages)
    BY Split
  <2>2. b \in Seq(Messages)
    BY ThreeParts
  <2>3. c \in Seq(Messages)
    BY ThreeParts
  <2>4. QED
    BY <2>1, <2>2, <2>3
<1>5. q = a \o (b \o c) /\ Suffix(q, d) = b \o c
  <2>1. q = Prefix(q, d) \o Suffix(q, d)
    BY ThreeParts
  <2>2. Suffix(q, d) = SubSeq(q, d + 1, d + n) \o SubSeq(q, d + n + 1, Len(q))
    BY ThreeParts
  <2>3. QED
    BY <2>1, <2>2
<1>6. sent'[g] = s \o b /\ trimmed'[g] = t \o a /\ info'[g].queue = c
  BY <1>2 DEF TypeOK
<1>7. \A h \in Gateways \ {g} : Handled(h)' = Handled(h) /\ Route(h)' = Route(h)
  BY <1>2 DEF TypeOK, Handled, Route
<1> HIDE DEF s, t, a, b, c
<1>8. Route(g)' = (s \o b) \o c /\ Handled(g)' = ((s \o b) \o c) \o (t \o a)
  BY <1>6 DEF Route, Handled
<1>9. All(g, q) = (s \o (a \o (b \o c))) \o t
  BY <1>5 DEF All, s, t
<1>10. /\ s \o b \in Seq(Messages) /\ b \o c \in Seq(Messages) /\ t \o a \in Seq(Messages)
       /\ (s \o b) \o c \in Seq(Messages) /\ a \o (b \o c) \in Seq(Messages)
       /\ s \o (a \o (b \o c)) \in Seq(Messages)
  BY <1>3, <1>4, Joined
<1>11. /\ Ids(All(g, q)) = (Ids(s) \cup (Ids(a) \cup (Ids(b) \cup Ids(c)))) \cup Ids(t)
       /\ Ids(Handled(g)') = ((Ids(s) \cup Ids(b)) \cup Ids(c)) \cup (Ids(t) \cup Ids(a))
  <2>1. /\ Ids(b \o c) = Ids(b) \cup Ids(c) /\ Ids(a \o (b \o c)) = Ids(a) \cup Ids(b \o c)
        /\ Ids(s \o (a \o (b \o c))) = Ids(s) \cup Ids(a \o (b \o c))
        /\ Ids((s \o (a \o (b \o c))) \o t) = Ids(s \o (a \o (b \o c))) \cup Ids(t)
    BY <1>3, <1>4, <1>10, JoinedIds
  <2>2. /\ Ids(s \o b) = Ids(s) \cup Ids(b) /\ Ids(t \o a) = Ids(t) \cup Ids(a)
        /\ Ids((s \o b) \o c) = Ids(s \o b) \cup Ids(c)
        /\ Ids(((s \o b) \o c) \o (t \o a)) = Ids((s \o b) \o c) \cup Ids(t \o a)
    BY <1>3, <1>4, <1>10, JoinedIds
  <2>3. QED
    BY <1>8, <1>9, <2>1, <2>2
<1>12. Ids(Handled(g)') = Ids(All(g, q))
  BY <1>11
<1>13. Distinct(Handled(g)')
  <2>1. /\ Distinct(s \o (a \o (b \o c))) /\ Distinct(t)
        /\ Ids(s \o (a \o (b \o c))) \cap Ids(t) = {}
    <3>1. Distinct((s \o (a \o (b \o c))) \o t)
      BY <1>9
    <3>2. QED
      BY <1>3, <1>10, <3>1, JoinedIds
  <2>2. /\ Distinct(s) /\ Distinct(a \o (b \o c)) /\ Ids(s) \cap Ids(a \o (b \o c)) = {}
        /\ Ids(s \o (a \o (b \o c))) = Ids(s) \cup Ids(a \o (b \o c))
    BY <1>3, <1>10, <2>1, JoinedIds
  <2>3. /\ Distinct(a) /\ Distinct(b \o c) /\ Ids(a) \cap Ids(b \o c) = {}
        /\ Ids(a \o (b \o c)) = Ids(a) \cup Ids(b \o c)
    BY <1>4, <1>10, <2>2, JoinedIds
  <2>4. /\ Distinct(b) /\ Distinct(c) /\ Ids(b) \cap Ids(c) = {}
        /\ Ids(b \o c) = Ids(b) \cup Ids(c)
    BY <1>4, <2>3, JoinedIds
  <2>5. Distinct(s \o b) /\ Ids(s \o b) = Ids(s) \cup Ids(b)
    BY <1>3, <1>4, <2>2, <2>3, <2>4, JoinedIds
  <2>6. Distinct(t \o a) /\ Ids(t \o a) = Ids(t) \cup Ids(a)
    BY <1>3, <1>4, <2>1, <2>2, <2>3, JoinedIds
  <2>7. /\ Ids(s \o b) \cap Ids(c) = {}
        /\ ((Ids(s) \cup Ids(b)) \cup Ids(c)) \cap (Ids(t) \cup Ids(a)) = {}
    BY <2>1, <2>2, <2>3, <2>4, <2>5
  <2>8. Distinct((s \o b) \o c) /\ Ids((s \o b) \o c) = (Ids(s) \cup Ids(b)) \cup Ids(c)
    BY <1>4, <1>10, <2>4, <2>5, <2>7, JoinedIds
  <2>9. QED
    <3>1. Ids((s \o b) \o c) \cap Ids(t \o a) = {}
      BY <2>6, <2>7, <2>8
    <3>2. Distinct(((s \o b) \o c) \o (t \o a))
      BY <1>10, <2>6, <2>8, <3>1, JoinedIds
    <3>3. QED
      BY <1>8, <3>2
<1>14. Route(g)' = s \o Suffix(q, d)
  <2>1. (s \o b) \o c = s \o (b \o c)
    <3>1. s \in Seq(Messages) /\ b \in Seq(Messages) /\ c \in Seq(Messages)
      BY <1>3, <1>4
    <3>2. QED
      BY <3>1, Associative, Zenon
  <2>2. b \o c = Suffix(q, d)
    BY <1>5
  <2>3. Route(g)' = (s \o b) \o c
    BY <1>8
  <2>4. QED
    BY <2>1, <2>2, <2>3
<1>15. InOrder(Route(g)')
  BY <1>3, <1>14, OrderWithoutMiddle DEF s
<1>16. ASSUME NEW msg, Behind(sent[g] \o q, msg)
       PROVE  Behind(Route(g)', msg)
  <2>1. \A i \in 1 .. Len(s \o Suffix(q, d)) :
            \E j \in 1 .. Len(s \o q) : (s \o Suffix(q, d))[i] = (s \o q)[j]
    BY <1>3, OrderWithoutMiddle DEF s
  <2>2. Behind(s \o q, msg)
    BY <1>16 DEF s
  <2>3. QED
    BY <1>14, <2>1, <2>2 DEF Behind
<1>17. QED
  BY <1>7, <1>12, <1>13, <1>15, <1>16

-----------------------------------------------------------------------------
(* The inductive invariant *)

\* Ids are given out in the order of arrival, and only the other manager posts.
IdsKnown ==
    /\ \A g \in Gateways : Ids(Handled(g)) \subseteq 1 .. received
    /\ \A m \in Managers : \A msg \in Carried(tasks[m]) :
           msg.id \in 1 .. received /\ msg.from \in Own(Other(m))

\* An id is in one place: handled for one gateway, once, or on its way to one loop.
OneCopy ==
    /\ \A g \in Gateways :
           /\ Distinct(Handled(g))
           /\ \A h \in Gateways \ {g} : Ids(Handled(g)) \cap Ids(Handled(h)) = {}
    /\ \A m \in Managers : \A msg \in Carried(tasks[m]) :
           /\ \A other \in Carried(tasks[Other(m)]) : msg.id # other.id
           /\ \A g \in Gateways : msg.id \notin Ids(Handled(g))

\* What is posted to a loop is in line, behind what its gateways have been given.
InLine ==
    /\ \A g \in Gateways : InOrder(Route(g))
    /\ \A m \in Managers :
           /\ Lined(tasks[m])
           /\ \A msg \in Carried(tasks[m]) : \A g \in Own(m) : Behind(Route(g), msg)

Delivery == IdsKnown /\ OneCopy /\ InLine

\* The three shapes of a step.  No queue moves, and a loop loses tasks at most.
QueuesKept ==
    /\ sent' = sent /\ trimmed' = trimmed
    /\ \A g \in Gateways : info'[g].queue = info[g].queue

Quiet ==
    /\ received' \in {received, received + 1} /\ QueuesKept
    /\ \A m \in Managers : \/ tasks'[m] \in {tasks[m], <<>>}
                           \/ tasks[m] # <<>> /\ tasks'[m] = Tail(tasks[m])

\* A message just received is posted to the other loop.
Posting(m, msg) ==
    /\ msg.id = received + 1 /\ msg.from \in Own(Other(m)) /\ received' = received + 1
    /\ QueuesKept /\ tasks' = [tasks EXCEPT ![m] = Append(@, MessageTask(msg))]

\* A queue is flushed as it is, by a task or from another handler,
Flushing(m, g) ==
    /\ received' = received /\ Serves(g, info[g].queue)
    /\ \/ FlushLeaves(m, g, tasks[m])
       \/ tasks[m] # <<>> /\ FlushLeaves(m, g, Tail(tasks[m]))

\* or with one more message, just received or taken from the tasks.
Delivering(m, g, msg) ==
    /\ Serves(g, Append(info[g].queue, msg))
    /\ \/ /\ msg.id = received + 1 /\ msg.from \in Own(m) /\ received' = received + 1
          /\ FlushLeaves(m, g, tasks[m])
       \/ /\ tasks[m] # <<>> /\ Head(tasks[m]) = MessageTask(msg) /\ received' = received
          /\ FlushLeaves(m, g, Tail(tasks[m]))

\* The route of a gateway is part of what has been handled for it.
LEMMA RouteHandled ==
    ASSUME TypeOK, NEW g \in Gateways
    PROVE  Ids(Route(g)) \subseteq Ids(Handled(g))
<1>1. /\ sent[g] \o info[g].queue \in Seq(Messages) /\ trimmed[g] \in Seq(Messages)
  BY Joined DEF TypeOK, ConnectionInfo
<1>2. Ids((sent[g] \o info[g].queue) \o trimmed[g])
          = Ids(sent[g] \o info[g].queue) \cup Ids(trimmed[g])
  BY <1>1, JoinedIds
<1>3. QED
  BY <1>2 DEF Route, Handled

\* A message younger than all of a queue is behind it.
LEMMA YoungerIsBehind ==
    ASSUME NEW q, NEW n \in Nat, Ids(q) \subseteq 1 .. n, NEW msg, msg.id = n + 1
    PROVE  Behind(q, msg)
<1>1. SUFFICES ASSUME NEW i \in 1 .. Len(q)
               PROVE  q[i].id < msg.id
  BY DEF Behind
<1>2. q[i].id \in 1 .. n
  BY DEF Ids
<1>3. QED
  BY <1>2

\* A step that moves no queue and only takes tasks away keeps the invariant.
LEMMA QuietKeeps ==
    ASSUME TypeOK, Delivery, Quiet
    PROVE  Delivery'
<1>1. received \in Nat /\ received' \in Nat /\ 1 .. received \subseteq 1 .. received'
  BY DEF TypeOK, Quiet
<1>2. \A g \in Gateways : Handled(g)' = Handled(g) /\ Route(g)' = Route(g)
  BY DEF Quiet, QueuesKept, Handled, Route
<1>3. ASSUME NEW m \in Managers
      PROVE  Lined(tasks'[m]) /\ Carried(tasks'[m]) \subseteq Carried(tasks[m])
  <2>1. tasks[m] \in Seq(Tasks) /\ Lined(tasks[m])
    BY DEF TypeOK, Delivery, InLine
  <2>2. CASE tasks'[m] = tasks[m]
    BY <2>1, <2>2
  <2>3. CASE tasks'[m] = <<>>
    <3>1. Len(<<>>) = 0
      OBVIOUS
    <3>2. QED
      BY <2>3, <3>1 DEF Lined, Carried
  <2>4. CASE tasks[m] # <<>> /\ tasks'[m] = Tail(tasks[m])
    BY <2>1, <2>4, CarriedByTail
  <2>5. QED
    BY <2>2, <2>3, <2>4 DEF Quiet
<1>4. \A m \in Managers : Other(m) \in Managers
  BY DEF Managers, Other
<1>5. IdsKnown'
  BY <1>1, <1>2, <1>3 DEF Delivery, IdsKnown
<1>6. OneCopy'
  BY <1>2, <1>3, <1>4 DEF Delivery, OneCopy
<1>7. InLine'
  BY <1>2, <1>3, GatewayOfManager DEF Delivery, InLine
<1>8. QED
  BY <1>5, <1>6, <1>7 DEF Delivery

\* Posting the newest message puts it behind everything else on its way.
LEMMA PostingKeeps ==
    ASSUME TypeOK, Delivery, NEW m \in Managers, NEW msg \in Messages, Posting(m, msg)
    PROVE  Delivery'
<1> DEFINE n == Other(m)
<1>1. /\ received \in Nat /\ received' = received + 1 /\ msg.id = received + 1
      /\ msg.from \in Own(n) /\ tasks \in [Managers -> Seq(Tasks)]
  BY DEF TypeOK, Posting
<1>2. n \in Managers /\ Managers = {m, n} /\ m # n /\ Other(n) = m
  BY DEF Managers, Other
<1>3. \A g \in Gateways : Handled(g)' = Handled(g) /\ Route(g)' = Route(g)
  BY DEF Posting, QueuesKept, Handled, Route
<1>4. /\ MessageTask(msg) \in Tasks /\ MessageTask(msg).kind = "message"
      /\ MessageTask(msg).msg = msg
  BY DEF MessageTask, Tasks
<1>5. tasks'[n] = tasks[n] /\ tasks'[m] = Append(tasks[m], MessageTask(msg))
  BY <1>1, <1>2 DEF Posting
<1> HIDE DEF n
<1>6. Carried(tasks'[m]) = Carried(tasks[m]) \cup {msg}
  BY <1>1, <1>4, <1>5, CarriedByAppend
<1>7. \A k \in Managers : \A other \in Carried(tasks[k]) : other.id \in 1 .. received
  BY DEF Delivery, IdsKnown
<1>8. \A k \in Managers : \A other \in Carried(tasks[k]) :
          other.id # msg.id /\ other.id < msg.id
  BY <1>1, <1>7
<1>9. Lined(tasks'[m])
  <2>1. Lined(tasks[m]) /\ tasks[m] \in Seq(Tasks)
    BY <1>1 DEF Delivery, InLine
  <2>2. QED
    BY <1>4, <1>5, <1>8, <2>1, CarriedByAppend
<1>10. \A g \in Gateways : msg.id \notin Ids(Handled(g)) /\ Behind(Route(g), msg)
  <2>1. SUFFICES ASSUME NEW g \in Gateways
                 PROVE  msg.id \notin Ids(Handled(g)) /\ Behind(Route(g), msg)
    OBVIOUS
  <2>2. Ids(Handled(g)) \subseteq 1 .. received
    BY DEF Delivery, IdsKnown
  <2>3. Ids(Route(g)) \subseteq 1 .. received
    BY <2>2, RouteHandled
  <2>4. Behind(Route(g), msg)
    BY <1>1, <2>3, YoungerIsBehind
  <2>5. msg.id \notin 1 .. received
    BY <1>1
  <2>6. QED
    BY <2>2, <2>4, <2>5
<1>11. IdsKnown'
  <2>1. 1 .. received \subseteq 1 .. received' /\ msg.id \in 1 .. received'
    BY <1>1
  <2>2. QED
    BY <1>1, <1>2, <1>3, <1>5, <1>6, <2>1 DEF Delivery, IdsKnown, n
<1>12. OneCopy'
  BY <1>2, <1>3, <1>5, <1>6, <1>8, <1>10 DEF Delivery, OneCopy, n
<1>13. InLine'
  <2>1. \A g \in Gateways : InOrder(Route(g))
    BY DEF Delivery, InLine
  <2>2. \A k \in Managers : \A g \in Own(k) : g \in Gateways
    BY GatewayOfManager
  <2>3. \A k \in Managers :
            /\ Lined(tasks[k])
            /\ \A other \in Carried(tasks[k]) : \A g \in Own(k) : Behind(Route(g), other)
    BY DEF Delivery, InLine
  <2>4. \A k \in Managers :
            /\ Lined(tasks'[k])
            /\ \A other \in Carried(tasks'[k]) : \A g \in Own(k) : Behind(Route(g), other)
    BY <1>2, <1>5, <1>6, <1>9, <1>10, <2>2, <2>3
  <2>5. QED
    BY <1>3, <2>1, <2>2, <2>4 DEF InLine
<1>14. QED
  BY <1>11, <1>12, <1>13 DEF Delivery

\* A flush carries no message: the loop carries what it did before it.
LEMMA FlushCarriesNothing ==
    ASSUME TypeOK, NEW m \in Managers, NEW g \in Gateways,
           NEW rest \in Seq(Tasks), Lined(rest), FlushLeaves(m, g, rest)
    PROVE  /\ Lined(tasks'[m]) /\ Carried(tasks'[m]) = Carried(rest)
           /\ \A k \in Managers \ {m} : tasks'[k] = tasks[k]
<1>1. FlushTask(g) \in Tasks /\ FlushTask(g).kind # "message"
  BY TasksAreTyped
<1>2. /\ Carried(Append(rest, FlushTask(g))) = Carried(rest)
      /\ Lined(Append(rest, FlushTask(g)))
  <2> DEFINE e == FlushTask(g)
  <2>1. e \in Tasks /\ e.kind # "message"
    BY <1>1
  <2> HIDE DEF e
  <2>2. Carried(Append(rest, e)) = Carried(rest) \cup (IF e.kind = "message" THEN {e.msg} ELSE {})
    BY <2>1, CarriedByAppend
  <2>3. Lined(Append(rest, e))
    BY <2>1, CarriedByAppend
  <2>4. QED
    BY <2>1, <2>2, <2>3 DEF e
<1>3. /\ tasks'[m] \in {rest, Append(rest, FlushTask(g))}
      /\ \A k \in Managers \ {m} : tasks'[k] = tasks[k]
  BY DEF FlushLeaves, TypeOK
<1>4. QED
  BY <1>2, <1>3

\* Serving a queue keeps the invariant if it holds with that queue in place.
LEMMA ServingKeeps ==
    ASSUME TypeOK, Delivery, NEW g \in Gateways, NEW q \in Seq(Messages), Serves(g, q),
           received' \in Nat, received <= received',
           Distinct(All(g, q)), InOrder(sent[g] \o q), Ids(All(g, q)) \subseteq 1 .. received',
           \A h \in Gateways \ {g} : Ids(All(g, q)) \cap Ids(Handled(h)) = {},
           \A m \in Managers :
               /\ Lined(tasks'[m]) /\ Carried(tasks'[m]) \subseteq Carried(tasks[m])
               /\ \A msg \in Carried(tasks'[m]) :
                      /\ msg.id \notin Ids(All(g, q))
                      /\ g \in Own(m) => Behind(sent[g] \o q, msg)
    PROVE  Delivery'
<1>1. /\ Distinct(Handled(g)') /\ Ids(Handled(g)') = Ids(All(g, q))
      /\ InOrder(Route(g)')
      /\ \A msg : Behind(sent[g] \o q, msg) => Behind(Route(g)', msg)
      /\ \A h \in Gateways \ {g} : Handled(h)' = Handled(h) /\ Route(h)' = Route(h)
  BY ServeKeeps
<1>2. 1 .. received \subseteq 1 .. received'
  BY DEF TypeOK
<1>3. IdsKnown'
  <2>1. \A h \in Gateways : Ids(Handled(h)') \subseteq 1 .. received'
    BY <1>1, <1>2 DEF Delivery, IdsKnown
  <2>2. \A m \in Managers : \A msg \in Carried(tasks'[m]) :
            msg.id \in 1 .. received' /\ msg.from \in Own(Other(m))
    BY <1>2 DEF Delivery, IdsKnown
  <2>3. QED
    BY <2>1, <2>2 DEF IdsKnown
<1>4. OneCopy'
  <2>1. \A h \in Gateways : Distinct(Handled(h)')
    BY <1>1 DEF Delivery, OneCopy
  <2>2. \A h \in Gateways : \A k \in Gateways \ {h} :
            Ids(Handled(h)') \cap Ids(Handled(k)') = {}
    <3>1. SUFFICES ASSUME NEW h \in Gateways, NEW k \in Gateways \ {h}
                   PROVE  Ids(Handled(h)') \cap Ids(Handled(k)') = {}
      OBVIOUS
    <3>2. CASE h = g
      BY <1>1, <3>2
    <3>3. CASE k = g
      BY <1>1, <3>1, <3>3
    <3>4. CASE h # g /\ k # g
      BY <1>1, <3>4 DEF Delivery, OneCopy
    <3>5. QED
      BY <3>2, <3>3, <3>4
  <2>3. ASSUME NEW m \in Managers, NEW msg \in Carried(tasks'[m])
        PROVE  /\ \A other \in Carried(tasks'[Other(m)]) : msg.id # other.id
               /\ \A h \in Gateways : msg.id \notin Ids(Handled(h)')
    <3>1. msg \in Carried(tasks[m]) /\ Other(m) \in Managers
      BY DEF Managers, Other
    <3>2. \A h \in Gateways : msg.id \notin Ids(Handled(h)')
      BY <1>1, <3>1 DEF Delivery, OneCopy
    <3>3. QED
      BY <3>1, <3>2 DEF Delivery, OneCopy
  <2>4. QED
    BY <2>1, <2>2, <2>3 DEF OneCopy
<1>5. InLine'
  <2>1. \A h \in Gateways : InOrder(Route(h)')
    BY <1>1 DEF Delivery, InLine
  <2>2. ASSUME NEW m \in Managers, NEW msg \in Carried(tasks'[m]), NEW h \in Own(m)
        PROVE  Behind(Route(h)', msg)
    <3>1. h \in Gateways /\ msg \in Carried(tasks[m])
      BY GatewayOfManager
    <3>2. CASE h = g
      BY <1>1, <3>2
    <3>3. CASE h # g
      BY <1>1, <3>1, <3>3 DEF Delivery, InLine
    <3>4. QED
      BY <3>2, <3>3
  <2>3. QED
    BY <2>1, <2>2 DEF InLine
<1>6. QED
  BY <1>3, <1>4, <1>5 DEF Delivery

\* A flush of what is queued keeps the invariant.
LEMMA FlushingKeeps ==
    ASSUME TypeOK, Delivery, NEW m \in Managers, NEW g \in Own(m), Flushing(m, g)
    PROVE  Delivery'
<1>1. /\ g \in Gateways /\ received' = received /\ received \in Nat
      /\ Serves(g, info[g].queue) /\ info[g].queue \in Seq(Messages)
  BY GatewayOfManager DEF Flushing, TypeOK, ConnectionInfo
<1>2. tasks[m] \in Seq(Tasks) /\ Lined(tasks[m])
  BY DEF TypeOK, Delivery, InLine
<1>3. PICK rest \in Seq(Tasks) :
          /\ FlushLeaves(m, g, rest) /\ Lined(rest) /\ Carried(rest) \subseteq Carried(tasks[m])
  <2>1. CASE FlushLeaves(m, g, tasks[m])
    BY <1>2, <2>1
  <2>2. CASE tasks[m] # <<>> /\ FlushLeaves(m, g, Tail(tasks[m]))
    <3>1. /\ Tail(tasks[m]) \in Seq(Tasks) /\ Lined(Tail(tasks[m]))
          /\ Carried(Tail(tasks[m])) \subseteq Carried(tasks[m])
      BY <1>2, <2>2, CarriedByTail, HeadTailProperties
    <3>2. QED
      BY <2>2, <3>1
  <2>3. QED
    BY <2>1, <2>2 DEF Flushing
<1>4. /\ Lined(tasks'[m]) /\ Carried(tasks'[m]) \subseteq Carried(tasks[m])
      /\ \A k \in Managers \ {m} : tasks'[k] = tasks[k]
  BY <1>1, <1>3, FlushCarriesNothing
<1>5. \A k \in Managers : Lined(tasks'[k]) /\ Carried(tasks'[k]) \subseteq Carried(tasks[k])
  BY <1>4 DEF Delivery, InLine
<1>6. All(g, info[g].queue) = Handled(g) /\ sent[g] \o info[g].queue = Route(g)
  BY DEF All, Handled, Route
<1>7. /\ Distinct(Handled(g)) /\ InOrder(Route(g)) /\ Ids(Handled(g)) \subseteq 1 .. received
      /\ \A h \in Gateways \ {g} : Ids(Handled(g)) \cap Ids(Handled(h)) = {}
  BY <1>1 DEF Delivery, IdsKnown, OneCopy, InLine
<1>8. \A k \in Managers : \A msg \in Carried(tasks'[k]) :
          msg.id \notin Ids(Handled(g)) /\ (g \in Own(k) => Behind(Route(g), msg))
  BY <1>1, <1>5 DEF Delivery, OneCopy, InLine
<1> DEFINE q == info[g].queue
<1>9. /\ Distinct(All(g, q)) /\ InOrder(sent[g] \o q) /\ Ids(All(g, q)) \subseteq 1 .. received'
      /\ \A h \in Gateways \ {g} : Ids(All(g, q)) \cap Ids(Handled(h)) = {}
      /\ received' \in Nat /\ received <= received'
  BY <1>1, <1>6, <1>7
<1>10. \A k \in Managers :
           /\ Lined(tasks'[k]) /\ Carried(tasks'[k]) \subseteq Carried(tasks[k])
           /\ \A msg \in Carried(tasks'[k]) :
                  /\ msg.id \notin Ids(All(g, q))
                  /\ g \in Own(k) => Behind(sent[g] \o q, msg)
  BY <1>5, <1>6, <1>8
<1>11. Serves(g, q) /\ q \in Seq(Messages)
  BY <1>1
<1> HIDE DEF q
<1>12. QED
  BY <1>1, <1>9, <1>10, <1>11, ServingKeeps

\* What is handled grows by the message that is queued.
LEMMA OneMoreHandled ==
    ASSUME TypeOK, NEW g \in Gateways, NEW msg \in Messages,
           Distinct(Handled(g)), msg.id \notin Ids(Handled(g))
    PROVE  /\ Distinct(All(g, Append(info[g].queue, msg)))
           /\ Ids(All(g, Append(info[g].queue, msg))) = Ids(Handled(g)) \cup {msg.id}
<1> DEFINE s == sent[g]  q == info[g].queue  t == trimmed[g]  one == <<msg>>
<1>1. /\ s \in Seq(Messages) /\ q \in Seq(Messages) /\ t \in Seq(Messages)
      /\ one \in Seq(Messages)
  BY DEF TypeOK, ConnectionInfo
<1>2. Ids(one) = {msg.id} /\ Distinct(one)
  BY DEF Ids, Distinct
<1>3. Append(q, msg) = q \o one
  BY <1>1, AppendIsConcat
<1>4. Handled(g) = (s \o q) \o t /\ All(g, Append(q, msg)) = (s \o (q \o one)) \o t
  BY <1>3 DEF Handled, All
<1> HIDE DEF s, q, t, one
<1>5. s \o q \in Seq(Messages) /\ q \o one \in Seq(Messages) /\ s \o (q \o one) \in Seq(Messages)
  BY <1>1, Joined
<1>6. /\ Distinct(s \o q) /\ Distinct(t) /\ Ids(s \o q) \cap Ids(t) = {}
      /\ Ids(Handled(g)) = Ids(s \o q) \cup Ids(t)
  <2>1. Distinct((s \o q) \o t)
    BY <1>4
  <2>2. QED
    BY <1>1, <1>4, <1>5, <2>1, JoinedIds
<1>7. /\ Distinct(s) /\ Distinct(q) /\ Ids(s) \cap Ids(q) = {}
      /\ Ids(s \o q) = Ids(s) \cup Ids(q)
  BY <1>1, <1>6, JoinedIds
<1>8. Distinct(q \o one) /\ Ids(q \o one) = Ids(q) \cup {msg.id}
  <2>1. Ids(q) \cap Ids(one) = {}
    BY <1>2, <1>6, <1>7
  <2>2. QED
    BY <1>1, <1>2, <1>7, <2>1, JoinedIds
<1>9. Distinct(s \o (q \o one)) /\ Ids(s \o (q \o one)) = Ids(s) \cup (Ids(q) \cup {msg.id})
  <2>1. Ids(s) \cap Ids(q \o one) = {}
    BY <1>6, <1>7, <1>8
  <2>2. QED
    BY <1>1, <1>5, <1>7, <1>8, <2>1, JoinedIds
<1>10. /\ Distinct((s \o (q \o one)) \o t)
       /\ Ids((s \o (q \o one)) \o t) = (Ids(s) \cup (Ids(q) \cup {msg.id})) \cup Ids(t)
  <2>1. Ids(s \o (q \o one)) \cap Ids(t) = {}
    BY <1>6, <1>7, <1>9
  <2>2. QED
    BY <1>1, <1>5, <1>6, <1>9, <2>1, JoinedIds
<1>11. QED
  BY <1>4, <1>6, <1>7, <1>10 DEF q

\* A message that is new to every gateway and first in line on its loop: what is
\* needed to queue it and serve the queue.
MayQueue(m, g, msg, rest) ==
    /\ msg.id \in 1 .. received'
    /\ \A h \in Gateways : msg.id \notin Ids(Handled(h))
    /\ Behind(Route(g), msg)
    /\ rest \in Seq(Tasks) /\ Lined(rest) /\ Carried(rest) \subseteq Carried(tasks[m])
    /\ \A later \in Carried(rest) :
           later.id # msg.id /\ (later.from # msg.from \/ msg.id < later.id)
    /\ \A other \in Carried(tasks[Other(m)]) : other.id # msg.id

\* A message just received by the loop of g is new, and no task carries one from g.
LEMMA ReceivedMayQueue ==
    ASSUME TypeOK, Delivery, NEW m \in Managers, NEW g \in Own(m), NEW msg \in Messages,
           msg.id = received + 1, msg.from \in Own(m), received' = received + 1
    PROVE  MayQueue(m, g, msg, tasks[m])
<1>1. g \in Gateways /\ received \in Nat /\ Other(m) \in Managers
  BY GatewayOfManager DEF TypeOK, Managers, Other
<1>2. msg.id \in 1 .. received' /\ msg.id \notin 1 .. received
  BY <1>1
<1>3. \A h \in Gateways : Ids(Handled(h)) \subseteq 1 .. received
  BY DEF Delivery, IdsKnown
<1>4. Ids(Route(g)) \subseteq 1 .. received
  BY <1>1, <1>3, RouteHandled
<1>5. Behind(Route(g), msg)
  BY <1>1, <1>4, YoungerIsBehind
<1>6. tasks[m] \in Seq(Tasks) /\ Lined(tasks[m])
  BY DEF TypeOK, Delivery, InLine
<1>7. \A k \in Managers : \A other \in Carried(tasks[k]) :
          other.id \in 1 .. received /\ other.from \in Own(Other(k))
  BY DEF Delivery, IdsKnown
<1>8. Own(m) \cap Own(Other(m)) = {}
  BY RouterAssumption DEF Own, Other, Managers
<1>9. \A later \in Carried(tasks[m]) : later.id # msg.id /\ later.from # msg.from
  BY <1>2, <1>7, <1>8
<1>10. \A other \in Carried(tasks[Other(m)]) : other.id # msg.id
  BY <1>1, <1>2, <1>7
<1>11. QED
  BY <1>2, <1>3, <1>5, <1>6, <1>9, <1>10 DEF MayQueue

\* The first message posted to the loop of g is ahead of the others posted there.
LEMMA PostedMayQueue ==
    ASSUME TypeOK, Delivery, NEW m \in Managers, NEW g \in Own(m), NEW msg \in Messages,
           tasks[m] # <<>>, Head(tasks[m]) = MessageTask(msg), received' = received
    PROVE  MayQueue(m, g, msg, Tail(tasks[m]))
<1>1. g \in Gateways /\ tasks[m] \in Seq(Tasks) /\ Lined(tasks[m])
  BY GatewayOfManager DEF TypeOK, Delivery, InLine
<1>2. MessageTask(msg).kind = "message" /\ MessageTask(msg).msg = msg
  BY DEF MessageTask
<1>3. /\ Tail(tasks[m]) \in Seq(Tasks) /\ Lined(Tail(tasks[m]))
      /\ Carried(Tail(tasks[m])) \subseteq Carried(tasks[m])
  BY <1>1, CarriedByTail, HeadTailProperties
<1>4. /\ msg \in Carried(tasks[m])
      /\ \A later \in Carried(Tail(tasks[m])) :
             later.id # msg.id /\ (msg.from = later.from => msg.id < later.id)
  BY <1>1, <1>2, CarriedByTail
<1>5. /\ msg.id \in 1 .. received'
      /\ \A h \in Gateways : msg.id \notin Ids(Handled(h))
      /\ \A other \in Carried(tasks[Other(m)]) : other.id # msg.id
  BY <1>4 DEF Delivery, IdsKnown, OneCopy
<1>6. Behind(Route(g), msg)
  BY <1>4 DEF Delivery, InLine
<1>7. QED
  BY <1>3, <1>4, <1>5, <1>6 DEF MayQueue

\* Queueing a message and flushing keeps the invariant.
LEMMA DeliveringKeeps ==
    ASSUME TypeOK, Delivery, NEW m \in Managers, NEW g \in Own(m), NEW msg \in Messages,
           Delivering(m, g, msg)
    PROVE  Delivery'
<1> DEFINE q == Append(info[g].queue, msg)
<1>1. /\ g \in Gateways /\ received \in Nat /\ received' \in {received, received + 1}
      /\ info[g].queue \in Seq(Messages) /\ sent[g] \in Seq(Messages) /\ Serves(g, q)
  BY GatewayOfManager DEF TypeOK, ConnectionInfo, Delivering
<1>2. PICK rest : MayQueue(m, g, msg, rest) /\ FlushLeaves(m, g, rest)
  BY ReceivedMayQueue, PostedMayQueue DEF Delivering
<1>3. q \in Seq(Messages)
  BY <1>1
<1>4. /\ Lined(tasks'[m]) /\ Carried(tasks'[m]) = Carried(rest)
      /\ \A k \in Managers \ {m} : tasks'[k] = tasks[k]
  BY <1>1, <1>2, FlushCarriesNothing DEF MayQueue
<1>5. /\ Distinct(Handled(g)) /\ Ids(Handled(g)) \subseteq 1 .. received
      /\ \A h \in Gateways \ {g} : Ids(Handled(g)) \cap Ids(Handled(h)) = {}
      /\ InOrder(sent[g] \o info[g].queue)
  BY <1>1 DEF Delivery, IdsKnown, OneCopy, InLine, Route
<1>6. Distinct(All(g, q)) /\ Ids(All(g, q)) = Ids(Handled(g)) \cup {msg.id}
  BY <1>1, <1>2, <1>5, OneMoreHandled DEF MayQueue
<1>7. /\ InOrder(sent[g] \o q)
      /\ \A later : later.from # msg.from \/ msg.id < later.id =>
             (Behind(sent[g] \o info[g].queue, later) => Behind(sent[g] \o q, later))
  <2>1. Behind(sent[g] \o info[g].queue, msg)
    BY <1>2 DEF MayQueue, Route
  <2>2. QED
    BY <1>1, <1>5, <2>1, OrderWithOneMore
<1> HIDE DEF q
<1>8. Ids(All(g, q)) \subseteq 1 .. received' /\ received' \in Nat /\ received <= received'
  <2>1. 1 .. received \subseteq 1 .. received' /\ received' \in Nat /\ received <= received'
    BY <1>1
  <2>2. msg.id \in 1 .. received'
    BY <1>2 DEF MayQueue
  <2>3. QED
    BY <1>5, <1>6, <2>1, <2>2
<1>9. \A h \in Gateways \ {g} : Ids(All(g, q)) \cap Ids(Handled(h)) = {}
  BY <1>2, <1>5, <1>6 DEF MayQueue
<1>10. ASSUME NEW k \in Managers
       PROVE  /\ Lined(tasks'[k]) /\ Carried(tasks'[k]) \subseteq Carried(tasks[k])
              /\ \A later \in Carried(tasks'[k]) :
                     /\ later.id \notin Ids(All(g, q))
                     /\ g \in Own(k) => Behind(sent[g] \o q, later)
  <2>1. Lined(tasks'[k]) /\ Carried(tasks'[k]) \subseteq Carried(tasks[k])
    BY <1>2, <1>4 DEF MayQueue, Delivery, InLine
  <2>2. \A later \in Carried(tasks'[k]) :
            /\ later.id \notin Ids(Handled(g))
            /\ g \in Own(k) => Behind(sent[g] \o info[g].queue, later)
    BY <1>1, <2>1 DEF Delivery, OneCopy, InLine, Route
  <2>3. CASE k = m
    <3>1. \A later \in Carried(tasks'[k]) :
              later.id # msg.id /\ (later.from # msg.from \/ msg.id < later.id)
      BY <1>2, <1>4, <2>3 DEF MayQueue
    <3>2. QED
      BY <1>6, <1>7, <2>1, <2>2, <3>1
  <2>4. CASE k # m
    <3>1. k = Other(m) /\ g \notin Own(k)
      BY <1>1, <2>4, RouterAssumption DEF Managers, Other, Own
    <3>2. \A later \in Carried(tasks'[k]) : later.id # msg.id
      BY <1>2, <1>4, <2>4, <3>1 DEF MayQueue
    <3>3. QED
      BY <1>6, <2>1, <2>2, <3>1, <3>2
  <2>5. QED
    BY <2>3, <2>4
<1>11. QED
  BY <1>1, <1>3, <1>6, <1>7, <1>8, <1>9, <1>10, ServingKeeps

-----------------------------------------------------------------------------
(* Every handler has one of the shapes *)

Shaped ==
    \/ Quiet
    \/ \E m \in Managers : \E msg \in Messages : Posting(m, msg)
    \/ \E m \in Managers : \E g \in Own(m) :
           Flushing(m, g) \/ \E msg \in Messages : Delivering(m, g, msg)

\* Queueing a message first leaves the queue it is appended to.
LEMMA EnqueuedQueue ==
    ASSUME TypeOK, NEW g \in Gateways, NEW msg \in Messages
    PROVE  /\ Enqueued(info[g], msg) \in ConnectionInfo
           /\ Enqueued(info[g], msg).queue = Append(info[g].queue, msg)
<1>1. info[g] \in ConnectionInfo
  BY DEF TypeOK
<1>2. Append(info[g].queue, msg) \in Seq(Messages) /\ info[g].inMessageCount + 1 \in Nat
  BY <1>1 DEF ConnectionInfo
<1>3. QED
  BY <1>1, <1>2 DEF Enqueued, ConnectionInfo

\* The link handlers and the ends of a loop move no queue.
LEMMA LinkStepShaped ==
    ASSUME IInv, NEW g \in Gateways, LinkStep(g)
    PROVE  Quiet
<1>1. TypeOK
  BY DEF IInv
<1>2. sent' = sent /\ trimmed' = trimmed /\ tasks' = tasks /\ received' = received
  BY DEF LinkStep, HandshakeFailed, Lost, Closed, RetryFires, managerVars, flushVars
<1>3. \A h \in Gateways : info'[h].queue = info[h].queue
  <2>1. CASE RetryFires(g)
    BY <2>1 DEF RetryFires, flushVars
  <2>2. CASE HandshakeFailed(g) \/ Lost(g) \/ Closed(g)
    <3>1. \E conn \in {"null", "closing"} : info' = [info EXCEPT ![g].conn = conn]
      BY <2>2 DEF HandshakeFailed, Lost, Closed
    <3>2. PICK conn \in {"null", "closing"} : info' = [info EXCEPT ![g].conn = conn]
      BY <3>1
    <3>3. QED
      BY <1>1, <3>2 DEF TypeOK, ConnectionInfo
  <2>3. QED
    BY <2>1, <2>2 DEF LinkStep
<1>4. QED
  BY <1>2, <1>3 DEF Quiet, QueuesKept

\* The start of a loop, its clock and its end move no message.
LEMMA LoopStepShaped ==
    ASSUME IInv, NEW m \in Managers, Start(m) \/ ClockTick(m) \/ Stop(m)
    PROVE  Quiet
<1>1. TypeOK
  BY DEF IInv
<1>2. /\ sent' = sent /\ trimmed' = trimmed /\ info' = info /\ received' = received
      /\ tasks' \in {tasks, [tasks EXCEPT ![m] = <<>>]}
  BY DEF Start, ClockTick, Stop, flushVars, linkVars
<1>3. \A k \in Managers : tasks'[k] \in {tasks[k], <<>>}
  BY <1>1, <1>2 DEF TypeOK
<1>4. QED
  BY <1>2, <1>3 DEF Quiet, QueuesKept

\* The open handler flushes what waited for the connection.
LEMMA OpenedShaped ==
    ASSUME IInv, NEW g \in Gateways, Opened(g)
    PROVE  Shaped
<1> DEFINE m == Manager(g)  c == [info[g] EXCEPT !.conn = "open"]
<1>1. /\ TypeOK /\ m \in Managers /\ g \in Own(m) /\ received' = received
      /\ DrainQueue(m, g, c, tasks[m])
  BY ManagerOfGateway DEF IInv, Opened, Flush
<1>2. c \in ConnectionInfo /\ c.queue = info[g].queue
  BY <1>1 DEF TypeOK, ConnectionInfo
<1> HIDE DEF m, c
<1>3. Serves(g, info[g].queue) /\ FlushLeaves(m, g, tasks[m])
  BY <1>1, <1>2, FlushServes
<1>4. QED
  BY <1>1, <1>3 DEF Shaped, Flushing

\* The message handler delivers, posts or drops.
LEMMA ReceiveShaped ==
    ASSUME IInv, NEW g \in Gateways, Receive(g)
    PROVE  Shaped
<1> DEFINE m == Manager(g)
<1>1. PICK to \in Gateways \cup {Stranger, Malformed} :
          HandleReceived(m, [id |-> received + 1, from |-> g, to |-> to])
  BY DEF Receive
<1> DEFINE msg == [id |-> received + 1, from |-> g, to |-> to]
<1>2. /\ TypeOK /\ m \in Managers /\ g \in Own(m) /\ received' = received + 1
      /\ received < MaxMessages /\ received \in Nat
  <2>1. TypeOK
    BY DEF IInv
  <2>2. m \in Managers /\ g \in Own(m)
    BY ManagerOfGateway
  <2>3. received' = received + 1 /\ received < MaxMessages
    BY DEF Receive
  <2>4. received \in Nat
    BY <2>1 DEF TypeOK
  <2>5. QED
    BY <2>1, <2>2, <2>3, <2>4
<1>3. /\ msg \in Messages /\ msg.id = received + 1 /\ msg.from \in Own(m)
  <2>1. received + 1 \in 1 .. MaxMessages
    BY <1>2, RouterAssumption
  <2>2. QED
    BY <1>2, <2>1 DEF Messages
<1>4. HandleReceived(m, msg)
  BY <1>1
<1> HIDE DEF m, msg
<1>5. CASE ~Dropped(msg) /\ msg.to \in Own(m)
  <2> DEFINE h == msg.to
  <2>1. h \in Own(m) /\ h \in Gateways /\ DrainQueue(m, h, Enqueued(info[h], msg), tasks[m])
    BY <1>2, <1>4, <1>5, GatewayOfManager DEF HandleReceived, Deliver, Flush
  <2> HIDE DEF h
  <2>2. Serves(h, Append(info[h].queue, msg)) /\ FlushLeaves(m, h, tasks[m])
    BY <1>2, <1>3, <2>1, EnqueuedQueue, FlushServes
  <2>3. Delivering(m, h, msg)
    BY <1>2, <1>3, <2>2 DEF Delivering
  <2>4. QED
    BY <1>2, <1>3, <2>1, <2>3 DEF Shaped
<1>6. CASE ~(~Dropped(msg) /\ msg.to \in Own(m))
  <2>1. /\ info' = info /\ sent' = sent /\ trimmed' = trimmed
        /\ tasks' = tasks \/ PostMessage(Other(m), msg)
    BY <1>4, <1>6 DEF HandleReceived, flushVars
  <2>2. QueuesKept
    BY <2>1 DEF QueuesKept
  <2>3. Other(m) \in Managers /\ Other(Other(m)) = m
    BY <1>2 DEF Managers, Other
  <2>4. CASE tasks' = tasks
    BY <1>2, <2>2, <2>4 DEF Shaped, Quiet
  <2>5. CASE tasks' = [tasks EXCEPT ![Other(m)] = Append(@, MessageTask(msg))]
    BY <1>2, <1>3, <2>2, <2>3, <2>5 DEF Shaped, Posting
  <2>6. QED
    BY <2>1, <2>4, <2>5 DEF PostMessage, Posted
<1>7. QED
  BY <1>5, <1>6

\* A posted handler flushes, delivers or drops.
LEMMA RunTaskShaped ==
    ASSUME IInv, NEW m \in Managers, RunTask(m)
    PROVE  Shaped
<1>1. TypeOK /\ flushTimer[m] = NoGateway /\ received' = received
  BY DEF IInv, LimiterDisarmed, RunTask
<1>2. Ready(m) = IF tasks[m] = <<>> THEN {} ELSE {Head(tasks[m])}
  BY <1>1 DEF Ready
<1>3. PICK task \in Ready(m) :
          CASE task.kind = "message" -> HandlePosted(m, task.msg)
            [] task.kind = "flush" ->
                   Flush(m, task.to, info[task.to], Tail(tasks[m])) /\ UNCHANGED crashed
            [] task.kind = "timer" -> FlushByTimer(m, task.to) /\ UNCHANGED crashed
  BY DEF RunTask
<1>4. tasks[m] # <<>> /\ task = Head(tasks[m])
  BY <1>2, <1>3
<1>5. /\ task \in Tasks
      /\ task.kind = "flush" => task.to \in Own(m)
  BY <1>4, TaskTaken
<1>6. CASE task.kind = "flush"
  <2> DEFINE g == task.to
  <2>1. g \in Own(m) /\ g \in Gateways /\ DrainQueue(m, g, info[g], Tail(tasks[m]))
    BY <1>3, <1>5, <1>6, GatewayOfManager DEF Flush
  <2> HIDE DEF g
  <2>2. info[g] \in ConnectionInfo
    BY <1>1, <2>1 DEF TypeOK
  <2>3. Serves(g, info[g].queue) /\ FlushLeaves(m, g, Tail(tasks[m]))
    BY <1>1, <2>1, <2>2, FlushServes
  <2>4. Flushing(m, g)
    BY <1>1, <1>4, <2>3 DEF Flushing
  <2>5. QED
    BY <2>1, <2>4 DEF Shaped
<1>7. CASE task.kind = "message"
  <2> DEFINE msg == task.msg
  <2>1. msg \in Messages /\ task = MessageTask(msg) /\ HandlePosted(m, msg)
    BY <1>3, <1>5, <1>7 DEF Tasks, MessageTask
  <2> HIDE DEF msg
  <2>2. CASE ~Dropped(msg) /\ msg.to \in Own(m)
    <3> DEFINE h == msg.to
    <3>1. /\ h \in Own(m) /\ h \in Gateways
          /\ DrainQueue(m, h, Enqueued(info[h], msg), Tail(tasks[m]))
      BY <2>1, <2>2, GatewayOfManager DEF HandlePosted, Deliver, Flush
    <3> HIDE DEF h
    <3>2. Serves(h, Append(info[h].queue, msg)) /\ FlushLeaves(m, h, Tail(tasks[m]))
      BY <1>1, <2>1, <3>1, EnqueuedQueue, FlushServes
    <3>3. Delivering(m, h, msg)
      BY <1>1, <1>4, <2>1, <3>2 DEF Delivering
    <3>4. QED
      BY <2>1, <3>1, <3>3 DEF Shaped
  <2>3. CASE ~(~Dropped(msg) /\ msg.to \in Own(m))
    <3>1. /\ info' = info /\ sent' = sent /\ trimmed' = trimmed
          /\ tasks' = [tasks EXCEPT ![m] = Tail(@)]
      BY <2>1, <2>3 DEF HandlePosted, NotRouted, flushVars
    <3>2. \A k \in Managers : tasks'[k] = IF k = m THEN Tail(tasks[k]) ELSE tasks[k]
      BY <1>1, <3>1 DEF TypeOK
    <3>3. QED
      BY <1>1, <1>4, <3>1, <3>2 DEF Shaped, Quiet, QueuesKept
  <2>4. QED
    BY <2>2, <2>3
<1>8. QED
  BY <1>5, <1>6, <1>7 DEF Tasks

\* Every step of the router has one of the shapes.
LEMMA NextShaped == IInv /\ [Next]_vars => Shaped
<1> SUFFICES ASSUME IInv, [Next]_vars PROVE Shaped
  OBVIOUS
<1>1. CASE UNCHANGED vars
  BY <1>1 DEF vars, managerVars, flushVars, Shaped, Quiet, QueuesKept
<1>2. CASE Finished
  BY <1>1, <1>2 DEF Finished
<1>3. ASSUME NEW g \in Gateways, GatewayStep(g) PROVE Shaped
  BY <1>3, OpenedShaped, ReceiveShaped, LinkStepShaped DEF GatewayStep, LinkStep, Shaped
<1>4. ASSUME NEW m \in Managers, ManagerStep(m) PROVE Shaped
  BY <1>4, RunTaskShaped, LoopStepShaped DEF ManagerStep, Shaped
<1>5. QED
  BY <1>1, <1>2, <1>3, <1>4 DEF Next

-----------------------------------------------------------------------------
(* The theorems *)

\* In the beginning nothing is on its way.
LEMMA InitDelivers == Init => Delivery
<1>1. SUFFICES ASSUME Init PROVE Delivery
  OBVIOUS
<1>2. /\ \A g \in Gateways : /\ sent[g] = <<>> /\ trimmed[g] = <<>>
                             /\ info[g].queue = <<>>
      /\ \A m \in Managers : tasks[m] = <<>>
  BY <1>1 DEF Init, NewInfo
<1>3. <<>> \o <<>> = <<>> /\ Len(<<>>) = 0 /\ 1 .. 0 = {}
  OBVIOUS
<1>4. \A g \in Gateways : Handled(g) = <<>> /\ Route(g) = <<>>
  BY <1>2, <1>3 DEF Handled, Route
<1>5. Ids(<<>>) = {} /\ Distinct(<<>>) /\ InOrder(<<>>)
  BY <1>3 DEF Ids, Distinct, InOrder
<1>6. Carried(<<>>) = {} /\ Lined(<<>>)
  BY <1>3 DEF Carried, Lined
<1>7. QED
  BY <1>2, <1>4, <1>5, <1>6 DEF Delivery, IdsKnown, OneCopy, InLine

\* One step keeps it, given the invariant of RouterProofs.
LEMMA NextDelivers == IInv /\ Delivery /\ [Next]_vars => Delivery'
<1> SUFFICES ASSUME IInv, Delivery, [Next]_vars PROVE Delivery'
  OBVIOUS
<1>1. TypeOK
  BY DEF IInv
<1>2. Shaped
  BY NextShaped
<1>3. CASE Quiet
  BY <1>1, <1>3, QuietKeeps
<1>4. ASSUME NEW m \in Managers, NEW msg \in Messages, Posting(m, msg) PROVE Delivery'
  BY <1>1, <1>4, PostingKeeps
<1>5. ASSUME NEW m \in Managers, NEW g \in Own(m), Flushing(m, g) PROVE Delivery'
  BY <1>1, <1>5, FlushingKeeps
<1>6. ASSUME NEW m \in Managers, NEW g \in Own(m), NEW msg \in Messages,
             Delivering(m, g, msg)
      PROVE  Delivery'
  BY <1>1, <1>6, DeliveringKeeps
<1>7. QED
  BY <1>2, <1>3, <1>4, <1>5, <1>6 DEF Shaped

\* Ids stay known, single and in line in every behaviour of the router.
THEOREM DeliveryInvariant == Spec => []Delivery
<1>1. Init /\ [][Next]_vars => []Delivery
  <2>1. Init => Delivery
    BY InitDelivers
  <2>2. IInv /\ Delivery /\ [Next]_vars => Delivery'
    BY NextDelivers
  <2>3. Init /\ [][Next]_vars => []IInv
    BY Invariance DEF Spec
  <2>4. QED
    BY <2>1, <2>2, <2>3, PTL
<1>2. QED
  BY <1>1 DEF Spec

\* No message is duplicated (AtMostOneCopy), over reconnects, send errors and
\* repeated flushes, for any number of gateways and messages.
THEOREM NothingDuplicated == Spec => []AtMostOneCopy
<1>1. Delivery => AtMostOneCopy
  <2>1. SUFFICES ASSUME Delivery PROVE AtMostOneCopy
    OBVIOUS
  <2>2. \A m \in Managers : InTransit(m) = Carried(tasks[m])
    BY DEF InTransit, Posts, Carried
  <2>3. \A m \in Managers : Other(m) \in Managers
    BY DEF Managers, Other
  <2>4. ASSUME NEW m \in Managers, NEW i \in Posts(m), NEW j \in Posts(m),
               tasks[m][i].msg.id = tasks[m][j].msg.id
        PROVE  i = j
    <3>1. /\ i \in 1 .. Len(tasks[m]) /\ j \in 1 .. Len(tasks[m])
          /\ tasks[m][i].kind = "message" /\ tasks[m][j].kind = "message"
      BY DEF Posts
    <3>2. Lined(tasks[m])
      BY <2>1 DEF Delivery, InLine
    <3>3. ~(i < j) /\ ~(j < i)
      BY <2>4, <3>1, <3>2 DEF Lined
    <3>4. QED
      BY <3>1, <3>3
  <2>5. QED
    BY <2>1, <2>2, <2>3, <2>4 DEF AtMostOneCopy, Delivery, OneCopy
<1>2. QED
  BY <1>1, DeliveryInvariant, PTL

\* The messages of a source stay in order on the way to a gateway (SourceOrderKept).
THEOREM OrderPreserved == Spec => []SourceOrderKept
<1>1. Delivery => SourceOrderKept
  <2>1. SUFFICES ASSUME Delivery PROVE SourceOrderKept
    OBVIOUS
  <2>2. \A m \in Managers : InTransit(m) = Carried(tasks[m])
    BY DEF InTransit, Posts, Carried
  <2>3. ASSUME NEW m \in Managers, NEW i \in Posts(m), NEW j \in Posts(m), i < j,
               tasks[m][i].msg.from = tasks[m][j].msg.from
        PROVE  tasks[m][i].msg.id < tasks[m][j].msg.id
    BY <2>1, <2>3 DEF Posts, Delivery, InLine, Lined
  <2>4. ASSUME NEW m \in Managers, NEW msg \in InTransit(m), NEW g \in Own(m)
        PROVE  \A i \in 1 .. Len(Route(g)) :
                   Route(g)[i].from = msg.from => Route(g)[i].id < msg.id
    BY <2>1, <2>2 DEF Delivery, InLine, Behind
  <2>5. QED
    BY <2>1, <2>3, <2>4 DEF SourceOrderKept, Delivery, InLine
<1>2. QED
  BY <1>1, DeliveryInvariant, PTL

\* A flush is a step of the lossy queue, with the message it queued as arrival.
LEMMA ServesRefines ==
    ASSUME TypeOK, NEW g \in Gateways, NEW arrived \in GatewayQueues!Arrivals,
           Serves(g, info[g].queue \o arrived)
    PROVE  GatewayQueues!Next
<1> DEFINE all == info[g].queue \o arrived
           queue == [h \in Gateways |-> info[h].queue]
<1>1. queue[g] = info[g].queue
  OBVIOUS
<1>2. PICK d \in 0 .. Len(all) : \E n \in 0 .. Len(all) - d :
          /\ d = 0 \/ Len(all) - d = QueueLimit[Manager(g)] - 1
          /\ Len(all) - d < QueueLimit[Manager(g)]
          /\ trimmed' = [trimmed EXCEPT ![g] = @ \o Prefix(all, d)]
          /\ sent' = [sent EXCEPT ![g] = @ \o SubSeq(all, d + 1, d + n)]
          /\ info'[g].queue = SubSeq(all, d + n + 1, Len(all))
          /\ info' \in [Gateways -> ConnectionInfo]
          /\ \A h \in Gateways \ {g} : info'[h].queue = info[h].queue
  BY DEF Serves
<1>3. PICK n \in 0 .. Len(all) - d :
          /\ d = 0 \/ Len(all) - d = QueueLimit[Manager(g)] - 1
          /\ Len(all) - d < QueueLimit[Manager(g)]
          /\ trimmed' = [trimmed EXCEPT ![g] = @ \o Prefix(all, d)]
          /\ sent' = [sent EXCEPT ![g] = @ \o SubSeq(all, d + 1, d + n)]
          /\ info'[g].queue = SubSeq(all, d + n + 1, Len(all))
          /\ \A h \in Gateways \ {g} : info'[h].queue = info[h].queue
  BY <1>2
<1>4. queue' = [queue EXCEPT ![g] = SubSeq(all, d + n + 1, Len(all))]
  BY <1>3
<1>5. GatewayQueues!Serve(g, arrived)
  BY <1>1, <1>3, <1>4 DEF GatewayQueues!Serve, Prefix
<1>6. QED
  BY <1>5 DEF GatewayQueues!Next

\* A step of the router is a step of the lossy queue or leaves it alone.
LEMMA StepRefines ==
    IInv /\ [Next]_vars =>
        [GatewayQueues!Next]_<<[g \in Gateways |-> info[g].queue], sent, trimmed>>
<1> SUFFICES ASSUME IInv, Shaped
             PROVE  [GatewayQueues!Next]_<<[g \in Gateways |-> info[g].queue], sent, trimmed>>
  BY NextShaped
<1>1. TypeOK
  BY DEF IInv
<1>2. CASE QueuesKept
  BY <1>2 DEF QueuesKept
<1>3. ASSUME NEW m \in Managers, NEW g \in Own(m), Flushing(m, g)
      PROVE  GatewayQueues!Next
  <2>1. g \in Gateways /\ Serves(g, info[g].queue) /\ info[g].queue \in Seq(Messages)
    BY <1>1, <1>3, GatewayOfManager DEF Flushing, TypeOK, ConnectionInfo
  <2>2. info[g].queue \o <<>> = info[g].queue
    BY <2>1, ConcatEmptySeq
  <2>3. <<>> \in GatewayQueues!Arrivals
    BY DEF GatewayQueues!Arrivals
  <2>4. QED
    BY <1>1, <2>1, <2>2, <2>3, ServesRefines
<1>4. ASSUME NEW m \in Managers, NEW g \in Own(m), NEW msg \in Messages,
             Delivering(m, g, msg)
      PROVE  GatewayQueues!Next
  <2>1. /\ g \in Gateways /\ Serves(g, Append(info[g].queue, msg))
        /\ info[g].queue \in Seq(Messages)
    BY <1>1, <1>4, GatewayOfManager DEF Delivering, TypeOK, ConnectionInfo
  <2>2. info[g].queue \o <<msg>> = Append(info[g].queue, msg)
    BY <2>1, AppendIsConcat
  <2>3. <<msg>> \in GatewayQueues!Arrivals
    BY DEF GatewayQueues!Arrivals
  <2>4. QED
    BY <1>1, <2>1, <2>2, <2>3, ServesRefines
<1>5. QED
  BY <1>2, <1>3, <1>4 DEF Shaped, Quiet, Posting

\* Towards its gateways the router implements the lossy queue (ImplementsLossyQueue):
\* what a connection is sent is what arrived, in order, without what was trimmed.
THEOREM RouterImplementsLossyQueue == Spec => ImplementsLossyQueue
<1>1. Init => GatewayQueues!Init
  BY DEF Init, NewInfo, GatewayQueues!Init
<1>2. IInv /\ [Next]_vars =>
          [GatewayQueues!Next]_<<[g \in Gateways |-> info[g].queue], sent, trimmed>>
  BY StepRefines
<1>3. Spec => []IInv
  BY Invariance
<1>4. QED
  BY <1>1, <1>2, <1>3, PTL DEF Spec, ImplementsLossyQueue, GatewayQueues!Spec
=============================================================================
