------------------------- MODULE FastSwapQueueProofs -------------------------
(***************************************************************************)
(* Safety of FastSwapQueue for any number of producers, consumers, posts   *)
(* and pooled vectors, for a queue made for one consumer and for many.     *)
(***************************************************************************)
EXTENDS FastSwapQueue, SequenceTheorems, FiniteSetTheorems, TLAPS

-----------------------------------------------------------------------------
(* The inductive invariant *)

NoRepeat(s) == \A i, j \in 1 .. Len(s) : s[i] = s[j] => i = j
Pooled(v) == \E i \in 1 .. Len(pools) : pools[i] = v

\* A consumer holds a vector from its take to the end of consumeTasks, and a queue
\* made for one consumer has one.
HeldWhileBusy ==
    /\ \A c \in Consumers : held[c] = NoVector <=> cpc[c] \in {"idle", "take"}
    /\ \A c \in Consumers : ~multiConsumer =>
           cpc[c] # "recycle" /\ (c # Solo => cpc[c] = "idle")

\* No vector has two owners: slots, pool and consumers.  A single consumer holds the
\* slot that is not current.
Apart ==
    /\ slots[0] # slots[1]
    /\ NoRepeat(pools) /\ ~Pooled(slots[0]) /\ ~Pooled(slots[1])
    /\ \A c \in Consumers : held[c] # NoVector =>
           /\ ~Pooled(held[c])
           /\ \A d \in Consumers \ {c} : held[d] # held[c]
           /\ multiConsumer => held[c] # slots[0] /\ held[c] # slots[1]
           /\ ~multiConsumer => held[c] = slots[1 - index]

\* Tasks are in the current vector and in those being run or about to be cleared.
Busy(c, v) == held[c] = v /\ cpc[c] \in {"run", "clear"}
EmptyElsewhere ==
    \A v \in Vectors : content[v] # <<>> =>
        v = slots[index] \/ \E c \in Consumers : Busy(c, v)

\* A set flag was set by a post whose call is to come, or was made and is owed.
FlagMeansCall == flag => (\E p \in Producers : ppc[p] = "call") \/ owed > 0

\* A consumer is at a position of its vector, at the end before it clears it.
Positions ==
    \A c \in Consumers :
        /\ cpc[c] \in {"idle", "take", "recycle"} => next[c] = 1
        /\ cpc[c] = "run" => next[c] <= Len(content[held[c]]) + 1
        /\ cpc[c] = "clear" => next[c] = Len(content[held[c]]) + 1

\* Tasks come from posts that were made;
PostedBy(t, count) == t[2] <= count[t[1]]
AllPosted ==
    /\ \A k \in 1 .. Len(executed) : PostedBy(executed[k], posts)
    /\ \A v \in Vectors : \A i \in 1 .. Len(content[v]) : PostedBy(content[v][i], posts)

\* each is in one place of one vector,
OncePending ==
    \A v, w \in Vectors : \A i \in 1 .. Len(content[v]), j \in 1 .. Len(content[w]) :
        content[v][i] = content[w][j] => v = w /\ i = j

\* and if it has run, behind the position of the vector's consumer.
RunOnesBehind ==
    \A v \in Vectors : \A i \in 1 .. Len(content[v]) : \A k \in 1 .. Len(executed) :
        executed[k] = content[v][i] => \E c \in Consumers : Busy(c, v) /\ i < next[c]

OnceRun == NoRepeat(executed)

\* One consumer: what was appended has run, is left in its vector, or is current.
Rest(c) == IF held[c] = NoVector THEN <<>>
           ELSE SubSeq(content[held[c]], next[c], Len(content[held[c]]))
SoloInOrder ==
    ~multiConsumer => appended = (executed \o Rest(Solo)) \o content[slots[index]]

Places == AllPosted /\ OncePending /\ RunOnesBehind /\ OnceRun

IInv == TypeOK /\ HeldWhileBusy /\ Apart /\ EmptyElsewhere /\ FlagMeansCall /\ NoLostWakeup
            /\ Positions /\ Places /\ SoloInOrder

-----------------------------------------------------------------------------
(* The vectors *)

\* The two slots are vectors of their own, and NoVector is none.
LEMMA SlotVectors ==
    ASSUME TypeOK
    PROVE  /\ slots[0] \in Vectors /\ slots[1] \in Vectors /\ NoVector \notin Vectors
           /\ slots[index] \in Vectors /\ index \in 0 .. 1 /\ 1 - index \in 0 .. 1
           /\ content[slots[index]] \in Seq(Tasks)
<1>1. index \in 0 .. 1 /\ slots \in [0 .. 1 -> Vectors] /\ content \in [Vectors -> Seq(Tasks)]
  BY DEF TypeOK
<1>2. Cardinality(Consumers) + PoolLimit \in Nat
  BY FS_CardinalityType, QueueAssumption
<1>3. NoVector \notin Vectors
  BY <1>2 DEF NoVector, Vectors
<1>4. QED
  BY <1>1, <1>3

\* A consumer's vector is never the one producers append to.
LEMMA HeldIsNotCurrent ==
    ASSUME TypeOK, Apart, NEW c \in Consumers, held[c] # NoVector
    PROVE  held[c] # slots[index] /\ held[c] \in Vectors
<1>1. index \in 0 .. 1 /\ slots[0] # slots[1]
  BY DEF TypeOK, Apart
<1>2. CASE multiConsumer
  BY <1>1, <1>2 DEF Apart, TypeOK
<1>3. CASE ~multiConsumer
  <2>1. held[c] = slots[1 - index]
    BY <1>3 DEF Apart
  <2>2. CASE index = 0
    BY <1>1, <2>1, <2>2 DEF TypeOK
  <2>3. CASE index = 1
    BY <1>1, <2>1, <2>3 DEF TypeOK
  <2>4. QED
    BY <1>1, <2>2, <2>3
<1>4. QED
  BY <1>2, <1>3 DEF TypeOK

\* With an empty pool there is a vector in nobody's use.
LEMMA NewVectorIsNew ==
    ASSUME TypeOK, pools = <<>>
    PROVE  NewVector \in Vectors /\ NewVector \notin InUse
<1> DEFINE n == Cardinality(Consumers)
           holds == {held[c] : c \in Consumers}
           both == {slots[0], slots[1]}
<1>1. IsFiniteSet(Consumers) /\ n \in Nat /\ PoolLimit \in Nat
  BY FS_CardinalityType, QueueAssumption
<1>2. IsFiniteSet(holds) /\ Cardinality(holds) <= n /\ Cardinality(holds) \in Nat
  <2>1. held \in Surjection(Consumers, holds)
    BY DEF TypeOK, Surjection
  <2> HIDE DEF holds
  <2>2. IsFiniteSet(holds) /\ Cardinality(holds) <= n
    BY <1>1, <2>1, FS_Surjection
  <2>3. QED
    BY <2>2, FS_CardinalityType
<1>3. IsFiniteSet(both) /\ Cardinality(both) \in Nat /\ Cardinality(both) <= 2
  <2>1. IsFiniteSet({slots[0]}) /\ Cardinality({slots[0]}) = 1
    BY FS_Singleton
  <2>2. both = {slots[0]} \cup {slots[1]}
    OBVIOUS
  <2>3. QED
    BY <2>1, <2>2, FS_AddElement
<1>4. InUse = both \cup holds
  BY DEF InUse, ToSet
<1> HIDE DEF both, holds, n
<1>5. IsFiniteSet(InUse) /\ Cardinality(InUse) <= n + 2 /\ Cardinality(InUse) \in Nat
  <2>1. /\ IsFiniteSet(both \cup holds)
        /\ Cardinality(both \cup holds)
              = Cardinality(both) + Cardinality(holds) - Cardinality(both \cap holds)
    BY <1>2, <1>3, FS_Union
  <2>2. IsFiniteSet(both \cap holds)
    BY <1>3, FS_Subset
  <2>3. Cardinality(both \cap holds) \in Nat
    BY <2>2, FS_CardinalityType
  <2> DEFINE a == Cardinality(both)  b == Cardinality(holds)
             x == Cardinality(both \cap holds)  u == Cardinality(both \cup holds)
  <2>4. /\ a \in Nat /\ b \in Nat /\ x \in Nat /\ n \in Nat
        /\ a <= 2 /\ b <= n /\ u = a + b - x
    BY <1>1, <1>2, <1>3, <2>1, <2>3
  <2> HIDE DEF a, b, x, u
  <2>5. u <= n + 2
    BY <2>4
  <2>6. QED
    BY <1>4, <2>1, <2>5, FS_CardinalityType DEF u
<1>6. IsFiniteSet(Vectors) /\ Cardinality(Vectors) = n + PoolLimit + 3
  <2>1. 0 \in Int /\ n + PoolLimit + 2 \in Int /\ ~(0 > n + PoolLimit + 2)
    BY <1>1
  <2>2. Vectors = 0 .. n + PoolLimit + 2
    BY DEF Vectors, n
  <2>3. /\ IsFiniteSet(Vectors)
        /\ Cardinality(Vectors) = (n + PoolLimit + 2) - 0 + 1
    BY <2>1, <2>2, FS_Interval
  <2>4. QED
    BY <1>1, <2>3
<1>7. \E v \in Vectors : v \notin InUse
  <2>1. SUFFICES ASSUME Vectors \subseteq InUse PROVE FALSE
    OBVIOUS
  <2>2. Cardinality(Vectors) <= Cardinality(InUse)
    BY <1>5, <2>1, FS_Subset
  <2>3. QED
    BY <1>1, <1>5, <1>6, <2>2
<1>8. QED
  BY <1>7 DEF NewVector

\* What is left of a consumer's vector is a sequence of tasks.
LEMMA RestOfTasks ==
    ASSUME TypeOK, NEW c \in Consumers
    PROVE  Rest(c) \in Seq(Tasks)
<1>1. CASE held[c] = NoVector
  BY <1>1, EmptySeq DEF Rest
<1>2. CASE held[c] # NoVector
  <2> DEFINE s == content[held[c]]
  <2>1. s \in Seq(Tasks) /\ next[c] \in Int
    BY <1>2 DEF TypeOK
  <2> HIDE DEF s
  <2>2. Len(s) \in Nat
    BY <2>1, LenProperties
  <2>3. \A i \in next[c] .. Len(s) : s[i] \in Tasks
    <3>1. SUFFICES ASSUME NEW i \in next[c] .. Len(s) PROVE s[i] \in Tasks
      OBVIOUS
    <3>2. next[c] \in Nat \ {0}
      BY DEF TypeOK
    <3>3. i \in 1 .. Len(s)
      BY <2>2, <3>2
    <3>4. QED
      BY <2>1, <3>3, ElementOfSeq
  <2>4. Len(s) \in Int
    BY <2>2
  <2>5. SubSeq(s, next[c], Len(s)) \in Seq(Tasks)
    BY <2>1, <2>3, <2>4, SubSeqProperties
  <2>6. QED
    BY <1>2, <2>5 DEF Rest, s
<1>3. QED
  BY <1>1, <1>2

\* A task appended to the second of two sequences is appended to the whole.
LEMMA AppendToBoth ==
    ASSUME NEW r \in Seq(Tasks), NEW s \in Seq(Tasks), NEW t \in Tasks
    PROVE  r \o Append(s, t) = Append(r \o s, t)
<1>1. <<t>> \in Seq(Tasks) /\ r \o s \in Seq(Tasks)
  BY ConcatProperties
<1>2. (r \o s) \o <<t>> = r \o (s \o <<t>>)
  BY <1>1, ConcatAssociative
<1>3. Append(s, t) = s \o <<t>> /\ Append(r \o s, t) = (r \o s) \o <<t>>
  BY <1>1, AppendIsConcat
<1>4. QED
  BY <1>2, <1>3

\* The first task of a suffix moves to the end of what comes before it.
LEMMA MoveFirst ==
    ASSUME NEW e \in Seq(Tasks), NEW s \in Seq(Tasks), NEW n \in 1 .. Len(s)
    PROVE  Append(e, s[n]) \o SubSeq(s, n + 1, Len(s)) = e \o SubSeq(s, n, Len(s))
<1> DEFINE rest == SubSeq(s, n + 1, Len(s))
<1>1. s[n] \in Tasks
  BY ElementOfSeq
<1>2. Len(s) \in Nat /\ n \in Nat /\ n >= 1 /\ n + 1 \in Int /\ Len(s) \in Int
  BY LenProperties
<1>3. rest \in Seq(Tasks)
  <2>1. \A i \in n + 1 .. Len(s) : s[i] \in Tasks
    <3>1. \A i \in n + 1 .. Len(s) : i \in 1 .. Len(s)
      BY <1>2
    <3>2. QED
      BY <3>1, ElementOfSeq
  <2>2. QED
    BY <1>2, <2>1, SubSeqProperties
<1>4. SubSeq(s, n, Len(s)) = <<s[n]>> \o rest
  <2>1. Len(s) \in n .. Len(s)
    BY <1>2
  <2>2. QED
    BY <2>1, SubSeqRecursiveFirst
<1> HIDE DEF rest
<1>5. Append(e, s[n]) = e \o <<s[n]>> /\ <<s[n]>> \in Seq(Tasks)
  BY <1>1, AppendIsConcat
<1>6. (e \o <<s[n]>>) \o rest = e \o (<<s[n]>> \o rest)
  BY <1>3, <1>5, ConcatAssociative
<1>7. QED
  BY <1>4, <1>5, <1>6 DEF rest

\* In the beginning both slots are empty vectors and nobody consumes.
LEMMA InitKeeps == Init => IInv
<1> SUFFICES ASSUME Init PROVE IInv
  OBVIOUS
<1>1. Cardinality(Consumers) + PoolLimit \in Nat
  BY FS_CardinalityType, QueueAssumption
<1>2. <<>> \in Seq(Tasks) /\ <<>> \in Seq(Vectors) /\ Len(<<>>) = 0
  BY EmptySeq
<1>3. /\ slots[0] = 0 /\ slots[1] = 1 /\ slots \in [0 .. 1 -> Vectors] /\ index = 0
      /\ \A v \in Vectors : content[v] = <<>>
      /\ \A c \in Consumers : held[c] = NoVector /\ cpc[c] = "idle" /\ next[c] = 1
  BY <1>1 DEF Init, Vectors
<1>4. slots[index] \in Vectors
  BY <1>3
<1>5. TypeOK
  <2>1. multiConsumer \in BOOLEAN /\ flag \in BOOLEAN
    BY Zenon DEF Init
  <2>2. index \in 0 .. 1 /\ owed \in Nat
    BY <1>3 DEF Init
  <2>3. pools \in Seq(Vectors) /\ Len(pools) <= PoolLimit
    BY <1>2, QueueAssumption DEF Init
  <2>4. appended \in Seq(Tasks) /\ executed \in Seq(Tasks)
    BY <1>2 DEF Init
  <2>5. content \in [Vectors -> Seq(Tasks)]
    BY <1>2 DEF Init
  <2>6. ppc \in [Producers -> {"idle", "signal", "call"}] /\ posts \in [Producers -> 0 .. MaxPosts]
    BY QueueAssumption DEF Init
  <2>7. /\ cpc \in [Consumers -> {"idle", "take", "run", "clear", "recycle"}]
        /\ held \in [Consumers -> Vectors \cup {NoVector}]
        /\ next \in [Consumers -> Nat \ {0}]
    BY DEF Init
  <2>8. QED
    BY <1>3, <2>1, <2>5, <2>6, <2>7, <2>3, <2>4, <2>2 DEF TypeOK
<1>6. HeldWhileBusy
  BY <1>3 DEF HeldWhileBusy
<1>7. Apart
  BY <1>2, <1>3 DEF Init, Apart, NoRepeat, Pooled
<1>8. EmptyElsewhere /\ FlagMeansCall /\ NoLostWakeup
  BY <1>3, <1>4 DEF Init, EmptyElsewhere, FlagMeansCall, NoLostWakeup
<1>9. Positions
  BY <1>3 DEF Positions
<1>10. Places
  BY <1>2, <1>3 DEF Init, Places, AllPosted, OncePending, RunOnesBehind, OnceRun, NoRepeat
<1>11. SoloInOrder
  <2>1. Rest(Solo) = <<>> /\ content[slots[index]] = <<>> /\ executed = <<>> /\ appended = <<>>
    BY <1>3, <1>4, QueueAssumption DEF Rest, Init
  <2>2. <<>> \o <<>> = <<>>
    BY <1>2, ConcatEmptySeq
  <2>3. QED
    BY <2>1, <2>2 DEF SoloInOrder
<1>12. QED
  BY <1>5, <1>6, <1>7, <1>8, <1>9, <1>10, <1>11 DEF IInv

-----------------------------------------------------------------------------
(* post *)

\* A step that moves no task, and from which no vector being run is let go of, keeps
\* every task in its place.
LEMMA PlacesStay ==
    ASSUME Places, content' = content, executed' = executed, posts' = posts, next' = next,
           \A c \in Consumers, v \in Vectors : Busy(c, v) => Busy(c, v)'
    PROVE  Places'
<1>1. AllPosted' /\ OnceRun'
  BY DEF Places, AllPosted, OnceRun, NoRepeat
<1>2. OncePending'
  BY DEF Places, OncePending
<1>3. RunOnesBehind'
  BY DEF Places, RunOnesBehind
<1>4. QED
  BY <1>1, <1>2, <1>3 DEF Places

\* The steps that signal and call move no task: a signal found set was set by a post
\* whose call still counts.
LEMMA SignalKeeps ==
    ASSUME IInv, NEW p \in Producers, PostSignal(p) \/ PostCall(p)
    PROVE  IInv'
<1>1. /\ TypeOK /\ HeldWhileBusy /\ Apart /\ EmptyElsewhere /\ FlagMeansCall /\ NoLostWakeup
      /\ Positions /\ Places /\ SoloInOrder
  BY DEF IInv
<1>2. /\ multiConsumer' = multiConsumer /\ slots' = slots /\ index' = index
      /\ content' = content /\ pools' = pools /\ posts' = posts /\ appended' = appended
      /\ cpc' = cpc /\ held' = held /\ next' = next /\ executed' = executed
  BY DEF PostSignal, PostCall, bufferVars, consumerVars
<1>3. TypeOK'
  <2>1. CASE PostSignal(p)
    BY <1>1, <1>2, <2>1 DEF PostSignal, TypeOK
  <2>2. CASE PostCall(p)
    BY <1>1, <1>2, <2>2 DEF PostCall, TypeOK
  <2>3. QED
    BY <2>1, <2>2
<1>4. HeldWhileBusy' /\ EmptyElsewhere' /\ Positions'
  BY <1>1, <1>2 DEF HeldWhileBusy, EmptyElsewhere, Positions, Busy
<1>5. Apart'
  BY <1>1, <1>2 DEF Apart, NoRepeat, Pooled
<1>6. Places' /\ SoloInOrder'
  <2>1. Places'
    BY <1>1, <1>2, PlacesStay DEF Busy
  <2>2. Rest(Solo)' = Rest(Solo)
    BY <1>2 DEF Rest
  <2>3. QED
    BY <1>1, <1>2, <2>1, <2>2 DEF SoloInOrder
<1>7. FlagMeansCall' /\ NoLostWakeup'
  <2>1. CASE PostSignal(p)
    <3>1. /\ owed' = owed /\ ppc[p] = "signal"
          /\ ppc' = [ppc EXCEPT ![p] = IF flag THEN "idle" ELSE "call"]
      BY <2>1 DEF PostSignal
    <3>2. (\E q \in Producers : ppc'[q] = "call") \/ owed > 0
      BY <1>1, <3>1 DEF FlagMeansCall, TypeOK
    <3>3. QED
      BY <1>2, <3>1, <3>2 DEF FlagMeansCall, NoLostWakeup
  <2>2. CASE PostCall(p)
    <3>1. owed' > 0
      BY <1>1, <2>2 DEF PostCall, TypeOK
    <3>2. QED
      BY <3>1 DEF FlagMeansCall, NoLostWakeup
  <2>3. QED
    BY <2>1, <2>2
<1>8. QED
  BY <1>3, <1>4, <1>5, <1>6, <1>7 DEF IInv

\* post appends a task that is nowhere yet to the current vector.
LEMMA AppendKeeps ==
    ASSUME IInv, NEW p \in Producers, PostAppend(p)
    PROVE  IInv'
<1> DEFINE cur == slots[index]
           t == <<p, posts[p] + 1>>
<1>1. /\ TypeOK /\ HeldWhileBusy /\ Apart /\ EmptyElsewhere /\ FlagMeansCall /\ NoLostWakeup
      /\ Positions /\ Places /\ SoloInOrder
  BY DEF IInv
<1>2. /\ multiConsumer' = multiConsumer /\ slots' = slots /\ index' = index
      /\ pools' = pools /\ flag' = flag /\ owed' = owed
      /\ cpc' = cpc /\ held' = held /\ next' = next /\ executed' = executed
      /\ ppc[p] = "idle" /\ posts[p] < MaxPosts
      /\ posts' = [posts EXCEPT ![p] = @ + 1]
      /\ content' = [content EXCEPT ![cur] = Append(@, t)]
      /\ appended' = Append(appended, t) /\ ppc' = [ppc EXCEPT ![p] = "signal"]
  BY DEF PostAppend, consumerVars
<1>3. posts[p] \in 0 .. MaxPosts /\ MaxPosts \in Nat
  BY <1>1, QueueAssumption DEF TypeOK
<1>4. posts[p] + 1 \in 1 .. MaxPosts
  BY <1>2, <1>3
<1>5. t \in Tasks /\ t[1] = p /\ t[2] = posts[p] + 1
  BY <1>4 DEF Tasks
<1>6. cur \in Vectors /\ content[cur] \in Seq(Tasks)
  BY <1>1, SlotVectors
<1> HIDE DEF t, cur
<1>7. /\ content' \in [Vectors -> Seq(Tasks)] /\ content'[cur] = Append(content[cur], t)
      /\ \A v \in Vectors \ {cur} : content'[v] = content[v]
  BY <1>1, <1>2, <1>5, <1>6 DEF TypeOK
<1>8. /\ Len(content[cur]) \in Nat /\ Len(content'[cur]) = Len(content[cur]) + 1
      /\ content'[cur][Len(content[cur]) + 1] = t
      /\ \A i \in 1 .. Len(content[cur]) : content'[cur][i] = content[cur][i]
  BY <1>5, <1>6, <1>7, AppendProperties, LenProperties
<1>9. posts' \in [Producers -> 0 .. MaxPosts] /\ posts'[p] = posts[p] + 1
      /\ \A q \in Producers : posts[q] \in Nat /\ posts[q] <= posts'[q]
  BY <1>1, <1>2, <1>3, <1>4 DEF TypeOK
<1>10. TypeOK'
  <2>1. appended' \in Seq(Tasks)
    BY <1>1, <1>2, <1>5 DEF TypeOK
  <2>2. ppc' \in [Producers -> {"idle", "signal", "call"}]
    BY <1>1, <1>2 DEF TypeOK
  <2>3. QED
    BY <1>1, <1>2, <1>7, <1>9, <2>1, <2>2 DEF TypeOK
<1>11. HeldWhileBusy' /\ Apart'
  BY <1>1, <1>2 DEF HeldWhileBusy, Apart, NoRepeat, Pooled
<1>12. EmptyElsewhere'
  BY <1>1, <1>2, <1>7 DEF EmptyElsewhere, Busy, cur
<1>13. NoLostWakeup'
  BY <1>1, <1>2 DEF NoLostWakeup, TypeOK
<1>14. FlagMeansCall'
  BY <1>1, <1>2 DEF FlagMeansCall, TypeOK
<1>15. \A c \in Consumers : held[c] # NoVector => content'[held[c]] = content[held[c]]
  BY <1>1, <1>7, HeldIsNotCurrent DEF cur
<1>16. Positions'
  <2>1. SUFFICES ASSUME NEW c \in Consumers
                 PROVE  /\ cpc[c] \in {"idle", "take", "recycle"} => next[c] = 1
                        /\ cpc[c] = "run" => next[c] <= Len(content'[held[c]]) + 1
                        /\ cpc[c] = "clear" => next[c] = Len(content'[held[c]]) + 1
    BY <1>2 DEF Positions
  <2>2. cpc[c] \in {"run", "clear"} => content'[held[c]] = content[held[c]]
    BY <1>1, <1>15 DEF HeldWhileBusy
  <2>3. QED
    BY <1>1, <2>2 DEF Positions
<1>17. AllPosted'
  <2>1. \A u \in Tasks : PostedBy(u, posts) => PostedBy(u, posts')
    <3>1. SUFFICES ASSUME NEW u \in Tasks, PostedBy(u, posts) PROVE PostedBy(u, posts')
      OBVIOUS
    <3>2. u[1] \in Producers /\ u[2] \in Nat
      BY DEF Tasks
    <3>3. posts[u[1]] <= posts'[u[1]] /\ posts[u[1]] \in Nat /\ posts'[u[1]] \in Nat
      BY <1>9, <3>2
    <3>4. QED
      BY <3>1, <3>2, <3>3 DEF PostedBy
  <2>2. PostedBy(t, posts')
    <3>1. t[2] = posts'[t[1]] /\ t[2] \in Nat
      BY <1>3, <1>5, <1>9
    <3>2. QED
      BY <3>1 DEF PostedBy
  <2>3. \A k \in 1 .. Len(executed) : executed[k] \in Tasks
    BY <1>1, ElementOfSeq DEF TypeOK
  <2>4. \A v \in Vectors : \A i \in 1 .. Len(content[v]) : content[v][i] \in Tasks
    <3>1. SUFFICES ASSUME NEW v \in Vectors, NEW i \in 1 .. Len(content[v])
                   PROVE  content[v][i] \in Tasks
      OBVIOUS
    <3>2. content[v] \in Seq(Tasks)
      BY <1>1 DEF TypeOK
    <3>3. QED
      BY <3>2, ElementOfSeq
  <2>5. \A k \in 1 .. Len(executed') : PostedBy(executed'[k], posts')
    BY <1>1, <1>2, <2>1, <2>3 DEF Places, AllPosted
  <2>6. ASSUME NEW v \in Vectors, NEW i \in 1 .. Len(content'[v])
        PROVE  PostedBy(content'[v][i], posts')
    <3>1. CASE v = cur /\ i = Len(content[cur]) + 1
      BY <1>8, <2>2, <3>1
    <3>2. CASE ~(v = cur /\ i = Len(content[cur]) + 1)
      <4>1. i \in 1 .. Len(content[v]) /\ content'[v][i] = content[v][i]
        BY <1>7, <1>8, <2>6, <3>2
      <4>2. QED
        BY <1>1, <2>1, <2>4, <4>1 DEF Places, AllPosted
    <3>3. QED
      BY <3>1, <3>2
  <2>7. QED
    BY <2>5, <2>6 DEF AllPosted
<1>18. \A v \in Vectors : \A i \in 1 .. Len(content'[v]) :
           \/ i \in 1 .. Len(content[v]) /\ content'[v][i] = content[v][i]
           \/ v = cur /\ i = Len(content[cur]) + 1 /\ content'[v][i] = t
  BY <1>7, <1>8
<1>19. ~PostedBy(t, posts)
  BY <1>3, <1>5 DEF PostedBy
<1>20. /\ \A v \in Vectors : \A i \in 1 .. Len(content[v]) : content[v][i] # t
       /\ \A k \in 1 .. Len(executed) : executed[k] # t
  BY <1>1, <1>19 DEF Places, AllPosted
<1>21. OncePending'
  <2>1. SUFFICES ASSUME NEW v \in Vectors, NEW w \in Vectors,
                        NEW i \in 1 .. Len(content'[v]), NEW j \in 1 .. Len(content'[w]),
                        content'[v][i] = content'[w][j]
                 PROVE  v = w /\ i = j
    BY DEF OncePending
  <2>2. /\ \/ i \in 1 .. Len(content[v]) /\ content'[v][i] = content[v][i]
           \/ v = cur /\ i = Len(content[cur]) + 1 /\ content'[v][i] = t
        /\ \/ j \in 1 .. Len(content[w]) /\ content'[w][j] = content[w][j]
           \/ w = cur /\ j = Len(content[cur]) + 1 /\ content'[w][j] = t
    BY <1>18
  <2>3. QED
    BY <1>1, <1>20, <2>1, <2>2 DEF Places, OncePending
<1>22. RunOnesBehind' /\ OnceRun'
  BY <1>1, <1>2, <1>18, <1>20 DEF Places, RunOnesBehind, OnceRun, Busy
<1>23. SoloInOrder'
  <2>1. SUFFICES ASSUME ~multiConsumer
                 PROVE  appended' = ((executed \o Rest(Solo)) \o content[cur])'
    BY <1>2 DEF SoloInOrder, cur
  <2>2. Rest(Solo)' = Rest(Solo)
    <3>1. CASE held[Solo] = NoVector
      BY <1>2, <3>1 DEF Rest
    <3>2. CASE held[Solo] # NoVector
      <4>1. content'[held[Solo]] = content[held[Solo]]
        BY <1>15, <3>2, QueueAssumption
      <4>2. held'[Solo] = held[Solo] /\ next'[Solo] = next[Solo]
        BY <1>2
      <4>3. QED
        BY <3>2, <4>1, <4>2 DEF Rest
    <3>3. QED
      BY <3>1, <3>2
  <2>3. Rest(Solo) \in Seq(Tasks) /\ executed \in Seq(Tasks)
    BY <1>1, RestOfTasks, QueueAssumption DEF TypeOK
  <2>4. appended = (executed \o Rest(Solo)) \o content[cur]
    BY <1>1, <2>1 DEF SoloInOrder, cur
  <2>5. executed \o Rest(Solo) \in Seq(Tasks)
    BY <2>3, ConcatProperties
  <2>6. (executed \o Rest(Solo)) \o Append(content[cur], t)
          = Append((executed \o Rest(Solo)) \o content[cur], t)
    BY <1>5, <1>6, <2>5, AppendToBoth
  <2>7. cur' = cur
    BY <1>2 DEF cur
  <2>8. QED
    BY <1>2, <1>7, <2>2, <2>4, <2>6, <2>7
<1>24. QED
  BY <1>10, <1>11, <1>12, <1>13, <1>14, <1>16, <1>17, <1>21, <1>22, <1>23 DEF IInv, Places

-----------------------------------------------------------------------------
(* consumeTasks *)

\* The vector that becomes current when a consumer takes is empty.
LEMMA OtherIsEmpty ==
    ASSUME TypeOK, HeldWhileBusy, Apart, EmptyElsewhere,
           NEW c \in Consumers, cpc[c] = "take", multiConsumer \/ c = Solo
    PROVE  content[slots[1 - index]] = <<>>
<1>1. /\ index \in 0 .. 1 /\ slots[1 - index] \in Vectors /\ slots[0] # slots[1]
      /\ NoVector \notin Vectors
  BY SlotVectors DEF Apart
<1>2. slots[1 - index] # slots[index]
  BY <1>1
<1>3. ASSUME NEW d \in Consumers, Busy(d, slots[1 - index]) PROVE FALSE
  <2>1. held[d] = slots[1 - index] /\ held[d] # NoVector /\ cpc[d] \in {"run", "clear"}
    BY <1>1, <1>3 DEF Busy
  <2>2. CASE multiConsumer
    <3>1. held[d] # slots[0] /\ held[d] # slots[1]
      BY <2>1, <2>2 DEF Apart
    <3>2. QED
      BY <1>1, <2>1, <3>1
  <2>3. CASE ~multiConsumer
    BY <2>1, <2>3 DEF HeldWhileBusy
  <2>4. QED
    BY <2>2, <2>3
<1>4. QED
  BY <1>1, <1>2, <1>3 DEF EmptyElsewhere

\* The call begins: the flag is cleared, and the consumer is about to take.
LEMMA BeginKeeps ==
    ASSUME IInv, NEW c \in Consumers, multiConsumer \/ c = Solo, ConsumeBegin(c)
    PROVE  IInv'
<1>1. /\ TypeOK /\ HeldWhileBusy /\ Apart /\ EmptyElsewhere /\ FlagMeansCall /\ NoLostWakeup
      /\ Positions /\ Places /\ SoloInOrder
  BY DEF IInv
<1>2. /\ multiConsumer' = multiConsumer /\ slots' = slots /\ index' = index
      /\ content' = content /\ pools' = pools
      /\ ppc' = ppc /\ posts' = posts /\ appended' = appended
      /\ held' = held /\ next' = next /\ executed' = executed
      /\ flag' = FALSE /\ owed > 0 /\ owed' = owed - 1
      /\ cpc[c] = "idle" /\ cpc' = [cpc EXCEPT ![c] = "take"]
  BY DEF ConsumeBegin, FlagCleared, bufferVars, producerVars
<1>3. cpc'[c] = "take" /\ \A d \in Consumers \ {c} : cpc'[d] = cpc[d]
  BY <1>1, <1>2 DEF TypeOK
<1>4. TypeOK'
  <2>1. owed' \in Nat
    BY <1>1, <1>2 DEF TypeOK
  <2>2. cpc' \in [Consumers -> {"idle", "take", "run", "clear", "recycle"}]
    BY <1>1, <1>2 DEF TypeOK
  <2>3. QED
    BY <1>1, <1>2, <2>1, <2>2 DEF TypeOK
<1>5. HeldWhileBusy'
  BY <1>1, <1>2, <1>3 DEF HeldWhileBusy
<1>6. Apart'
  BY <1>1, <1>2 DEF Apart, NoRepeat, Pooled
<1>7. \A d \in Consumers, v \in Vectors : Busy(d, v) => Busy(d, v)'
  BY <1>2, <1>3 DEF Busy
<1>8. EmptyElsewhere'
  BY <1>1, <1>2, <1>7 DEF EmptyElsewhere
<1>9. FlagMeansCall' /\ NoLostWakeup'
  BY <1>2, <1>3 DEF FlagMeansCall, NoLostWakeup
<1>10. Positions'
  BY <1>1, <1>2, <1>3 DEF Positions
<1>11. Places'
  BY <1>1, <1>2, <1>7, PlacesStay
<1>12. SoloInOrder'
  <2>1. Rest(Solo)' = Rest(Solo)
    BY <1>2 DEF Rest
  <2>2. QED
    BY <1>1, <1>2, <2>1 DEF SoloInOrder
<1>13. QED
  BY <1>4, <1>5, <1>6, <1>8, <1>9, <1>10, <1>11, <1>12 DEF IInv

\* What replaces a taken vector had no owner, and leaves the pool without it.
LEMMA ReplacedIsFree ==
    ASSUME TypeOK, Apart
    PROVE  /\ Replaced \in Vectors /\ Replaced # slots[0] /\ Replaced # slots[1]
           /\ \A d \in Consumers : held[d] # Replaced
           /\ multiConsumer =>
                  /\ PoolsAfterTake \in Seq(Vectors) /\ Len(PoolsAfterTake) <= PoolLimit
                  /\ NoRepeat(PoolsAfterTake)
                  /\ \A i \in 1 .. Len(PoolsAfterTake) :
                         PoolsAfterTake[i] # Replaced /\ Pooled(PoolsAfterTake[i])
<1>1. pools \in Seq(Vectors) /\ Len(pools) <= PoolLimit /\ Len(pools) \in Nat /\ PoolLimit \in Nat
  BY LenProperties, QueueAssumption DEF TypeOK
<1>2. CASE pools = <<>>
  <2>1. Replaced \in Vectors /\ Replaced \notin InUse
    BY <1>2, NewVectorIsNew DEF Replaced
  <2>2. Replaced # slots[0] /\ Replaced # slots[1] /\ \A d \in Consumers : held[d] # Replaced
    BY <2>1 DEF InUse
  <2>3. PoolsAfterTake = pools /\ Len(pools) = 0
    BY <1>2, EmptySeq DEF PoolsAfterTake
  <2>4. NoRepeat(pools) /\ \A i \in 1 .. Len(pools) : FALSE
    BY <2>3 DEF NoRepeat
  <2>5. QED
    BY <1>1, <2>1, <2>2, <2>3, <2>4
<1>3. CASE pools # <<>>
  <2>1. /\ Replaced = pools[1] /\ 1 \in 1 .. Len(pools)
    <3>1. Len(pools) # 0
      BY <1>1, <1>3, EmptySeq
    <3>2. QED
      BY <1>1, <1>3, <3>1 DEF Replaced
  <2>2. Replaced \in Vectors /\ Pooled(Replaced)
    BY <1>1, <2>1, ElementOfSeq DEF Pooled
  <2>3. Replaced # slots[0] /\ Replaced # slots[1] /\ \A d \in Consumers : held[d] # Replaced
    <3>1. ASSUME NEW d \in Consumers PROVE held[d] # Replaced
      <4>1. held[d] # NoVector => ~Pooled(held[d])
        BY DEF Apart
      <4>2. NoVector \notin Vectors
        BY SlotVectors
      <4>3. QED
        BY <2>2, <4>1, <4>2
    <3>2. QED
      BY <2>2, <3>1 DEF Apart
  <2>4. /\ Tail(pools) \in Seq(Vectors) /\ Len(Tail(pools)) = Len(pools) - 1
        /\ \A i \in 1 .. Len(Tail(pools)) : Tail(pools)[i] = pools[i + 1]
    BY <1>1, <1>3, HeadTailProperties
  <2>5. \A i \in 1 .. Len(Tail(pools)) : i + 1 \in 1 .. Len(pools) /\ i \in Nat /\ i + 1 # 1
    BY <1>1, <2>4
  <2>6. \A i, j \in 1 .. Len(pools) : pools[i] = pools[j] => i = j
    BY DEF Apart, NoRepeat
  <2>7. \A i \in 1 .. Len(Tail(pools)) : Tail(pools)[i] # Replaced /\ Pooled(Tail(pools)[i])
    BY <2>1, <2>4, <2>5, <2>6 DEF Pooled
  <2>8. NoRepeat(Tail(pools))
    <3>1. SUFFICES ASSUME NEW i \in 1 .. Len(Tail(pools)), NEW j \in 1 .. Len(Tail(pools)),
                          Tail(pools)[i] = Tail(pools)[j]
                   PROVE  i = j
      BY DEF NoRepeat
    <3>2. i + 1 = j + 1
      BY <2>4, <2>5, <2>6, <3>1
    <3>3. QED
      BY <2>5, <3>2
  <2>9. multiConsumer => PoolsAfterTake = Tail(pools)
    BY <1>3 DEF PoolsAfterTake
  <2>10. Len(Tail(pools)) <= PoolLimit
    BY <1>1, <2>4
  <2>11. QED
    BY <2>2, <2>3, <2>4, <2>7, <2>8, <2>9, <2>10
<1>4. QED
  BY <1>2, <1>3

\* A consumer takes the current vector for its own and leaves an empty one current.
LEMMA TakeKeeps ==
    ASSUME IInv, NEW c \in Consumers, multiConsumer \/ c = Solo, ConsumeTake(c)
    PROVE  IInv'
<1> DEFINE cur == slots[index]
<1>1. /\ TypeOK /\ HeldWhileBusy /\ Apart /\ EmptyElsewhere /\ FlagMeansCall /\ NoLostWakeup
      /\ Positions /\ Places /\ SoloInOrder
  BY DEF IInv
<1>2. /\ multiConsumer' = multiConsumer /\ content' = content /\ flag' = flag /\ owed' = owed
      /\ ppc' = ppc /\ posts' = posts /\ appended' = appended
      /\ next' = next /\ executed' = executed
      /\ held' = [held EXCEPT ![c] = cur] /\ slots' = SlotsAfterTake
      /\ pools' = PoolsAfterTake /\ index' = 1 - index
      /\ cpc[c] = "take" /\ cpc' = [cpc EXCEPT ![c] = "run"]
  BY DEF ConsumeTake, OtherIndex, producerVars
<1>3. /\ slots[0] \in Vectors /\ slots[1] \in Vectors /\ NoVector \notin Vectors
      /\ cur \in Vectors /\ index \in 0 .. 1 /\ 1 - index \in 0 .. 1 /\ slots[0] # slots[1]
      /\ cur = slots[0] \/ cur = slots[1]
  BY <1>1, SlotVectors DEF Apart
<1>4. /\ cpc'[c] = "run" /\ \A d \in Consumers \ {c} : cpc'[d] = cpc[d]
      /\ held'[c] = cur /\ \A d \in Consumers \ {c} : held'[d] = held[d]
  BY <1>1, <1>2 DEF TypeOK
<1>5. /\ Replaced \in Vectors /\ Replaced # slots[0] /\ Replaced # slots[1]
      /\ \A d \in Consumers : held[d] # Replaced
  BY <1>1, ReplacedIsFree
<1>6. multiConsumer =>
          /\ PoolsAfterTake \in Seq(Vectors) /\ Len(PoolsAfterTake) <= PoolLimit
          /\ NoRepeat(PoolsAfterTake)
          /\ \A i \in 1 .. Len(PoolsAfterTake) :
                 PoolsAfterTake[i] # Replaced /\ Pooled(PoolsAfterTake[i])
  BY <1>1, ReplacedIsFree
<1>7. ~multiConsumer => PoolsAfterTake = pools /\ SlotsAfterTake = slots
  BY DEF PoolsAfterTake, SlotsAfterTake
<1>8. /\ slots' \in [0 .. 1 -> Vectors] /\ slots'[1 - index] = slots[1 - index]
      /\ multiConsumer => slots'[index] = Replaced
  <2>1. CASE multiConsumer
    <3>1. slots' = [slots EXCEPT ![index] = Replaced]
      BY <1>2, <2>1 DEF SlotsAfterTake
    <3>2. slots \in [0 .. 1 -> Vectors] /\ 1 - index # index
      BY <1>1, <1>3 DEF TypeOK
    <3>3. QED
      BY <1>3, <1>5, <3>1, <3>2
  <2>2. CASE ~multiConsumer
    BY <1>1, <1>2, <1>7, <2>2 DEF TypeOK
  <2>3. QED
    BY <2>1, <2>2
<1>9. content[slots'[index']] = <<>> /\ slots'[index'] = slots[1 - index] /\ cur # slots'[index']
  BY <1>1, <1>2, <1>3, <1>8, OtherIsEmpty
<1>10. held[c] = NoVector
  BY <1>1, <1>2 DEF HeldWhileBusy
<1> HIDE DEF cur
<1>11. TypeOK'
  <2>1. pools' \in Seq(Vectors) /\ Len(pools') <= PoolLimit
    BY <1>1, <1>2, <1>6, <1>7 DEF TypeOK
  <2>2. held' \in [Consumers -> Vectors \cup {NoVector}]
    BY <1>1, <1>2, <1>3 DEF TypeOK
  <2>3. cpc' \in [Consumers -> {"idle", "take", "run", "clear", "recycle"}]
    BY <1>1, <1>2 DEF TypeOK
  <2>4. index' \in 0 .. 1
    BY <1>2, <1>3
  <2>5. QED
    BY <1>1, <1>2, <1>8, <2>1, <2>2, <2>3, <2>4 DEF TypeOK
<1>12. HeldWhileBusy'
  BY <1>1, <1>2, <1>3, <1>4 DEF HeldWhileBusy
<1>13. Apart'
  <2>1. CASE multiConsumer
    <3>1. \A v : (\E i \in 1 .. Len(pools') : pools'[i] = v) => Pooled(v) /\ v # Replaced
      BY <1>2, <1>6, <2>1
    <3>2. /\ slots'[index] = Replaced /\ slots'[1 - index] = slots[1 - index]
          /\ cur # slots[1 - index] /\ cur = slots[index]
      BY <1>8, <1>9, <2>1 DEF cur
    <3>3. /\ slots'[0] # slots'[1] /\ ~Pooled(slots[1 - index]) /\ ~Pooled(cur)
          /\ {slots'[0], slots'[1]} = {Replaced, slots[1 - index]}
      BY <1>1, <1>3, <1>5, <3>2 DEF Apart
    <3>4. NoRepeat(pools')
      BY <1>2, <1>6, <2>1
    <3>5. ASSUME NEW d \in Consumers, held'[d] # NoVector
          PROVE  /\ ~Pooled(held'[d]) /\ held'[d] # Replaced /\ held'[d] # slots[1 - index]
                 /\ \A e \in Consumers \ {d} : held'[e] # held'[d]
      <4>1. \A e \in Consumers : held[e] # NoVector =>
                /\ ~Pooled(held[e]) /\ held[e] # slots[0] /\ held[e] # slots[1]
                /\ \A f \in Consumers \ {e} : held[f] # held[e]
        BY <1>1, <2>1 DEF Apart
      <4>2. held[d] # cur \/ d = c
        BY <1>3, <1>4, <3>5, <4>1
      <4>3. CASE d = c
        <5>1. \A e \in Consumers \ {c} : held[e] # cur
          BY <1>3, <4>1
        <5>2. QED
          BY <1>3, <1>4, <1>5, <3>2, <3>3, <4>3, <5>1
      <4>4. CASE d # c
        <5>1. held'[d] = held[d] /\ held[d] # cur
          BY <1>4, <4>2, <4>4
        <5>2. \A e \in Consumers \ {d} : held'[e] # held'[d]
          BY <1>4, <3>5, <4>1, <5>1
        <5>3. QED
          BY <1>3, <1>5, <3>5, <4>1, <5>1, <5>2
      <4>5. QED
        BY <4>3, <4>4
    <3>6. \A v : Pooled(v)' => Pooled(v) /\ v # Replaced
      BY <3>1 DEF Pooled
    <3>7. ~Pooled(slots[0])' /\ ~Pooled(slots[1])'
      BY <3>3, <3>6
    <3>8. \A d \in Consumers : held'[d] # NoVector =>
              /\ ~Pooled(held[d])' /\ held'[d] # slots'[0] /\ held'[d] # slots'[1]
              /\ \A e \in Consumers \ {d} : held'[e] # held'[d]
      BY <3>3, <3>5, <3>6
    <3>9. QED
      BY <1>2, <2>1, <3>3, <3>4, <3>7, <3>8 DEF Apart, NoRepeat
  <2>2. CASE ~multiConsumer
    <3>1. c = Solo /\ slots' = slots /\ pools' = pools
      BY <1>2, <1>7, <2>2
    <3>2. \A d \in Consumers \ {c} : held'[d] = NoVector
      BY <1>1, <1>4, <2>2, <3>1 DEF HeldWhileBusy
    <3>3. held'[c] = slots'[1 - index'] /\ ~Pooled(cur) /\ cur # NoVector
      BY <1>1, <1>2, <1>3, <1>4, <3>1 DEF cur, Apart
    <3>4. ASSUME NEW d \in Consumers, held'[d] # NoVector
          PROVE  /\ ~Pooled(held'[d]) /\ held'[d] = slots'[1 - index']
                 /\ \A e \in Consumers \ {d} : held'[e] # held'[d]
      BY <1>4, <3>2, <3>3, <3>4
    <3>5. NoRepeat(pools) /\ ~Pooled(slots[0]) /\ ~Pooled(slots[1]) /\ slots[0] # slots[1]
      BY <1>1 DEF Apart
    <3>6. QED
      BY <1>2, <2>2, <3>1, <3>4, <3>5 DEF Apart, Pooled, NoRepeat
  <2>3. QED
    BY <2>1, <2>2
<1>14. \A d \in Consumers, v \in Vectors : Busy(d, v) => Busy(d, v)'
  BY <1>2, <1>4 DEF Busy
<1>15. EmptyElsewhere'
  <2>1. SUFFICES ASSUME NEW v \in Vectors, content[v] # <<>>
                 PROVE  \E d \in Consumers : Busy(d, v)'
    BY <1>2 DEF EmptyElsewhere
  <2>2. v = cur => Busy(c, v)'
    BY <1>4 DEF Busy
  <2>3. v = cur \/ \E d \in Consumers : Busy(d, v)
    BY <1>1, <2>1 DEF EmptyElsewhere, cur
  <2>4. QED
    BY <1>14, <2>2, <2>3
<1>16. FlagMeansCall' /\ NoLostWakeup'
  BY <1>1, <1>2, <1>9 DEF FlagMeansCall, NoLostWakeup
<1>17. Positions'
  <2>1. next[c] = 1 /\ Len(content[cur]) \in Nat
    <3>1. content[cur] \in Seq(Tasks)
      BY <1>1, <1>3 DEF TypeOK
    <3>2. QED
      BY <1>1, <1>2, <3>1, LenProperties DEF Positions
  <2>2. QED
    BY <1>1, <1>2, <1>4, <2>1 DEF Positions
<1>18. Places'
  BY <1>1, <1>2, <1>14, PlacesStay
<1>19. SoloInOrder'
  <2>1. SUFFICES ASSUME ~multiConsumer
                 PROVE  appended' = ((executed \o Rest(Solo)) \o content[slots[index]])'
    BY <1>2 DEF SoloInOrder
  <2>2. c = Solo
    BY <2>1
  <2>3. appended = (executed \o <<>>) \o content[cur]
    BY <1>1, <1>10, <2>1, <2>2 DEF SoloInOrder, Rest, cur
  <2>4. executed \in Seq(Tasks) /\ content[cur] \in Seq(Tasks)
    BY <1>1, <1>3 DEF TypeOK
  <2>5. executed \o <<>> = executed /\ executed \o content[cur] \in Seq(Tasks)
    BY <2>4, ConcatEmptySeq, ConcatProperties
  <2>6. (executed \o content[cur]) \o <<>> = executed \o content[cur]
    BY <2>5, ConcatEmptySeq
  <2>7. SubSeq(content[cur], 1, Len(content[cur])) = content[cur]
    BY <2>4, SubSeqFull
  <2>8. next'[c] = 1 /\ held'[c] = cur /\ cur # NoVector
    BY <1>1, <1>2, <1>3, <1>4 DEF Positions
  <2>9. Rest(Solo)' = content[cur]
    BY <1>2, <2>2, <2>7, <2>8 DEF Rest
  <2>10. content'[slots'[index']] = <<>>
    BY <1>2, <1>9
  <2>11. QED
    BY <1>2, <2>3, <2>5, <2>6, <2>9, <2>10
<1>20. QED
  BY <1>11, <1>12, <1>13, <1>15, <1>16, <1>17, <1>18, <1>19 DEF IInv

\* A consumer's vector, and what it stands for while the consumer runs or clears it.
LEMMA BusyVector ==
    ASSUME IInv, NEW c \in Consumers, cpc[c] \in {"run", "clear", "recycle"}
    PROVE  /\ held[c] \in Vectors /\ held[c] # slots[index]
           /\ content[held[c]] \in Seq(Tasks) /\ Len(content[held[c]]) \in Nat
           /\ \A d \in Consumers \ {c} : held[d] # held[c]
           /\ next[c] \in Nat \ {0} /\ ~Pooled(held[c])
<1>1. TypeOK /\ HeldWhileBusy /\ Apart
  BY DEF IInv
<1>2. held[c] # NoVector
  BY <1>1 DEF HeldWhileBusy
<1>3. held[c] \in Vectors /\ held[c] # slots[index]
  BY <1>1, <1>2, HeldIsNotCurrent
<1>4. content[held[c]] \in Seq(Tasks) /\ next[c] \in Nat \ {0}
  BY <1>1, <1>3 DEF TypeOK
<1>5. Len(content[held[c]]) \in Nat
  BY <1>4, LenProperties
<1>6. QED
  BY <1>1, <1>2, <1>3, <1>4, <1>5 DEF Apart

\* A consumer runs the next task of its vector, which has not run before.
LEMMA RunKeeps ==
    ASSUME IInv, NEW c \in Consumers, multiConsumer \/ c = Solo, ConsumeRun(c)
    PROVE  IInv'
<1> DEFINE v == held[c]
           n == next[c]
           x == content[v][n]
           last == Len(executed) + 1
<1>1. /\ TypeOK /\ HeldWhileBusy /\ Apart /\ EmptyElsewhere /\ FlagMeansCall /\ NoLostWakeup
      /\ Positions /\ Places /\ SoloInOrder
  BY DEF IInv
<1>2. /\ multiConsumer' = multiConsumer /\ slots' = slots /\ index' = index
      /\ content' = content /\ pools' = pools /\ flag' = flag /\ owed' = owed
      /\ ppc' = ppc /\ posts' = posts /\ appended' = appended
      /\ cpc' = cpc /\ held' = held /\ cpc[c] = "run" /\ n <= Len(content[v])
      /\ executed' = Append(executed, x) /\ next' = [next EXCEPT ![c] = n + 1]
  BY DEF ConsumeRun, bufferVars, producerVars
<1>3. /\ v \in Vectors /\ v # slots[index] /\ content[v] \in Seq(Tasks) /\ Len(content[v]) \in Nat
      /\ \A d \in Consumers \ {c} : held[d] # v
      /\ n \in Nat \ {0}
  BY <1>2, BusyVector
<1>4. n \in 1 .. Len(content[v]) /\ x \in Tasks
  <2>1. n \in 1 .. Len(content[v])
    BY <1>2, <1>3
  <2>2. QED
    BY <1>3, <2>1, ElementOfSeq
<1>5. Busy(c, v) /\ \A d \in Consumers : Busy(d, v) => d = c
  BY <1>2, <1>3 DEF Busy
<1> HIDE DEF v, n, x
<1>6. /\ executed \in Seq(Tasks) /\ executed' \in Seq(Tasks) /\ Len(executed) \in Nat
      /\ Len(executed') = last /\ executed'[last] = x
      /\ \A k \in 1 .. Len(executed) : executed'[k] = executed[k]
  BY <1>1, <1>2, <1>4, AppendProperties, LenProperties DEF TypeOK
<1>7. /\ next' \in [Consumers -> Nat \ {0}] /\ next'[c] = n + 1
      /\ \A d \in Consumers : next[d] \in Nat
      /\ \A d \in Consumers \ {c} : next'[d] = next[d]
  BY <1>1, <1>2, <1>3 DEF TypeOK
<1>8. TypeOK'
  BY <1>1, <1>2, <1>6, <1>7 DEF TypeOK
<1>9. HeldWhileBusy' /\ EmptyElsewhere' /\ FlagMeansCall' /\ NoLostWakeup'
  BY <1>1, <1>2 DEF HeldWhileBusy, EmptyElsewhere, Busy, FlagMeansCall, NoLostWakeup
<1>10. Apart'
  BY <1>1, <1>2 DEF Apart, NoRepeat, Pooled
<1>11. Positions'
  <2>1. next'[c] <= Len(content[held[c]]) + 1
    BY <1>3, <1>4, <1>7 DEF v
  <2>2. QED
    BY <1>1, <1>2, <1>7, <2>1 DEF Positions
<1>12. \A k \in 1 .. Len(executed) : executed[k] # x
  <2>1. SUFFICES ASSUME NEW k \in 1 .. Len(executed), executed[k] = content[v][n] PROVE FALSE
    BY DEF x
  <2>2. PICK d \in Consumers : Busy(d, v) /\ n < next[d]
    BY <1>1, <1>3, <1>4, <2>1 DEF Places, RunOnesBehind
  <2>3. n < next[c] /\ n = next[c] /\ n \in Nat
    BY <1>3, <1>5, <2>2 DEF n
  <2>4. QED
    BY <2>3
<1>13. \A k \in 1 .. Len(executed') :
           \/ k \in 1 .. Len(executed) /\ executed'[k] = executed[k]
           \/ k = last /\ executed'[k] = x
  BY <1>6
<1>14. AllPosted' /\ OncePending'
  <2>1. PostedBy(x, posts)
    BY <1>1, <1>3, <1>4 DEF Places, AllPosted, x
  <2>2. \A k \in 1 .. Len(executed') : PostedBy(executed'[k], posts)
    BY <1>1, <1>13, <2>1 DEF Places, AllPosted
  <2>3. QED
    BY <1>1, <1>2, <2>2 DEF Places, AllPosted, OncePending
<1>15. OnceRun'
  <2>1. SUFFICES ASSUME NEW i \in 1 .. Len(executed'), NEW j \in 1 .. Len(executed'),
                        executed'[i] = executed'[j]
                 PROVE  i = j
    BY DEF OnceRun, NoRepeat
  <2>2. /\ \/ i \in 1 .. Len(executed) /\ executed'[i] = executed[i]
           \/ i = last /\ executed'[i] = x
        /\ \/ j \in 1 .. Len(executed) /\ executed'[j] = executed[j]
           \/ j = last /\ executed'[j] = x
    BY <1>13
  <2>3. QED
    BY <1>1, <1>12, <2>1, <2>2 DEF Places, OnceRun, NoRepeat
<1>16. RunOnesBehind'
  <2>1. SUFFICES ASSUME NEW u \in Vectors, NEW i \in 1 .. Len(content[u]),
                        NEW k \in 1 .. Len(executed'), executed'[k] = content[u][i]
                 PROVE  \E d \in Consumers : Busy(d, u) /\ i < next'[d]
    BY <1>2 DEF RunOnesBehind, Busy
  <2>2. CASE k = last /\ executed'[k] = x
    <3>1. u = v /\ i = n
      BY <1>1, <1>3, <1>4, <2>1, <2>2 DEF Places, OncePending, x
    <3>2. i < next'[c]
      BY <1>3, <1>7, <3>1
    <3>3. QED
      BY <1>5, <3>1, <3>2
  <2>3. CASE k \in 1 .. Len(executed) /\ executed'[k] = executed[k]
    <3>1. PICK d \in Consumers : Busy(d, u) /\ i < next[d]
      BY <1>1, <2>1, <2>3 DEF Places, RunOnesBehind
    <3>2. i < next'[d]
      <4>1. i \in Nat
        BY <1>1, LenProperties DEF TypeOK
      <4>2. next[d] \in Nat /\ next'[d] \in Nat /\ (d = c => next[d] = n)
        BY <1>7, <1>3 DEF n
      <4>3. next'[d] = next[d] \/ next'[d] = next[d] + 1
        BY <1>7, <4>2
      <4>4. QED
        BY <3>1, <4>1, <4>2, <4>3
    <3>3. QED
      BY <3>1, <3>2
  <2>4. QED
    BY <1>13, <2>2, <2>3
<1>17. SoloInOrder'
  <2>1. SUFFICES ASSUME ~multiConsumer
                 PROVE  appended' = ((executed \o Rest(Solo)) \o content[slots[index]])'
    BY <1>2 DEF SoloInOrder
  <2>2. c = Solo
    BY <2>1
  <2>3. v # NoVector /\ n + 1 = next'[c] /\ held'[c] = v /\ v = held[c] /\ n = next[c]
    BY <1>1, <1>2, <1>3, <1>7, SlotVectors DEF v, n
  <2>4. Rest(Solo) = SubSeq(content[v], n, Len(content[v]))
    BY <2>2, <2>3 DEF Rest
  <2>5. Rest(Solo)' = SubSeq(content[v], n + 1, Len(content[v]))
    <3>1. Rest(Solo)' = SubSeq(content'[held'[c]], next'[c], Len(content'[held'[c]]))
      BY <2>2, <2>3 DEF Rest
    <3>2. content'[held'[c]] = content[v] /\ next'[c] = n + 1
      BY <1>2, <2>3
    <3>3. QED
      BY <3>1, <3>2
  <2>6. Append(executed, x) \o SubSeq(content[v], n + 1, Len(content[v]))
          = executed \o SubSeq(content[v], n, Len(content[v]))
    BY <1>3, <1>4, <1>6, MoveFirst DEF x
  <2>7. appended = (executed \o Rest(Solo)) \o content[slots[index]]
    BY <1>1, <2>1 DEF SoloInOrder
  <2>8. QED
    BY <1>2, <2>4, <2>5, <2>6, <2>7
<1>18. QED
  BY <1>8, <1>9, <1>10, <1>11, <1>14, <1>15, <1>16, <1>17 DEF IInv, Places

\* The loop ends at the end of the vector.
LEMMA EndKeeps ==
    ASSUME IInv, NEW c \in Consumers, multiConsumer \/ c = Solo, ConsumeEnd(c)
    PROVE  IInv'
<1>1. /\ TypeOK /\ HeldWhileBusy /\ Apart /\ EmptyElsewhere /\ FlagMeansCall /\ NoLostWakeup
      /\ Positions /\ Places /\ SoloInOrder
  BY DEF IInv
<1>2. /\ multiConsumer' = multiConsumer /\ slots' = slots /\ index' = index
      /\ content' = content /\ pools' = pools /\ flag' = flag /\ owed' = owed
      /\ ppc' = ppc /\ posts' = posts /\ appended' = appended
      /\ held' = held /\ next' = next /\ executed' = executed
      /\ cpc[c] = "run" /\ next[c] > Len(content[held[c]])
      /\ cpc' = [cpc EXCEPT ![c] = "clear"]
  BY DEF ConsumeEnd, bufferVars, producerVars
<1>3. cpc'[c] = "clear" /\ \A d \in Consumers \ {c} : cpc'[d] = cpc[d]
  BY <1>1, <1>2 DEF TypeOK
<1>4. TypeOK'
  <2>1. cpc' \in [Consumers -> {"idle", "take", "run", "clear", "recycle"}]
    BY <1>1, <1>2 DEF TypeOK
  <2>2. QED
    BY <1>1, <1>2, <2>1 DEF TypeOK
<1>5. HeldWhileBusy'
  BY <1>1, <1>2, <1>3 DEF HeldWhileBusy
<1>6. Apart'
  BY <1>1, <1>2 DEF Apart, NoRepeat, Pooled
<1>7. \A d \in Consumers, v \in Vectors : Busy(d, v) => Busy(d, v)'
  BY <1>2, <1>3 DEF Busy
<1>8. EmptyElsewhere'
  BY <1>1, <1>2, <1>7 DEF EmptyElsewhere
<1>9. FlagMeansCall' /\ NoLostWakeup'
  BY <1>1, <1>2, <1>3 DEF FlagMeansCall, NoLostWakeup
<1>10. Positions'
  <2>1. next[c] = Len(content[held[c]]) + 1
    <3>1. Len(content[held[c]]) \in Nat /\ next[c] \in Nat
      BY <1>2, BusyVector
    <3>2. next[c] <= Len(content[held[c]]) + 1
      BY <1>1, <1>2 DEF Positions
    <3>3. QED
      BY <1>2, <3>1, <3>2
  <2>2. QED
    BY <1>1, <1>2, <1>3, <2>1 DEF Positions
<1>11. Places'
  BY <1>1, <1>2, <1>7, PlacesStay
<1>12. SoloInOrder'
  <2>1. Rest(Solo)' = Rest(Solo)
    BY <1>2 DEF Rest
  <2>2. QED
    BY <1>1, <1>2, <2>1 DEF SoloInOrder
<1>13. QED
  BY <1>4, <1>5, <1>6, <1>8, <1>9, <1>10, <1>11, <1>12 DEF IInv

\* The vector is emptied, and a single consumer lets go of it.
LEMMA ClearKeeps ==
    ASSUME IInv, NEW c \in Consumers, multiConsumer \/ c = Solo, ConsumeClear(c)
    PROVE  IInv'
<1> DEFINE v == held[c]
<1>1. /\ TypeOK /\ HeldWhileBusy /\ Apart /\ EmptyElsewhere /\ FlagMeansCall /\ NoLostWakeup
      /\ Positions /\ Places /\ SoloInOrder
  BY DEF IInv
<1>2. /\ multiConsumer' = multiConsumer /\ slots' = slots /\ index' = index
      /\ pools' = pools /\ flag' = flag /\ owed' = owed
      /\ ppc' = ppc /\ posts' = posts /\ appended' = appended /\ executed' = executed
      /\ cpc[c] = "clear"
      /\ content' = [content EXCEPT ![v] = <<>>] /\ next' = [next EXCEPT ![c] = 1]
      /\ multiConsumer => cpc' = [cpc EXCEPT ![c] = "recycle"] /\ held' = held
      /\ ~multiConsumer => /\ cpc' = [cpc EXCEPT ![c] = "idle"]
                           /\ held' = [held EXCEPT ![c] = NoVector]
  BY DEF ConsumeClear, Cleared, producerVars
<1>3. /\ v \in Vectors /\ v # slots[index] /\ content[v] \in Seq(Tasks)
      /\ \A d \in Consumers \ {c} : held[d] # v
      /\ NoVector \notin Vectors /\ slots[index] \in Vectors
  BY <1>1, <1>2, BusyVector, SlotVectors
<1>4. /\ \A d \in Consumers \ {c} :
             cpc'[d] = cpc[d] /\ held'[d] = held[d] /\ next'[d] = next[d]
      /\ next'[c] = 1
      /\ multiConsumer => cpc'[c] = "recycle" /\ held'[c] = v
      /\ ~multiConsumer => cpc'[c] = "idle" /\ held'[c] = NoVector
  BY <1>1, <1>2 DEF TypeOK
<1> HIDE DEF v
<1>5. /\ content' \in [Vectors -> Seq(Tasks)] /\ content'[v] = <<>> /\ Len(<<>>) = 0
      /\ \A u \in Vectors \ {v} : content'[u] = content[u]
  BY <1>1, <1>2, <1>3, EmptySeq DEF TypeOK
<1>6. TypeOK'
  <2>1. cpc' \in [Consumers -> {"idle", "take", "run", "clear", "recycle"}]
    BY <1>1, <1>2 DEF TypeOK
  <2>2. held' \in [Consumers -> Vectors \cup {NoVector}]
    BY <1>1, <1>2 DEF TypeOK
  <2>3. next' \in [Consumers -> Nat \ {0}]
    BY <1>1, <1>2 DEF TypeOK
  <2>4. QED
    BY <1>1, <1>2, <1>5, <2>1, <2>2, <2>3 DEF TypeOK
<1>7. HeldWhileBusy'
  BY <1>1, <1>2, <1>3, <1>4 DEF HeldWhileBusy
<1>8. Apart'
  <2>1. CASE multiConsumer
    BY <1>1, <1>2, <2>1 DEF Apart, NoRepeat, Pooled
  <2>2. CASE ~multiConsumer
    <3>1. \A d \in Consumers : held'[d] = NoVector
      BY <1>1, <1>4, <2>2 DEF HeldWhileBusy
    <3>2. slots[0] # slots[1] /\ NoRepeat(pools) /\ ~Pooled(slots[0]) /\ ~Pooled(slots[1])
      BY <1>1 DEF Apart
    <3>3. QED
      BY <1>2, <3>1, <3>2 DEF Apart, NoRepeat, Pooled
  <2>3. QED
    BY <2>1, <2>2
<1>9. \A d \in Consumers, u \in Vectors \ {v} : Busy(d, u) => d # c /\ Busy(d, u)'
  BY <1>4 DEF Busy, v
<1>10. EmptyElsewhere'
  <2>1. SUFFICES ASSUME NEW u \in Vectors, content'[u] # <<>>
                 PROVE  u = slots[index] \/ \E d \in Consumers : Busy(d, u)'
    BY <1>2 DEF EmptyElsewhere
  <2>2. u \in Vectors \ {v} /\ content[u] # <<>>
    BY <1>5, <2>1
  <2>3. QED
    BY <1>1, <1>9, <2>2 DEF EmptyElsewhere
<1>11. FlagMeansCall' /\ NoLostWakeup'
  <2>1. content'[slots'[index']] = content[slots[index]]
    BY <1>2, <1>3, <1>5
  <2>2. \A d \in Consumers : cpc[d] = "take" => cpc'[d] = "take"
    BY <1>2, <1>4
  <2>3. QED
    BY <1>1, <1>2, <2>1, <2>2 DEF FlagMeansCall, NoLostWakeup
<1>12. Positions'
  <2>1. \A d \in Consumers \ {c} : cpc[d] \in {"run", "clear"} => content'[held[d]] = content[held[d]]
    <3>1. ASSUME NEW d \in Consumers \ {c}, cpc[d] \in {"run", "clear"}
          PROVE  content'[held[d]] = content[held[d]]
      <4>1. held[d] \in Vectors
        BY <3>1, BusyVector
      <4>2. QED
        BY <1>3, <1>5, <4>1
    <3>2. QED
      BY <3>1
  <2>2. SUFFICES ASSUME NEW d \in Consumers
                 PROVE  /\ cpc'[d] \in {"idle", "take", "recycle"} => next'[d] = 1
                        /\ cpc'[d] = "run" => next'[d] <= Len(content'[held'[d]]) + 1
                        /\ cpc'[d] = "clear" => next'[d] = Len(content'[held'[d]]) + 1
    BY DEF Positions
  <2>3. CASE d = c
    BY <1>4, <2>3
  <2>4. CASE d # c
    BY <1>1, <1>4, <2>1, <2>4 DEF Positions
  <2>5. QED
    BY <2>3, <2>4
<1>13. Places'
  <2>1. \A u \in Vectors : \A i \in 1 .. Len(content'[u]) :
            u \in Vectors \ {v} /\ i \in 1 .. Len(content[u]) /\ content'[u][i] = content[u][i]
    BY <1>5
  <2>2. AllPosted' /\ OnceRun'
    BY <1>1, <1>2, <2>1 DEF Places, AllPosted, OnceRun, NoRepeat
  <2>3. OncePending'
    BY <1>1, <2>1 DEF Places, OncePending
  <2>4. RunOnesBehind'
    <3>1. SUFFICES ASSUME NEW u \in Vectors, NEW i \in 1 .. Len(content'[u]),
                          NEW k \in 1 .. Len(executed), executed[k] = content'[u][i]
                   PROVE  \E d \in Consumers : Busy(d, u)' /\ i < next'[d]
      BY <1>2 DEF RunOnesBehind
    <3>2. u \in Vectors \ {v} /\ i \in 1 .. Len(content[u]) /\ executed[k] = content[u][i]
      BY <2>1, <3>1
    <3>3. PICK d \in Consumers : Busy(d, u) /\ i < next[d]
      BY <1>1, <3>2 DEF Places, RunOnesBehind
    <3>4. d # c /\ Busy(d, u)'
      BY <1>9, <3>2, <3>3
    <3>5. QED
      BY <1>4, <3>3, <3>4
  <2>5. QED
    BY <2>2, <2>3, <2>4 DEF Places
<1>14. SoloInOrder'
  <2>1. SUFFICES ASSUME ~multiConsumer
                 PROVE  appended' = ((executed \o Rest(Solo)) \o content[slots[index]])'
    BY <1>2 DEF SoloInOrder
  <2>2. c = Solo /\ held'[c] = NoVector
    BY <1>4, <2>1
  <2>3. Rest(Solo)' = <<>>
    BY <2>2 DEF Rest
  <2>4. Rest(Solo) = <<>>
    <3>1. next[c] = Len(content[v]) + 1 /\ Len(content[v]) \in Nat
      BY <1>1, <1>2, <1>3, LenProperties DEF Positions, v
    <3>2. SubSeq(content[v], next[c], Len(content[v])) = <<>>
      BY <3>1, SubSeqEmpty
    <3>3. QED
      BY <1>3, <2>2, <3>2 DEF Rest, v
  <2>5. content'[slots'[index']] = content[slots[index]]
    BY <1>2, <1>3, <1>5
  <2>6. QED
    BY <1>1, <1>2, <2>1, <2>3, <2>4, <2>5 DEF SoloInOrder
<1>15. QED
  BY <1>6, <1>7, <1>8, <1>10, <1>11, <1>12, <1>13, <1>14 DEF IInv

\* The emptied vector goes to the pool, or is freed.
LEMMA RecycleKeeps ==
    ASSUME IInv, NEW c \in Consumers, multiConsumer \/ c = Solo, ConsumeRecycle(c)
    PROVE  IInv'
<1> DEFINE v == held[c]
<1>1. /\ TypeOK /\ HeldWhileBusy /\ Apart /\ EmptyElsewhere /\ FlagMeansCall /\ NoLostWakeup
      /\ Positions /\ Places /\ SoloInOrder
  BY DEF IInv
<1>2. /\ multiConsumer' = multiConsumer /\ slots' = slots /\ index' = index
      /\ content' = content /\ flag' = flag /\ owed' = owed
      /\ ppc' = ppc /\ posts' = posts /\ appended' = appended
      /\ next' = next /\ executed' = executed
      /\ cpc[c] = "recycle" /\ cpc' = [cpc EXCEPT ![c] = "idle"]
      /\ held' = [held EXCEPT ![c] = NoVector] /\ pools' = Recycled(v)
  BY DEF ConsumeRecycle, producerVars
<1>3. multiConsumer
  BY <1>1, <1>2 DEF HeldWhileBusy
<1>4. /\ v \in Vectors /\ ~Pooled(v) /\ NoVector \notin Vectors /\ v # slots[0] /\ v # slots[1]
      /\ \A d \in Consumers \ {c} : held[d] # v
  BY <1>1, <1>2, <1>3, BusyVector, SlotVectors DEF Apart
<1>5. /\ cpc'[c] = "idle" /\ held'[c] = NoVector
      /\ \A d \in Consumers \ {c} : cpc'[d] = cpc[d] /\ held'[d] = held[d]
  BY <1>1, <1>2 DEF TypeOK
<1> HIDE DEF v
<1>6. /\ pools' \in Seq(Vectors) /\ Len(pools') <= PoolLimit /\ NoRepeat(pools')
      /\ \A i \in 1 .. Len(pools') : Pooled(pools'[i]) \/ pools'[i] = v
  <2>1. pools \in Seq(Vectors) /\ Len(pools) \in Nat /\ Len(pools) <= PoolLimit /\ NoRepeat(pools)
    BY <1>1, LenProperties DEF TypeOK, Apart
  <2>2. CASE Len(pools) < PoolLimit
    <3>1. pools' = Append(pools, v)
      BY <1>2, <2>2 DEF Recycled
    <3>2. /\ pools' \in Seq(Vectors) /\ Len(pools') = Len(pools) + 1
          /\ pools'[Len(pools) + 1] = v
          /\ \A i \in 1 .. Len(pools) : pools'[i] = pools[i]
      BY <1>4, <2>1, <3>1, AppendProperties
    <3>3. \A i \in 1 .. Len(pools') :
              \/ i \in 1 .. Len(pools) /\ pools'[i] = pools[i]
              \/ i = Len(pools) + 1 /\ pools'[i] = v
      BY <2>1, <3>2
    <3>4. \A i \in 1 .. Len(pools) : pools[i] # v
      BY <1>4 DEF Pooled
    <3>5. NoRepeat(pools')
      BY <2>1, <3>3, <3>4 DEF NoRepeat
    <3>6. \A i \in 1 .. Len(pools') : Pooled(pools'[i]) \/ pools'[i] = v
      BY <3>3 DEF Pooled
    <3>7. Len(pools') <= PoolLimit
      BY <2>1, <2>2, <3>2, QueueAssumption
    <3>8. QED
      BY <3>2, <3>5, <3>6, <3>7
  <2>3. CASE ~(Len(pools) < PoolLimit)
    BY <1>2, <2>1, <2>3 DEF Recycled, Pooled
  <2>4. QED
    BY <2>2, <2>3
<1>7. TypeOK'
  <2>1. cpc' \in [Consumers -> {"idle", "take", "run", "clear", "recycle"}]
    BY <1>1, <1>2 DEF TypeOK
  <2>2. held' \in [Consumers -> Vectors \cup {NoVector}]
    BY <1>1, <1>2 DEF TypeOK
  <2>3. QED
    BY <1>1, <1>2, <1>6, <2>1, <2>2 DEF TypeOK
<1>8. HeldWhileBusy'
  BY <1>1, <1>2, <1>3, <1>5 DEF HeldWhileBusy
<1>9. Apart'
  <2>1. \A u : Pooled(u)' => Pooled(u) \/ u = v
    BY <1>6 DEF Pooled
  <2>2. ~Pooled(slots[0])' /\ ~Pooled(slots[1])'
    BY <1>1, <1>2, <1>4, <2>1 DEF Apart
  <2>3. \A d \in Consumers : held'[d] # NoVector =>
            /\ ~Pooled(held[d])' /\ held'[d] # slots'[0] /\ held'[d] # slots'[1]
            /\ \A e \in Consumers \ {d} : held'[e] # held'[d]
    <3>1. SUFFICES ASSUME NEW d \in Consumers, held'[d] # NoVector
                   PROVE  /\ ~Pooled(held[d])' /\ held'[d] # slots'[0] /\ held'[d] # slots'[1]
                          /\ \A e \in Consumers \ {d} : held'[e] # held'[d]
      OBVIOUS
    <3>2. d # c /\ held'[d] = held[d] /\ held[d] # v
      BY <1>4, <1>5, <3>1
    <3>3. /\ ~Pooled(held[d]) /\ held[d] # slots[0] /\ held[d] # slots[1]
          /\ \A e \in Consumers \ {d} : held[e] # held[d]
      BY <1>1, <1>3, <3>1, <3>2 DEF Apart
    <3>4. ~Pooled(held[d])'
      BY <2>1, <3>2, <3>3
    <3>5. QED
      BY <1>2, <1>5, <3>1, <3>2, <3>3, <3>4
  <2>4. slots[0] # slots[1]
    BY <1>1 DEF Apart
  <2>5. QED
    BY <1>2, <1>3, <1>6, <2>2, <2>3, <2>4 DEF Apart, NoRepeat
<1>10. \A d \in Consumers, u \in Vectors : Busy(d, u) => Busy(d, u)'
  BY <1>2, <1>5 DEF Busy
<1>11. EmptyElsewhere'
  BY <1>1, <1>2, <1>10 DEF EmptyElsewhere
<1>12. FlagMeansCall' /\ NoLostWakeup'
  <2>1. \A d \in Consumers : cpc[d] = "take" => cpc'[d] = "take"
    BY <1>2, <1>5
  <2>2. QED
    BY <1>1, <1>2, <2>1 DEF FlagMeansCall, NoLostWakeup
<1>13. Positions'
  BY <1>1, <1>2, <1>5 DEF Positions
<1>14. Places'
  BY <1>1, <1>2, <1>10, PlacesStay
<1>15. SoloInOrder'
  BY <1>2, <1>3 DEF SoloInOrder
<1>16. QED
  BY <1>7, <1>8, <1>9, <1>11, <1>12, <1>13, <1>14, <1>15 DEF IInv

-----------------------------------------------------------------------------
(* The invariant *)

\* A step that changes nothing.
LEMMA StutterKeeps ==
    ASSUME IInv, UNCHANGED vars
    PROVE  IInv'
<1>1. /\ TypeOK /\ HeldWhileBusy /\ Apart /\ EmptyElsewhere /\ FlagMeansCall /\ NoLostWakeup
      /\ Positions /\ Places /\ SoloInOrder
  BY DEF IInv
<1>2. /\ multiConsumer' = multiConsumer /\ slots' = slots /\ index' = index
      /\ content' = content /\ pools' = pools /\ flag' = flag /\ owed' = owed
      /\ ppc' = ppc /\ posts' = posts /\ appended' = appended
      /\ cpc' = cpc /\ held' = held /\ next' = next /\ executed' = executed
  BY DEF vars, bufferVars, producerVars, consumerVars
<1>3. TypeOK'
  BY <1>1, <1>2 DEF TypeOK
<1>4. HeldWhileBusy' /\ EmptyElsewhere' /\ Positions' /\ FlagMeansCall' /\ NoLostWakeup'
  BY <1>1, <1>2 DEF HeldWhileBusy, EmptyElsewhere, Positions, Busy, FlagMeansCall, NoLostWakeup
<1>5. Apart'
  BY <1>1, <1>2 DEF Apart, NoRepeat, Pooled
<1>6. Places'
  BY <1>1, <1>2, PlacesStay DEF Busy
<1>7. SoloInOrder'
  <2>1. Rest(Solo)' = Rest(Solo)
    BY <1>2 DEF Rest
  <2>2. QED
    BY <1>1, <1>2, <2>1 DEF SoloInOrder
<1>8. QED
  BY <1>3, <1>4, <1>5, <1>6, <1>7 DEF IInv

\* Every step keeps the invariant.
LEMMA NextKeeps == IInv /\ [Next]_vars => IInv'
<1> SUFFICES ASSUME IInv, [Next]_vars PROVE IInv'
  OBVIOUS
<1>1. CASE \E p \in Producers : Post(p)
  BY <1>1, SignalKeeps, AppendKeeps DEF Post
<1>2. CASE \E c \in Active : Consume(c)
  <2>1. PICK c \in Active : Consume(c)
    BY <1>2
  <2>2. c \in Consumers /\ (multiConsumer \/ c = Solo)
    BY QueueAssumption DEF Active
  <2>3. QED
    BY <2>1, <2>2, BeginKeeps, TakeKeeps, RunKeeps, EndKeeps, ClearKeeps, RecycleKeeps DEF Consume
<1>3. CASE Quiet \/ UNCHANGED vars
  BY <1>3, StutterKeeps DEF Quiet
<1>4. QED
  BY <1>1, <1>2, <1>3 DEF Next

\* The inductive invariant holds in every reachable state.
THEOREM Invariance == Spec => []IInv
<1>1. QED
  BY InitKeeps, NextKeeps, PTL DEF Spec

\* Every variable of the queue has its type, and the pool stays within its limit.
THEOREM TypeCorrect == Spec => []TypeOK
<1>1. IInv => TypeOK
  BY DEF IInv
<1>2. QED
  BY <1>1, Invariance, PTL

\* getConsumeTasks hands each vector to one owner: what a consumer reads without a
\* lock is neither appended to, nor pooled, nor another's.
THEOREM OneOwner == Spec => []VectorsDisjoint
<1>1. IInv => VectorsDisjoint
  <2>1. SUFFICES ASSUME IInv, NEW c \in Consumers, held[c] # NoVector
                 PROVE  /\ held[c] # slots[index]
                        /\ held[c] \notin ToSet(pools)
                        /\ \A d \in Consumers \ {c} : held[d] # held[c]
    BY DEF VectorsDisjoint
  <2>2. TypeOK /\ Apart
    BY <2>1 DEF IInv
  <2>3. held[c] # slots[index]
    BY <2>1, <2>2, HeldIsNotCurrent
  <2>4. ToSet(pools) = {pools[i] : i \in 1 .. Len(pools)}
    BY <2>2, LenProperties DEF ToSet, TypeOK
  <2>5. held[c] \notin ToSet(pools)
    BY <2>1, <2>2, <2>4 DEF Apart, Pooled
  <2>6. QED
    BY <2>1, <2>2, <2>3, <2>5 DEF Apart
<1>2. QED
  BY <1>1, Invariance, PTL

\* A task runs at most once, and one consumer runs the tasks in the order of the
\* posts, across every swap of the vectors.
THEOREM OnceInOrder == Spec => []RunInOrder
<1>1. IInv => RunInOrder
  <2>1. SUFFICES ASSUME IInv PROVE RunInOrder
    OBVIOUS
  <2>2. TypeOK /\ Places /\ SoloInOrder
    BY <2>1 DEF IInv
  <2>3. executed \in Seq(Tasks) /\ content[slots[index]] \in Seq(Tasks) /\ Rest(Solo) \in Seq(Tasks)
    BY <2>2, SlotVectors, RestOfTasks, QueueAssumption DEF TypeOK
  <2>4. IsInjective(executed)
    BY <2>2, <2>3, LenProperties DEF IsInjective, Places, OnceRun, NoRepeat
  <2>5. ~multiConsumer => IsPrefix(executed, appended)
    <3>1. SUFFICES ASSUME ~multiConsumer PROVE IsPrefix(executed, appended)
      OBVIOUS
    <3> DEFINE left == Rest(Solo)
               current == content[slots[index]]
               more == left \o current
    <3>2. appended = executed \o more
      <4>1. /\ appended = (executed \o left) \o current
            /\ left \in Seq(Tasks) /\ current \in Seq(Tasks)
        BY <2>2, <2>3, <3>1 DEF SoloInOrder
      <4> HIDE DEF left, current
      <4>2. (executed \o left) \o current = executed \o (left \o current)
        BY <2>3, <4>1, ConcatAssociative
      <4>3. QED
        BY <4>1, <4>2
    <3>3. more \in Seq(Tasks)
      BY <2>3, ConcatProperties
    <3> HIDE DEF more
    <3>4. /\ Len(appended) = Len(executed) + Len(more)
          /\ Len(executed) \in Nat /\ Len(more) \in Nat
          /\ \A i \in 1 .. Len(executed) + Len(more) :
                 appended[i] = IF i <= Len(executed) THEN executed[i] ELSE more[i - Len(executed)]
      BY <2>3, <3>2, <3>3, ConcatProperties, LenProperties
    <3>5. Len(executed) <= Len(appended)
      BY <3>4
    <3>6. \A i \in 1 .. Len(executed) : i \in 1 .. Len(executed) + Len(more) /\ i <= Len(executed)
      BY <3>4
    <3>7. \A i \in 1 .. Len(executed) : executed[i] = appended[i]
      BY <3>4, <3>6
    <3>8. SubSeq(appended, 1, Len(executed)) = executed
      <4>1. appended \in Seq(Tasks)
        BY <2>2 DEF TypeOK
      <4>2. \A i \in 1 .. Len(executed) : appended[i] \in Tasks
        BY <2>3, <3>7, ElementOfSeq
      <4>3. /\ SubSeq(appended, 1, Len(executed)) \in Seq(Tasks)
            /\ Len(SubSeq(appended, 1, Len(executed))) = Len(executed)
            /\ \A i \in 1 .. Len(executed) : SubSeq(appended, 1, Len(executed))[i] = appended[i]
        BY <3>4, <4>2, SubSeqProperties
      <4>4. QED
        BY <2>3, <3>7, <4>3, SeqEqual
    <3>9. QED
      BY <3>5, <3>7, <3>8 DEF IsPrefix
  <2>6. QED
    BY <2>4, <2>5 DEF RunInOrder
<1>2. QED
  BY <1>1, Invariance, PTL

\* hasWeakUpFlag never swallows the last signal: tasks that wait have a
\* consumption on its way.
THEOREM WakeupIsKept == Spec => []NoLostWakeup
<1>1. IInv => NoLostWakeup
  BY DEF IInv
<1>2. QED
  BY <1>1, Invariance, PTL
=============================================================================
