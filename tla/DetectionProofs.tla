--------------------------- MODULE DetectionProofs ---------------------------
(***************************************************************************)
(* The parts of detection, for any text: the prediction cache of a request, *)
(* with any tasks, threads and models, lets nothing outlive the request or  *)
(* pass to another one; the windows of a text, of any sizes and with any    *)
(* tokens, are stitched to one label for each token that shows text, and    *)
(* what is labelled is detected; and after merge and allow list what was    *)
(* detected stays masked, under the strictest policy that reported it,      *)
(* unless every detection on the spot is exempt.                            *)
(***************************************************************************)
EXTENDS Detection, WindowCache, SequenceTheorems, FiniteSetTheorems,
        WellFoundedInduction, TLAPS

-----------------------------------------------------------------------------
(* The window cache *)

\* A running thread holds the cache of the task that started it.
ThreadsKeepTheirCache ==
    \A w \in Workers :
        worker[w].pc # "free" =>
            /\ worker[w].task \in Tasks
            /\ worker[w].cache \in 1..made
            /\ owner[worker[w].cache] = worker[w].task
            /\ worker[w].key \in Keys

\* An entry is what the model answers for its key.
EntriesExact ==
    \A c \in Caches : \A k \in DOMAIN stored[c] : stored[c][k] = Predicted(k)

\* A cache that was not made yet is open and empty; a task's is among the made,
\* and belongs to it alone.
CachesMade ==
    /\ made \in 0..MaxCaches
    /\ \A c \in Caches : c > made => ~closed[c] /\ stored[c] = <<>>
    /\ \A t \in Tasks : current[t] # None => current[t] \in 1..made /\ depth[t] > 0

IInv ==
    /\ DOMAIN stored = Caches
    /\ owner \in [Caches -> Tasks \cup {None}]
    /\ closed \in [Caches -> BOOLEAN]
    /\ current \in [Tasks -> Caches \cup {None}]
    /\ depth \in [Tasks -> Nat]
    /\ worker \in [Workers -> WorkerType]
    /\ ThreadsKeepTheirCache
    /\ EntriesExact
    /\ CachesMade
    /\ ClosedStaysEmpty
    /\ OpenWhileRunning
    /\ Isolated
    /\ PredictionExact

LEMMA InitInv == CacheInit => IInv
BY ConstantsOK DEF CacheInit, IInv, ThreadsKeepTheirCache, EntriesExact, CachesMade, ClosedStaysEmpty,
   OpenWhileRunning, Isolated, PredictionExact, WorkerType, Free, Caches

\* A thread that moves on with a valid state of its own, and nothing else, keeps
\* the invariant.
LEMMA WorkerStep ==
    ASSUME IInv, NEW w \in Workers, NEW r \in WorkerType,
           worker' = [worker EXCEPT ![w] = r],
           UNCHANGED <<made, owner, closed, stored, current, depth>>,
           r.pc # "free" => /\ r.task \in Tasks
                            /\ r.cache \in 1..made
                            /\ owner[r.cache] = r.task
                            /\ r.key \in Keys,
           r.from \in {None, r.task},
           r.pc \in {"put", "ready"} => r.prediction = Predicted(r.key)
    PROVE  IInv'
<1>1. /\ worker' \in [Workers -> WorkerType]
      /\ worker'[w] = r
      /\ \A v \in Workers : v # w => worker'[v] = worker[v]
  BY DEF IInv
<1>2. ThreadsKeepTheirCache' /\ Isolated' /\ PredictionExact'
  BY <1>1 DEF IInv, ThreadsKeepTheirCache, Isolated, PredictionExact
<1>3. EntriesExact' /\ CachesMade' /\ ClosedStaysEmpty' /\ OpenWhileRunning'
  BY DEF IInv, EntriesExact, CachesMade, ClosedStaysEmpty, OpenWhileRunning
<1> QED
  BY <1>1, <1>2, <1>3 DEF IInv

LEMMA StepInv == IInv /\ [CacheNext]_cacheVars => IInv'
<1> SUFFICES ASSUME IInv, [CacheNext]_cacheVars PROVE IInv'
  OBVIOUS
<1> USE ConstantsOK DEF Caches
<1>1. ASSUME NEW t \in Tasks, Open(t) PROVE IInv'
  BY <1>1 DEF Open, IInv, ThreadsKeepTheirCache, EntriesExact, CachesMade, ClosedStaysEmpty,
     OpenWhileRunning, Isolated, PredictionExact, WorkerType
<1>2. ASSUME NEW t \in Tasks, Nest(t) PROVE IInv'
  BY <1>2 DEF Nest, IInv, ThreadsKeepTheirCache, EntriesExact, CachesMade, ClosedStaysEmpty,
     OpenWhileRunning, Isolated, PredictionExact
<1>3. ASSUME NEW t \in Tasks, LeaveNested(t) PROVE IInv'
  BY <1>3 DEF LeaveNested, IInv, ThreadsKeepTheirCache, EntriesExact, CachesMade,
     ClosedStaysEmpty, OpenWhileRunning, Isolated, PredictionExact
<1>4. ASSUME NEW t \in Tasks, Close(t) PROVE IInv'
  BY <1>4 DEF Close, CloseCache, IInv, ThreadsKeepTheirCache, EntriesExact, CachesMade,
     ClosedStaysEmpty, OpenWhileRunning, Isolated, PredictionExact
<1>5. ASSUME NEW w \in Workers, NEW t \in Tasks, NEW k \in Keys, Start(w, t, k) PROVE IInv'
  <2> DEFINE r == AtWindow(t, current[t], k)
  <2>1. /\ worker' = [worker EXCEPT ![w] = r]
        /\ UNCHANGED <<made, owner, closed, stored, current, depth>>
    BY <1>5 DEF Start, ContextOf
  <2>2. current[t] \in 1..made /\ current[t] \in Caches /\ owner[current[t]] = t
    BY <1>5 DEF Start, IInv, CachesMade, OpenWhileRunning
  <2>3. /\ r \in WorkerType
        /\ r.pc = "get" /\ r.task = t /\ r.cache = current[t] /\ r.key = k /\ r.from = None
    BY <2>2 DEF WorkerType, AtWindow
  <2> HIDE DEF r
  <2> QED
    BY <2>1, <2>2, <2>3, WorkerStep
<1>6. ASSUME NEW w \in Workers, Found(w) PROVE IInv'
  <2> DEFINE c == worker[w].cache
             k == worker[w].key
             r == [worker[w] EXCEPT !.pc = "ready", !.from = owner[c],
                                    !.prediction = stored[c][k]]
  <2>1. /\ worker' = [worker EXCEPT ![w] = r]
        /\ worker[w].pc = "get" /\ k \in DOMAIN stored[c]
        /\ UNCHANGED <<made, owner, closed, stored, current, depth>>
    BY <1>6 DEF Found, Slot
  <2>2. /\ worker[w] \in WorkerType /\ worker[w].task \in Tasks /\ c \in 1..made
        /\ owner[c] = worker[w].task /\ k \in Keys
    BY <2>1 DEF IInv, ThreadsKeepTheirCache
  <2>3. c \in Caches
    BY <2>2 DEF IInv, CachesMade
  <2>4. stored[c][k] = Predicted(k)
    BY <2>1, <2>3 DEF IInv, EntriesExact
  <2>5. /\ r \in WorkerType
        /\ r.pc = "ready" /\ r.task = worker[w].task /\ r.cache = c /\ r.key = k
        /\ r.from = owner[c] /\ r.prediction = Predicted(k)
    BY <2>2, <2>4 DEF WorkerType, Predicted
  <2> HIDE DEF r
  <2> QED
    BY <2>1, <2>2, <2>5, WorkerStep
<1>7. ASSUME NEW w \in Workers, Compute(w) PROVE IInv'
  <2> DEFINE r == [worker[w] EXCEPT !.pc = "put", !.from = worker[w].task,
                                    !.prediction = Predicted(worker[w].key)]
  <2>1. /\ worker' = [worker EXCEPT ![w] = r] /\ worker[w].pc = "get"
        /\ UNCHANGED <<made, owner, closed, stored, current, depth>>
    BY <1>7 DEF Compute
  <2>2. /\ worker[w] \in WorkerType /\ worker[w].task \in Tasks
        /\ worker[w].cache \in 1..made
        /\ owner[worker[w].cache] = worker[w].task /\ worker[w].key \in Keys
    BY <2>1 DEF IInv, ThreadsKeepTheirCache
  <2>3. /\ r \in WorkerType
        /\ r.pc = "put" /\ r.task = worker[w].task /\ r.cache = worker[w].cache
        /\ r.key = worker[w].key /\ r.from = r.task /\ r.prediction = Predicted(r.key)
    BY <2>2 DEF WorkerType, Predicted
  <2> HIDE DEF r
  <2> QED
    BY <2>1, <2>2, <2>3, WorkerStep
<1>8. ASSUME NEW w \in Workers, Put(w) PROVE IInv'
  <2> DEFINE c == worker[w].cache
             k == worker[w].key
             r == [worker[w] EXCEPT !.pc = "ready"]
  <2>1. /\ worker' = [worker EXCEPT ![w] = r] /\ worker[w].pc = "put"
        /\ UNCHANGED <<made, owner, closed, current, depth>>
    BY <1>8 DEF Put
  <2>2. /\ worker[w] \in WorkerType /\ worker[w].task \in Tasks /\ c \in 1..made
        /\ owner[c] = worker[w].task /\ k \in Keys
        /\ worker[w].prediction = Predicted(k) /\ worker[w].from \in {None, worker[w].task}
    BY <2>1 DEF IInv, ThreadsKeepTheirCache, PredictionExact, Isolated
  <2>3. /\ r \in WorkerType
        /\ r.pc = "ready" /\ r.task = worker[w].task /\ r.cache = c /\ r.key = k
        /\ r.from = worker[w].from /\ r.prediction = Predicted(k)
    BY <2>2 DEF WorkerType
  <2>4. \/ stored' = stored
        \/ /\ ~closed[c]
           /\ \E ks \in SUBSET Keys :
                /\ ks \subseteq DOMAIN stored[c] \cup {k}
                /\ stored' = [stored EXCEPT ![c] =
                     [x \in ks |-> IF x = k THEN worker[w].prediction ELSE stored[c][x]]]
    BY <1>8 DEF Put, Accepts, Retains, Slot
  <2> HIDE DEF r
  <2>5. worker' \in [Workers -> WorkerType] /\ ThreadsKeepTheirCache' /\ Isolated' /\ PredictionExact'
    BY <2>1, <2>2, <2>3 DEF IInv, ThreadsKeepTheirCache, Isolated, PredictionExact
  <2>6. CASE stored' = stored
    BY <2>1, <2>5, <2>6 DEF IInv, EntriesExact, CachesMade, ClosedStaysEmpty, OpenWhileRunning
  <2>7. CASE stored' # stored
    <3>1. ~closed[c]
      BY <2>4, <2>7
    <3>2. PICK ks \in SUBSET Keys :
             /\ ks \subseteq DOMAIN stored[c] \cup {k}
             /\ stored' = [stored EXCEPT ![c] =
                  [x \in ks |-> IF x = k THEN worker[w].prediction ELSE stored[c][x]]]
      BY <2>4, <2>7
    <3> DEFINE new == [x \in ks |-> IF x = k THEN worker[w].prediction ELSE stored[c][x]]
    <3>3. c \in Caches
      BY <2>2 DEF IInv, CachesMade
    <3>4. \A x \in DOMAIN new : new[x] = Predicted(x)
      BY <2>2, <3>2, <3>3 DEF IInv, EntriesExact
    <3>5. stored' = [stored EXCEPT ![c] = new]
      BY <3>2
    <3> HIDE DEF new
    <3>6. /\ DOMAIN stored' = Caches /\ stored'[c] = new
          /\ \A d \in Caches : d # c => stored'[d] = stored[d]
      BY <3>3, <3>5 DEF IInv
    <3>7. EntriesExact'
      BY <3>4, <3>6 DEF IInv, EntriesExact, Predicted
    <3>8. CachesMade'
      BY <2>1, <2>2, <3>6 DEF IInv, CachesMade
    <3>9. ClosedStaysEmpty'
      BY <2>1, <3>1, <3>6 DEF IInv, ClosedStaysEmpty
    <3>10. OpenWhileRunning'
      BY <2>1 DEF IInv, OpenWhileRunning
    <3> QED
      BY <2>1, <2>5, <3>6, <3>7, <3>8, <3>9, <3>10 DEF IInv
  <2> QED
    BY <2>6, <2>7
<1>9. ASSUME NEW w \in Workers, NEW k \in Keys, Again(w, k) PROVE IInv'
  BY <1>9 DEF Again, AtWindow, IInv, ThreadsKeepTheirCache, EntriesExact, CachesMade,
     ClosedStaysEmpty, OpenWhileRunning, Isolated, PredictionExact, WorkerType
<1>10. ASSUME NEW w \in Workers, End(w) PROVE IInv'
  BY <1>10 DEF End, Free, IInv, ThreadsKeepTheirCache, EntriesExact, CachesMade,
     ClosedStaysEmpty, OpenWhileRunning, Isolated, PredictionExact, WorkerType
<1>11. CASE UNCHANGED cacheVars
  BY <1>11 DEF cacheVars, IInv, ThreadsKeepTheirCache, EntriesExact, CachesMade, ClosedStaysEmpty,
     OpenWhileRunning, Isolated, PredictionExact
<1> QED
  BY <1>1, <1>2, <1>3, <1>4, <1>5, <1>6, <1>7, <1>8, <1>9, <1>10, <1>11 DEF CacheNext

LEMMA Inductive == CacheSpec => []IInv
BY InitInv, StepInv, PTL DEF CacheSpec

\* No prediction outlives its request, late threads included.
THEOREM NothingOutlivesTheRequest == CacheSpec => []ClosedStaysEmpty
BY Inductive, PTL DEF IInv

\* A request's cache is open, and its own, for as long as the request runs.
THEOREM ScopeLastsAsLongAsTheRequest == CacheSpec => []OpenWhileRunning
BY Inductive, PTL DEF IInv

\* A thread only ever uses predictions made for the request that started it.
THEOREM RequestsShareNothing == CacheSpec => []Isolated
BY Inductive, PTL DEF IInv

\* Reuse changes nothing: a prediction is the model's answer for that window.
THEOREM ReuseIsExact == CacheSpec => []PredictionExact
BY Inductive, PTL DEF IInv

-----------------------------------------------------------------------------
(* Detections *)

LEMMA EntityFacts ==
    ASSUME NEW e \in Entity
    PROVE  /\ e.start \in Nat /\ e.end \in Nat /\ e.start < e.end /\ e.end <= TextEnd
           /\ e.type \in Types /\ e.score \in Nat
<1>1. TextEnd \in Nat /\ Scores \subseteq Nat
  BY MergeConstantsOK
<1>2. /\ e \in [type : Types, start : 0..TextEnd, end : 0..TextEnd,
                score : Scores, source : Sources]
      /\ e.start < e.end
  BY DEF Entity
<1>3. e.type \in Types /\ e.score \in Nat
  BY <1>1, <1>2
<1>4. e.start \in 0..TextEnd /\ e.end \in 0..TextEnd
  BY <1>2
<1>5. e.start \in Nat /\ e.end \in Nat /\ e.end <= TextEnd
  BY <1>1, <1>4
<1> QED
  BY <1>2, <1>3, <1>5

LEMMA PriorityType == ASSUME NEW t PROVE Priority(t) \in {0, 1, 2}
BY DEF Priority

\* What replaces the last merged span: the union of the two spans, under a type of one
\* of them that is as strict as both.
LEMMA WidenedFacts ==
    ASSUME NEW a \in Entity, NEW b \in Entity, a.start <= b.start, b.start < a.end
    PROVE  LET w == Widened(a, b) IN
           /\ w \in Entity
           /\ w.start = a.start
           /\ w.end >= a.end /\ w.end >= b.end
           /\ w.end = a.end \/ w.end = b.end
           /\ w.type = a.type \/ w.type = b.type
           /\ Priority(a.type) <= Priority(w.type) /\ Priority(b.type) <= Priority(w.type)
<1> DEFINE w == Widened(a, b)
           x == Winner(a, b)
           m == IF a.end >= b.end THEN a.end ELSE b.end
<1>1. x \in {a, b}
  BY DEF Winner
<1>2. Priority(a.type) <= Priority(x.type) /\ Priority(b.type) <= Priority(x.type)
  BY PriorityType DEF Winner, Keeps
<1>3. /\ m \in 0..TextEnd /\ a.start < m /\ m >= a.end /\ m >= b.end
      /\ m = a.end \/ m = b.end
  BY EntityFacts, MergeConstantsOK
<1>4. w = [type |-> x.type, start |-> a.start, end |-> m, score |-> x.score,
           source |-> x.source]
  <2>1. x \in Entity
    BY <1>1
  <2> HIDE DEF x
  <2>2. w = [x EXCEPT !.start = a.start, !.end = m]
    BY DEF Widened, x
  <2> QED
    BY <2>1, <2>2 DEF Entity
<1>5. w \in Entity
  BY <1>1, <1>3, <1>4 DEF Entity
<1> QED
  BY <1>1, <1>2, <1>3, <1>4, <1>5

\* A set of indexes that is closed downwards is an interval from 1.
LEMMA InitialSegment ==
    ASSUME NEW n \in Nat, NEW S \in SUBSET (1..n), \A i \in S : \A j \in 1..i : j \in S
    PROVE  S = 1..Cardinality(S)
<1> DEFINE c == Cardinality(S)
<1>1. IsFiniteSet(S) /\ c \in Nat
  <2>1. IsFiniteSet(1..n)
    BY FS_Interval
  <2>2. IsFiniteSet(S)
    BY <2>1, FS_Subset
  <2> QED
    BY <2>2, FS_CardinalityType
<1>2. ASSUME NEW i \in S PROVE i <= c
  <2>1. 1..i \subseteq S /\ Cardinality(1..i) = i
    BY FS_Interval
  <2> QED
    BY <1>1, <2>1, FS_Subset
<1>3. S \subseteq 1..c
  BY <1>1, <1>2
<1>4. IsFiniteSet(1..c) /\ Cardinality(1..c) = c
  BY <1>1, FS_Interval
<1> QED
  BY <1>3, <1>4, FS_Subset

-----------------------------------------------------------------------------
(* The loop of the merge *)

Done == Kept \ todo

\* The merged spans so far start no later than what is still to come.
Frontier == \A e \in todo : \A i \in 1..Len(merged) : merged[i].start <= e.start

Disjoint == \A i, j \in 1..Len(merged) : i < j => merged[i].end <= merged[j].start

Covered ==
    \A e \in Done : \E i \in 1..Len(merged) :
        merged[i].start <= e.start /\ e.end <= merged[i].end

Grounded ==
    \A i \in 1..Len(merged) : \A p \in merged[i].start..merged[i].end - 1 :
        \E e \in Done : e.start <= p /\ p < e.end

Named == \A i \in 1..Len(merged) : \E e \in Done : Overlap(e, merged[i]) /\ e.type = merged[i].type

Strictest ==
    \A i \in 1..Len(merged) : \A e \in Done :
        Overlap(e, merged[i]) => Priority(e.type) <= Priority(merged[i].type)

MergeType ==
    /\ raw \in SUBSET Entity /\ todo \in SUBSET Kept /\ merged \in Seq(Entity)
    /\ pc = "detecting" => raw = {} /\ merged = <<>>
    /\ pc \in {"exempt", "report"} => todo = {}

MergeInv == MergeType /\ Frontier /\ Disjoint /\ Covered /\ Grounded /\ Named /\ Strictest

LEMMA KeptRaw == Kept \subseteq raw
BY DEF Kept, Confirmed

LEMMA MergeInitInv == MergeInit => MergeInv
<1> SUFFICES ASSUME MergeInit PROVE MergeInv
  OBVIOUS
<1>1. Kept = {} /\ Len(merged) = 0
  BY KeptRaw DEF MergeInit
<1> QED
  BY <1>1 DEF MergeInit, MergeInv, MergeType, Frontier, Disjoint, Covered, Grounded, Named,
     Strictest, Done

LEMMA GatherInv ==
    ASSUME MergeInv, NEW R \in SUBSET Entity, Gather(R)
    PROVE  MergeInv'
<1>1. Kept' = todo' /\ merged' = <<>> /\ Len(merged') = 0
  BY DEF Gather, Kept, configVars, MergeInv, MergeType
<1>2. Done' = {}
  BY <1>1 DEF Done
<1> QED
  BY <1>1, <1>2 DEF Gather, MergeInv, MergeType, Frontier, Disjoint, Covered, Grounded, Named,
     Strictest

\* The merge goes through the detections by their start.
LEMMA NextStarts ==
    ASSUME MergeInv, NEW e \in todo, \A f \in todo : ~Before(f, e)
    PROVE  \A f \in todo : e.start <= f.start
BY EntityFacts, KeptRaw DEF Before, MergeInv, MergeType

\* A detection beyond the last merged span begins a span of its own.
LEMMA AppendInv ==
    ASSUME MergeInv, NEW e, MergeOne(e),
           Len(merged) > 0 => merged[Len(merged)].end <= e.start
    PROVE  MergeInv'
<1> DEFINE n == Len(merged)
<1>1. /\ e \in todo /\ e \in Entity /\ e \in Kept /\ todo \subseteq Entity
      /\ \A f \in todo : e.start <= f.start
      /\ todo' = todo \ {e} /\ Kept' = Kept /\ raw' = raw /\ pc' = pc
  BY NextStarts, KeptRaw DEF MergeOne, MergeInv, MergeType, Kept, configVars
<1>2. merged' = Append(merged, e)
  <2>1. Len(merged) > 0 => ~(e.start < merged[Len(merged)].end)
    <3> SUFFICES ASSUME Len(merged) > 0 PROVE ~(e.start < merged[Len(merged)].end)
      OBVIOUS
    <3>1. merged[Len(merged)] \in Entity
      BY DEF MergeInv, MergeType
    <3> QED
      BY <3>1, <1>1, EntityFacts
  <2> QED
    BY <2>1 DEF MergeOne
<1>3. /\ merged \in Seq(Entity) /\ n \in Nat
      /\ merged' \in Seq(Entity) /\ Len(merged') = n + 1
      /\ \A i \in 1..n : merged'[i] = merged[i]
      /\ merged'[n + 1] = e
  BY <1>1, <1>2, AppendProperties DEF MergeInv, MergeType
<1>4. /\ \A i \in 1..n : merged[i] \in Entity /\ merged[i].end <= e.start
      /\ \A i \in 1..n : merged[i].start <= e.start
  <2> SUFFICES ASSUME NEW i \in 1..n
               PROVE  merged[i] \in Entity /\ merged[i].end <= e.start /\ merged[i].start <= e.start
    OBVIOUS
  <2>1. merged[i] \in Entity /\ merged[n] \in Entity
    BY <1>3
  <2>2. i < n => merged[i].end <= merged[n].start
    BY <1>3 DEF MergeInv, Disjoint
  <2> QED
    BY <2>1, <2>2, <1>1, <1>3, EntityFacts
<1>5. Done' = Done \cup {e}
  BY <1>1 DEF Done
<1>6. Done \subseteq Entity
  BY KeptRaw DEF Done, MergeInv, MergeType
<1> HIDE DEF n
<1>7. MergeType'
  BY <1>1, <1>3 DEF MergeInv, MergeType, MergeOne
<1>8. Frontier'
  <2> SUFFICES ASSUME NEW f \in todo', NEW i \in 1..n + 1
               PROVE  merged'[i].start <= f.start
    BY <1>3 DEF Frontier
  <2>1. CASE i \in 1..n
    BY <2>1, <1>1, <1>3 DEF Frontier, MergeInv, n
  <2>2. CASE i = n + 1
    BY <2>2, <1>1, <1>3
  <2> QED
    BY <2>1, <2>2, <1>3
<1>9. Disjoint'
  BY <1>3, <1>4 DEF Disjoint, MergeInv, n
<1>10. Covered'
  <2> SUFFICES ASSUME NEW f \in Done'
               PROVE  \E i \in 1..n + 1 : merged'[i].start <= f.start /\ f.end <= merged'[i].end
    BY <1>3 DEF Covered
  <2>1. CASE f = e
    BY <2>1, <1>1, <1>3, EntityFacts
  <2>2. CASE f \in Done
    <3>1. PICK i \in 1..n : merged[i].start <= f.start /\ f.end <= merged[i].end
      BY <2>2 DEF Covered, MergeInv, n
    <3> QED
      BY <3>1, <1>3
  <2> QED
    BY <2>1, <2>2, <1>5
<1>11. Grounded'
  <2> SUFFICES ASSUME NEW i \in 1..n + 1, NEW p \in merged'[i].start..merged'[i].end - 1
               PROVE  \E f \in Done' : f.start <= p /\ p < f.end
    BY <1>3 DEF Grounded
  <2>1. CASE i = n + 1
    <3>1. p \in e.start..e.end - 1
      BY <2>1, <1>3
    <3> QED
      BY <3>1, <1>1, <1>5, EntityFacts
  <2>2. CASE i \in 1..n
    <3>1. PICK f \in Done : f.start <= p /\ p < f.end
      BY <2>2, <1>3 DEF Grounded, MergeInv, n
    <3> QED
      BY <3>1, <1>5
  <2> QED
    BY <2>1, <2>2, <1>3
<1>12. Named'
  <2> SUFFICES ASSUME NEW i \in 1..n + 1
               PROVE  \E f \in Done' : Overlap(f, merged'[i]) /\ f.type = merged'[i].type
    BY <1>3 DEF Named
  <2>1. CASE i = n + 1
    BY <2>1, <1>1, <1>3, <1>5, EntityFacts DEF Overlap
  <2>2. CASE i \in 1..n
    BY <2>2, <1>3, <1>5 DEF Named, MergeInv, n
  <2> QED
    BY <2>1, <2>2, <1>3
<1>13. Strictest'
  <2> SUFFICES ASSUME NEW i \in 1..n + 1, NEW f \in Done', Overlap(f, merged'[i])
               PROVE  Priority(f.type) <= Priority(merged'[i].type)
    BY <1>3 DEF Strictest
  <2>1. CASE i \in 1..n /\ f \in Done
    BY <2>1, <1>3 DEF Strictest, MergeInv, n
  <2>2. CASE i \in 1..n /\ f = e
    <3>1. merged[i].end <= e.start /\ merged[i] \in Entity
      BY <2>2, <1>4
    <3> QED
      BY <2>2, <3>1, <1>3, <1>1, EntityFacts DEF Overlap
  <2>3. CASE i = n + 1 /\ f = e
    BY <2>3, <1>3, PriorityType
  <2>4. CASE i = n + 1 /\ f \in Done
    <3>1. PICK j \in 1..n : merged[j].start <= f.start /\ f.end <= merged[j].end
      BY <2>4 DEF Covered, MergeInv, n
    <3>2. f \in Entity /\ merged[j] \in Entity /\ merged[j].end <= e.start
      BY <2>4, <3>1, <1>4, <1>6
    <3> QED
      BY <2>4, <3>1, <3>2, <1>1, <1>3, EntityFacts DEF Overlap
  <2> QED
    BY <2>1, <2>2, <2>3, <2>4, <1>3, <1>5
<1> QED
  BY <1>7, <1>8, <1>9, <1>10, <1>11, <1>12, <1>13 DEF MergeInv

\* A detection that overlaps the last merged span widens it.
LEMMA WidenInv ==
    ASSUME MergeInv, NEW e, MergeOne(e),
           Len(merged) > 0, e.start < merged[Len(merged)].end
    PROVE  MergeInv'
<1> DEFINE n == Len(merged)
           a == merged[n]
           w == Widened(a, e)
<1>1. /\ e \in todo /\ e \in Entity /\ e \in Kept /\ todo \subseteq Entity
      /\ \A f \in todo : e.start <= f.start
      /\ todo' = todo \ {e} /\ Kept' = Kept /\ raw' = raw /\ pc' = pc
  BY NextStarts, KeptRaw DEF MergeOne, MergeInv, MergeType, Kept, configVars
<1>2. /\ merged \in Seq(Entity) /\ n \in Nat /\ n \in 1..n /\ a \in Entity
      /\ \A i \in 1..n : merged[i] \in Entity
  BY DEF MergeInv, MergeType
<1>3. a.start <= e.start /\ e.start < a.end
  BY <1>1, <1>2 DEF MergeInv, Frontier
<1>4. /\ w \in Entity /\ w.start = a.start /\ w.end >= a.end /\ w.end >= e.end
      /\ w.end = a.end \/ w.end = e.end
      /\ w.type = a.type \/ w.type = e.type
      /\ Priority(a.type) <= Priority(w.type) /\ Priority(e.type) <= Priority(w.type)
  BY <1>1, <1>2, <1>3, WidenedFacts
<1>5. /\ merged' \in Seq(Entity) /\ Len(merged') = n
      /\ \A i \in 1..n : i < n => merged'[i] = merged[i]
      /\ merged'[n] = w
  <2>1. merged' = [merged EXCEPT ![n] = w]
    BY DEF MergeOne
  <2> HIDE DEF w, n
  <2> QED
    BY <2>1, <1>2, <1>4, ExceptSeq DEF n
<1>6. Done' = Done \cup {e}
  BY <1>1 DEF Done
<1>7. Done \subseteq Entity
  BY KeptRaw DEF Done, MergeInv, MergeType
\* The spans before the last end before it, and before e.
<1>8. \A i \in 1..n : i < n => merged[i].end <= a.start
  BY <1>2 DEF MergeInv, Disjoint
<1> HIDE DEF n, w, a
<1>9. MergeType'
  BY <1>1, <1>5 DEF MergeInv, MergeType, MergeOne
<1>10. Frontier'
  <2> SUFFICES ASSUME NEW f \in todo', NEW i \in 1..n
               PROVE  merged'[i].start <= f.start
    BY <1>5 DEF Frontier
  <2>1. CASE i < n
    BY <2>1, <1>1, <1>5 DEF Frontier, MergeInv, n
  <2>2. CASE i = n
    BY <2>2, <1>1, <1>2, <1>4, <1>5 DEF Frontier, MergeInv, n, a
  <2> QED
    BY <2>1, <2>2, <1>2
<1>11. Disjoint'
  <2> SUFFICES ASSUME NEW i \in 1..n, NEW j \in 1..n, i < j
               PROVE  merged'[i].end <= merged'[j].start
    BY <1>5 DEF Disjoint
  <2>1. merged'[i] = merged[i] /\ merged[i].end <= merged[j].start
    BY <1>2, <1>5 DEF Disjoint, MergeInv, n
  <2>2. merged'[j].start = merged[j].start
    BY <1>2, <1>4, <1>5 DEF a
  <2> QED
    BY <2>1, <2>2
<1>12. Covered'
  <2> SUFFICES ASSUME NEW f \in Done'
               PROVE  \E i \in 1..n : merged'[i].start <= f.start /\ f.end <= merged'[i].end
    BY <1>5 DEF Covered
  <2>1. CASE f = e
    <3>1. merged'[n].start <= f.start /\ f.end <= merged'[n].end
      BY <2>1, <1>1, <1>3, <1>4, <1>5, EntityFacts
    <3> QED
      BY <3>1, <1>2
  <2>2. CASE f \in Done
    <3>1. PICK i \in 1..n : merged[i].start <= f.start /\ f.end <= merged[i].end
      BY <2>2 DEF Covered, MergeInv, n
    <3>2. f \in Entity
      BY <2>2, <1>7
    <3>3. CASE i < n
      BY <3>1, <3>3, <1>5
    <3>4. CASE i = n
      <4>1. a.start <= f.start /\ f.end <= a.end
        BY <3>1, <3>4 DEF a
      <4>2. f.end <= w.end
        BY <4>1, <3>2, <1>2, <1>4, EntityFacts
      <4> QED
        BY <3>4, <4>1, <4>2, <1>4, <1>5
    <3> QED
      BY <3>3, <3>4, <1>2
  <2> QED
    BY <2>1, <2>2, <1>6
<1>13. Grounded'
  <2> SUFFICES ASSUME NEW i \in 1..n, NEW p \in merged'[i].start..merged'[i].end - 1
               PROVE  \E f \in Done' : f.start <= p /\ p < f.end
    BY <1>5 DEF Grounded
  <2>1. CASE p \in merged[i].start..merged[i].end - 1
    <3>1. PICK f \in Done : f.start <= p /\ p < f.end
      BY <2>1 DEF Grounded, MergeInv, n
    <3> QED
      BY <3>1, <1>6
  <2>2. CASE p \notin merged[i].start..merged[i].end - 1
    <3>1. i = n
      BY <2>2, <1>2, <1>5
    <3>2. p \in Int /\ p >= a.start /\ p <= w.end - 1 /\ ~(p <= a.end - 1)
      BY <2>2, <3>1, <1>2, <1>4, <1>5, EntityFacts DEF a
    <3>3. e.start <= p /\ p < e.end
      BY <3>2, <1>1, <1>2, <1>3, <1>4, EntityFacts
    <3> QED
      BY <3>3, <1>6
  <2> QED
    BY <2>1, <2>2
<1>14. Named'
  <2> SUFFICES ASSUME NEW i \in 1..n
               PROVE  \E f \in Done' : Overlap(f, merged'[i]) /\ f.type = merged'[i].type
    BY <1>5 DEF Named
  <2>1. PICK f \in Done : Overlap(f, merged[i]) /\ f.type = merged[i].type
    BY DEF Named, MergeInv, n
  <2>2. CASE i < n
    BY <2>1, <2>2, <1>5, <1>6
  <2>3. CASE i = n
    <3>1. Overlap(f, w)
      BY <2>1, <2>3, <1>2, <1>4, <1>7, EntityFacts DEF Overlap, a
    <3>2. Overlap(e, w)
      BY <1>1, <1>2, <1>3, <1>4, EntityFacts DEF Overlap
    <3> QED
      BY <2>1, <2>3, <3>1, <3>2, <1>4, <1>5, <1>6 DEF a
  <2> QED
    BY <2>2, <2>3, <1>2
<1>15. Strictest'
  <2> SUFFICES ASSUME NEW i \in 1..n, NEW f \in Done', Overlap(f, merged'[i])
               PROVE  Priority(f.type) <= Priority(merged'[i].type)
    BY <1>5 DEF Strictest
  <2>1. CASE i < n /\ f \in Done
    BY <2>1, <1>5 DEF Strictest, MergeInv, n
  <2>2. CASE i < n /\ f = e
    <3>1. merged[i].end <= a.start /\ merged[i] \in Entity
      BY <2>2, <1>2, <1>8
    <3> QED
      BY <2>2, <3>1, <1>1, <1>2, <1>3, <1>5, EntityFacts DEF Overlap
  <2>3. CASE i = n /\ f = e
    BY <2>3, <1>4, <1>5
  <2>4. CASE i = n /\ f \in Done
    <3>1. PICK j \in 1..n : merged[j].start <= f.start /\ f.end <= merged[j].end
      BY <2>4 DEF Covered, MergeInv, n
    <3>2. f \in Entity /\ merged[j] \in Entity
      BY <2>4, <3>1, <1>2, <1>7
    <3>3. j = n
      <4> SUFFICES ASSUME j < n PROVE FALSE
        BY <1>2
      <4>1. merged[j].end <= a.start
        BY <1>8
      <4> QED
        BY <2>4, <3>1, <3>2, <4>1, <1>2, <1>4, <1>5, EntityFacts DEF Overlap
    <3>4. Overlap(f, a)
      BY <3>1, <3>2, <3>3, <1>2, EntityFacts DEF Overlap, a
    <3>5. Priority(f.type) <= Priority(a.type)
      BY <3>4, <2>4, <1>2 DEF Strictest, MergeInv, n, a
    <3> QED
      BY <3>5, <2>4, <1>4, <1>5, PriorityType
  <2> QED
    BY <2>1, <2>2, <2>3, <2>4, <1>2, <1>6
<1> QED
  BY <1>9, <1>10, <1>11, <1>12, <1>13, <1>14, <1>15 DEF MergeInv

\* Every step that leaves the detections and the merged spans alone.
LEMMA OtherInv ==
    ASSUME MergeInv, UNCHANGED <<strategy, raw, todo, merged>>,
           pc' # "detecting", pc' \in {"exempt", "report"} => todo = {}
    PROVE  MergeInv'
<1>1. Kept' = Kept /\ Done' = Done
  BY DEF Kept, Done
<1> QED
  BY <1>1 DEF MergeInv, MergeType, Frontier, Disjoint, Covered, Grounded, Named, Strictest

LEMMA MergeStepInv == MergeInv /\ [MergeNext]_mergeVars => MergeInv'
<1> SUFFICES ASSUME MergeInv, [MergeNext]_mergeVars PROVE MergeInv'
  OBVIOUS
<1>1. CASE \E R \in SUBSET Entity : Gather(R)
  BY <1>1, GatherInv
<1>2. CASE DetectorFails
  BY <1>2, OtherInv DEF DetectorFails, configVars
<1>3. ASSUME NEW e \in todo, MergeOne(e) PROVE MergeInv'
  <2>1. CASE Len(merged) > 0 /\ e.start < merged[Len(merged)].end
    BY <1>3, <2>1, WidenInv
  <2>2. CASE ~(Len(merged) > 0 /\ e.start < merged[Len(merged)].end)
    <3>1. Len(merged) > 0 => merged[Len(merged)].end <= e.start
      <4> SUFFICES ASSUME Len(merged) > 0 PROVE merged[Len(merged)].end <= e.start
        OBVIOUS
      <4>1. merged[Len(merged)] \in Entity /\ e \in Entity
        BY KeptRaw DEF MergeInv, MergeType
      <4> QED
        BY <2>2, <4>1, EntityFacts
    <3> QED
      BY <1>3, <3>1, AppendInv
  <2> QED
    BY <2>1, <2>2
<1>4. CASE MergeEnds
  BY <1>4, OtherInv DEF MergeEnds, configVars
<1>5. ASSUME NEW e \in raw, Weigh(e) PROVE MergeInv'
  BY <1>5, OtherInv DEF Weigh, configVars, MergeInv, MergeType
<1>6. CASE Report
  BY <1>6, OtherInv DEF Report, configVars, MergeInv, MergeType
<1>7. CASE UNCHANGED mergeVars
  BY <1>7 DEF mergeVars, configVars, MergeInv, MergeType, Frontier, Disjoint, Covered, Grounded,
     Named, Strictest, Done, Kept
<1> QED
  BY <1>1, <1>2, <1>3, <1>4, <1>5, <1>6, <1>7 DEF MergeNext, Process

THEOREM MergeInvariant == MergeSpec => []MergeInv
BY MergeInitInv, MergeStepInv, PTL DEF MergeSpec

\* The merged spans of any detections are disjoint, cover every detection that counts
\* and nothing else: _merge_union never leaves the rest of a longer detection unmasked.
THEOREM MergesExactly == MergeSpec => []MergeExact
<1>1. MergeInv => MergeExact
  <2> SUFFICES ASSUME MergeInv, Merged PROVE MergeExact
    BY DEF MergeExact
  <2>1. Done = Kept
    BY DEF MergeInv, MergeType, Merged, Done
  <2> QED
    BY <2>1 DEF MergeExact, MergeInv, Disjoint, Covered, Grounded
<1> QED
  BY <1>1, MergeInvariant, PTL

\* A merged span is as strict as every detection under it, for any policies, scores and
\* overlap resolution: type_priorities outrank the contest of _resolve_overlap.
THEOREM StrictestPolicyWins == MergeSpec => []PolicyWins
<1>1. MergeInv => PolicyWins
  <2> SUFFICES ASSUME MergeInv, Merged PROVE PolicyWins
    BY DEF PolicyWins
  <2>1. Done = Kept
    BY DEF MergeInv, MergeType, Merged, Done
  <2> QED
    BY <2>1 DEF PolicyWins, MergeInv, Named, Strictest
<1> QED
  BY <1>1, MergeInvariant, PTL

-----------------------------------------------------------------------------
(* The allow list *)

LEMMA MergedType ==
    ASSUME MergeInv
    PROVE  Len(merged) \in Nat /\ \A i \in 1..Len(merged) : merged[i] \in Entity
BY DEF MergeInv, MergeType

\* The two bisections of apply_allow_list find the spans a detection overlaps.
LEMMA TouchedOverlap ==
    ASSUME MergeInv, NEW e \in Entity
    PROVE  Touched(e) = {i \in 1..Len(merged) : Overlap(merged[i], e)}
<1> DEFINE n == Len(merged)
           before == {i \in 1..n : merged[i].end <= e.start}
           until == {i \in 1..n : merged[i].start < e.end}
<1>1. n \in Nat /\ \A i \in 1..n : merged[i] \in Entity
  BY MergedType
<1>2. ASSUME NEW i \in 1..n, NEW j \in 1..i
      PROVE  merged[j].end <= merged[i].end /\ merged[j].start <= merged[i].start
  <2>1. j < i => merged[j].end <= merged[i].start
    BY <1>1, <1>2 DEF MergeInv, Disjoint
  <2>2. merged[i] \in Entity /\ merged[j] \in Entity
    BY <1>1, <1>2
  <2> QED
    BY <2>1, <2>2, <1>1, <1>2, EntityFacts
<1>3. before = 1..Cardinality(before)
  <2>1. \A i \in before : \A j \in 1..i : j \in before
    <3> SUFFICES ASSUME NEW i \in before, NEW j \in 1..i PROVE j \in before
      OBVIOUS
    <3>1. i \in 1..n /\ j \in 1..n /\ merged[j].end <= merged[i].end /\ merged[i].end <= e.start
      BY <1>1, <1>2
    <3>2. merged[j].end \in Nat /\ merged[i].end \in Nat /\ e.start \in Nat
      BY <3>1, <1>1, EntityFacts
    <3> QED
      BY <3>1, <3>2
  <2> QED
    BY <2>1, <1>1, InitialSegment
<1>4. until = 1..Cardinality(until)
  <2>1. \A i \in until : \A j \in 1..i : j \in until
    <3> SUFFICES ASSUME NEW i \in until, NEW j \in 1..i PROVE j \in until
      OBVIOUS
    <3>1. i \in 1..n /\ j \in 1..n /\ merged[j].start <= merged[i].start /\ merged[i].start < e.end
      BY <1>1, <1>2
    <3>2. merged[j].start \in Nat /\ merged[i].start \in Nat /\ e.end \in Nat
      BY <3>1, <1>1, EntityFacts
    <3> QED
      BY <3>1, <3>2
  <2> QED
    BY <2>1, <1>1, InitialSegment
<1>5. Cardinality(before) \in Nat /\ Cardinality(until) \in Nat
  <2>1. IsFiniteSet(1..n)
    BY <1>1, FS_Interval
  <2>2. IsFiniteSet(before) /\ IsFiniteSet(until)
    BY <2>1, FS_Subset
  <2> QED
    BY <2>2, FS_CardinalityType
<1>6. CASE SortedAndDisjoint
  <2>1. Touched(e) = Cardinality(before) + 1 .. Cardinality(until)
    BY <1>6 DEF Touched
  <2>2. Cardinality(before) + 1 .. Cardinality(until) = until \ before
    <3> DEFINE b == Cardinality(before)
               u == Cardinality(until)
    <3>1. b \in Nat /\ u \in Nat /\ before = 1..b /\ until = 1..u
      BY <1>3, <1>4, <1>5
    <3> HIDE DEF b, u, before, until
    <3>2. b + 1 .. u = until \ before
      BY <3>1
    <3> QED
      BY <3>2 DEF b, u
  <2>3. \A i \in 1..n : Overlap(merged[i], e) <=> i \in until /\ i \notin before
    <3> SUFFICES ASSUME NEW i \in 1..n
                 PROVE  Overlap(merged[i], e) <=> i \in until /\ i \notin before
      OBVIOUS
    <3>1. merged[i].end \in Nat /\ e.start \in Nat
      BY <1>1, EntityFacts
    <3> QED
      BY <3>1 DEF Overlap
  <2> QED
    BY <2>1, <2>2, <2>3
<1>7. CASE ~SortedAndDisjoint
  BY <1>7 DEF Touched
<1> QED
  BY <1>6, <1>7

\* What the loop of the allow list knows of the detections it has looked at.
VerdictOf(i) ==
    /\ verdict[i] \in {"none", "allowed", "refused"}
    /\ verdict[i] = "none" <=> \A e \in weighed : ~Overlap(merged[i], e)
    /\ verdict[i] = "refused" <=> \E e \in weighed : Overlap(merged[i], e) /\ ~Exempt(e)

AllowedSoFar ==
    allowedUnder = {i \in 1..Len(merged) : \E e \in weighed : Exempt(e) /\ Overlap(merged[i], e)}
RefusedSoFar ==
    refused = {e \in weighed : ~Exempt(e) /\ \E i \in 1..Len(merged) : Overlap(merged[i], e)}

AllowInv ==
    /\ pc \in {"detecting", "merge", "failed"} => weighed = {} /\ allowedUnder = {} /\ refused = {}
    /\ pc = "exempt" =>
         /\ weighed \subseteq raw
         /\ verdict \in [1..Len(merged) -> {"none", "allowed", "refused"}]
         /\ \A i \in 1..Len(merged) : VerdictOf(i)
         /\ AllowedSoFar /\ RefusedSoFar
    /\ LetThroughExactly

LEMMA WeighInv ==
    ASSUME MergeInv, AllowInv, NEW e \in raw, Weigh(e)
    PROVE  AllowInv'
<1> DEFINE n == Len(merged)
<1>1. /\ pc = "exempt" /\ pc' = pc /\ raw' = raw /\ merged' = merged /\ rules' = rules
      /\ weighed' = weighed \cup {e} /\ e \in Entity
  BY DEF Weigh, configVars, MergeInv, MergeType
<1>2. \A f : Exempt(f)' <=> Exempt(f)
  BY <1>1 DEF Exempt
<1>3. Touched(e) = {i \in 1..n : Overlap(merged[i], e)}
  BY <1>1, TouchedOverlap
<1>4. /\ weighed \subseteq raw /\ verdict \in [1..n -> {"none", "allowed", "refused"}]
      /\ \A i \in 1..n : VerdictOf(i)
      /\ AllowedSoFar /\ RefusedSoFar
  BY <1>1 DEF AllowInv
<1>5. \A i \in 1..n :
         verdict'[i] = IF ~Overlap(merged[i], e) THEN verdict[i]
                       ELSE IF Exempt(e) /\ verdict[i] # "refused" THEN "allowed" ELSE "refused"
  BY <1>3, <1>4 DEF Weigh
<1>6. verdict' \in [1..n -> {"none", "allowed", "refused"}]
  BY <1>4 DEF Weigh
<1>7. ASSUME NEW i \in 1..n PROVE VerdictOf(i)'
  <2>1. VerdictOf(i)
    BY <1>4
  <2>2. verdict'[i] \in {"none", "allowed", "refused"}
    BY <1>6
  <2>3. CASE ~Overlap(merged[i], e)
    BY <2>1, <2>2, <2>3, <1>1, <1>2, <1>5 DEF VerdictOf
  <2>4. CASE Overlap(merged[i], e)
    BY <2>1, <2>2, <2>4, <1>1, <1>2, <1>5 DEF VerdictOf
  <2> QED
    BY <2>3, <2>4
<1>8. AllowedSoFar'
  <2>1. CASE Exempt(e)
    BY <2>1, <1>1, <1>2, <1>3, <1>4 DEF Weigh, AllowedSoFar
  <2>2. CASE ~Exempt(e)
    BY <2>2, <1>1, <1>2, <1>3, <1>4 DEF Weigh, AllowedSoFar
  <2> QED
    BY <2>1, <2>2
<1>9. RefusedSoFar'
  <2>1. CASE Exempt(e) \/ Touched(e) = {}
    BY <2>1, <1>1, <1>2, <1>3, <1>4 DEF Weigh, RefusedSoFar
  <2>2. CASE ~(Exempt(e) \/ Touched(e) = {})
    BY <2>2, <1>1, <1>2, <1>3, <1>4 DEF Weigh, RefusedSoFar
  <2> QED
    BY <2>1, <2>2
<1> QED
  BY <1>1, <1>4, <1>6, <1>7, <1>8, <1>9 DEF AllowInv, LetThroughExactly

\* Once every detection was looked at, the report follows from the verdicts.
LEMMA ReportInv ==
    ASSUME MergeInv, AllowInv, Report
    PROVE  AllowInv'
<1> DEFINE n == Len(merged)
           Under(m) == {e \in raw : Overlap(m, e)}
<1>1. /\ pc = "exempt" /\ pc' = "report" /\ weighed = raw
      /\ raw' = raw /\ merged' = merged /\ rules' = rules
      /\ \A i \in 1..n : VerdictOf(i)
      /\ AllowedSoFar /\ RefusedSoFar /\ raw \subseteq Entity
  BY DEF Report, configVars, AllowInv, MergeInv, MergeType
<1>2. \A e : Exempt(e)' <=> Exempt(e)
  BY <1>1 DEF Exempt
<1>3. \A i \in 1..n : verdict[i] = "allowed" <=>
         Under(merged[i]) # {} /\ \A e \in Under(merged[i]) : Exempt(e)
  BY <1>1 DEF VerdictOf
<1>4. DOMAIN merged = 1..n
  BY DEF MergeInv, MergeType
<1>5. report'.allowed =
         {m \in Elements(merged) : Under(m) # {} /\ \A e \in Under(m) : Exempt(e)}
  BY <1>3, <1>4 DEF Report, Elements
<1>6. report'.redacted = Elements(merged) \ report'.allowed
  BY <1>3, <1>4, <1>5 DEF Report, Elements
<1>7. report'.notAllowed =
         {e \in raw : ~Exempt(e) /\ \E m \in Elements(merged) :
                         Overlap(m, e) /\ \E f \in Under(m) : Exempt(f)}
  <2>1. \A e \in raw : Touched(e) = {i \in 1..n : Overlap(merged[i], e)}
    BY <1>1, TouchedOverlap
  <2>2. report'.notAllowed = {e \in refused : Touched(e) \cap allowedUnder # {}}
    BY DEF Report
  <2> QED
    BY <2>1, <2>2, <1>1, <1>4 DEF AllowedSoFar, RefusedSoFar, Elements
<1>8. Elements(merged') = Elements(merged)
  BY <1>1
<1>9. LetThroughExactly'
  BY <1>1, <1>2, <1>5, <1>6, <1>7, <1>8 DEF LetThroughExactly
<1> QED
  BY <1>1, <1>9 DEF AllowInv

\* Without rules, or without detections, everything is redacted.
LEMMA MergeEndsInv ==
    ASSUME MergeInv, AllowInv, MergeEnds
    PROVE  AllowInv'
<1> DEFINE n == Len(merged)
<1>1. /\ pc = "merge" /\ raw' = raw /\ merged' = merged /\ rules' = rules
      /\ weighed = {} /\ weighed' = {} /\ allowedUnder' = {} /\ refused' = {}
      /\ DOMAIN merged = 1..n
  BY DEF MergeEnds, configVars, AllowInv, MergeInv, MergeType
<1>2. CASE rules = {} \/ merged = <<>>
  <2>1. /\ pc' = "report"
        /\ report' = [redacted |-> Elements(merged), allowed |-> {}, notAllowed |-> {}]
    BY <1>2 DEF MergeEnds, NoReport
  <2>2. Elements(merged') = Elements(merged)
    BY <1>1
  <2>3. CASE rules = {}
    <3>1. \A e : ~Exempt(e)'
      BY <2>3, <1>1 DEF Exempt
    <3> QED
      BY <2>1, <2>2, <3>1, <1>1 DEF AllowInv, LetThroughExactly
  <2>4. CASE merged = <<>>
    <3>1. Elements(merged) = {}
      BY <2>4 DEF Elements
    <3> QED
      BY <2>1, <2>2, <3>1, <1>1 DEF AllowInv, LetThroughExactly
  <2> QED
    BY <1>2, <2>3, <2>4
<1>3. CASE ~(rules = {} \/ merged = <<>>)
  <2>1. pc' = "exempt" /\ verdict' = [i \in 1..n |-> "none"]
    BY <1>3 DEF MergeEnds
  <2>2. \A i \in 1..n : VerdictOf(i)'
    BY <2>1, <1>1 DEF VerdictOf
  <2>3. AllowedSoFar' /\ RefusedSoFar'
    BY <1>1 DEF AllowedSoFar, RefusedSoFar
  <2> QED
    BY <2>1, <2>2, <2>3, <1>1 DEF AllowInv, LetThroughExactly
<1> QED
  BY <1>2, <1>3

LEMMA AllowStepInv == MergeInv /\ AllowInv /\ [MergeNext]_mergeVars => AllowInv'
<1> SUFFICES ASSUME MergeInv, AllowInv, [MergeNext]_mergeVars PROVE AllowInv'
  OBVIOUS
<1>1. ASSUME NEW R \in SUBSET Entity, Gather(R) PROVE AllowInv'
  BY <1>1 DEF Gather, allowVars, AllowInv, LetThroughExactly
<1>2. CASE DetectorFails
  BY <1>2 DEF DetectorFails, allowVars, AllowInv, LetThroughExactly
<1>3. ASSUME NEW e \in todo, MergeOne(e) PROVE AllowInv'
  BY <1>3 DEF MergeOne, allowVars, AllowInv, LetThroughExactly
<1>4. CASE MergeEnds
  BY <1>4, MergeEndsInv
<1>5. ASSUME NEW e \in raw, Weigh(e) PROVE AllowInv'
  BY <1>5, WeighInv
<1>6. CASE Report
  BY <1>6, ReportInv
<1>7. CASE UNCHANGED mergeVars
  BY <1>7 DEF mergeVars, configVars, allowVars, AllowInv, LetThroughExactly, VerdictOf,
     AllowedSoFar, RefusedSoFar, Exempt
<1> QED
  BY <1>1, <1>2, <1>3, <1>4, <1>5, <1>6, <1>7 DEF MergeNext, Process

LEMMA AllowInitInv == MergeInit => AllowInv
BY DEF MergeInit, AllowInv, LetThroughExactly

\* A span is let through exactly when every detection over it is exempt: no entry of the
\* allow list ever unmasks what another detection found there.
THEOREM LetsThroughExactly == MergeSpec => []LetThroughExactly
<1>1. AllowInv => LetThroughExactly
  BY DEF AllowInv
<1> QED
  BY <1>1, AllowInitInv, AllowStepInv, MergeInvariant, PTL DEF MergeSpec

\* What no entry exempts is masked whole: a detection that counts lies inside one span
\* that is redacted.
RefusedStaysMasked ==
    pc = "report" =>
        \A e \in Kept : ~Exempt(e) =>
            \E m \in report.redacted : m.start <= e.start /\ e.end <= m.end

\* However detections chain, nest and tie, whatever the allow list says of the others: a
\* detection it does not cover leaves no character of its own readable.
THEOREM RefusedIsMasked == MergeSpec => []RefusedStaysMasked
<1>1. MergeInv /\ AllowInv => RefusedStaysMasked
  <2> SUFFICES ASSUME MergeInv, AllowInv, pc = "report", NEW e \in Kept, ~Exempt(e)
               PROVE  \E m \in report.redacted : m.start <= e.start /\ e.end <= m.end
    BY DEF RefusedStaysMasked
  <2>1. e \in raw /\ e \in Entity /\ e \in Done
    BY KeptRaw DEF MergeInv, MergeType, Done
  <2>2. PICK i \in 1..Len(merged) : merged[i].start <= e.start /\ e.end <= merged[i].end
    BY <2>1 DEF MergeInv, Covered
  <2>3. merged[i] \in Entity /\ merged[i] \in Elements(merged)
    BY <2>2, MergedType DEF Elements, MergeInv, MergeType
  <2>4. Overlap(merged[i], e)
    BY <2>1, <2>2, <2>3, EntityFacts DEF Overlap
  <2>5. merged[i] \in report.redacted
    BY <2>1, <2>3, <2>4 DEF AllowInv, LetThroughExactly
  <2> QED
    BY <2>2, <2>5
<1> QED
  BY <1>1, AllowInitInv, AllowStepInv, MergeInvariant, PTL DEF MergeSpec

-----------------------------------------------------------------------------
(* The tokens of a text *)

\* A nonempty set of naturals has a least element.
LEMMA Smallest ==
    ASSUME NEW S \in SUBSET Nat, S # {}
    PROVE  \E n \in S : \A m \in S : n <= m
<1> DEFINE R == OpToRel(<, Nat)
<1>1. IsWellFoundedOn(R, Nat)
  BY NatLessThanWellFounded
<1>2. PICK n \in S : \A m \in S : ~ (<<m, n>> \in R)
  <2> HIDE DEF R
  <2> QED
    BY <1>1, WFMin
<1>3. ASSUME NEW m \in S PROVE n <= m
  <2>1. ~ (<<m, n>> \in R)
    BY <1>2
  <2> QED
    BY <2>1 DEF OpToRel
<1> QED
  BY <1>3

\* The tokens that show text among those from first to last; the rank of a token is
\* how many there are up to it.
Tokens(first, last) == {u \in first..last : NonEmpty(u)}
Rank(t) == Cardinality(Tokens(1, t))

LEMMA TokensFinite ==
    ASSUME NEW s \in Int, NEW t \in Int
    PROVE  /\ IsFiniteSet(Tokens(s, t))
           /\ Cardinality(Tokens(s, t)) \in Nat
<1>1. IsFiniteSet(s..t)
  BY FS_Interval
<1>2. Tokens(s, t) \in SUBSET (s..t)
  BY DEF Tokens
<1>3. IsFiniteSet(Tokens(s, t))
  BY <1>1, <1>2, FS_Subset
<1> QED
  BY <1>3, FS_CardinalityType

LEMMA RankStep ==
    ASSUME NEW t \in Nat
    PROVE  /\ Rank(0) = 0
           /\ Rank(t) \in Nat
           /\ Rank(t + 1) = IF NonEmpty(t + 1) THEN Rank(t) + 1 ELSE Rank(t)
<1>1. Rank(0) = 0
  <2>1. Tokens(1, 0) = {}
    BY DEF Tokens
  <2> QED
    BY <2>1, FS_EmptySet DEF Rank
<1>2. Rank(t) \in Nat
  BY TokensFinite DEF Rank
<1>3. CASE NonEmpty(t + 1)
  <2>1. Tokens(1, t + 1) = Tokens(1, t) \cup {t + 1}
    BY <1>3 DEF Tokens
  <2>2. t + 1 \notin Tokens(1, t)
    BY DEF Tokens
  <2>3. Cardinality(Tokens(1, t) \cup {t + 1}) = Cardinality(Tokens(1, t)) + 1
    <3>1. IsFiniteSet(Tokens(1, t))
      BY TokensFinite
    <3>2. Cardinality(Tokens(1, t) \cup {t + 1}) =
            IF t + 1 \in Tokens(1, t) THEN Cardinality(Tokens(1, t))
            ELSE Cardinality(Tokens(1, t)) + 1
      BY <3>1, FS_AddElement
    <3> QED
      BY <2>2, <3>2
  <2> QED
    BY <1>1, <1>2, <1>3, <2>1, <2>3 DEF Rank
<1>4. CASE ~ NonEmpty(t + 1)
  <2>1. ASSUME NEW u PROVE u \in Tokens(1, t + 1) <=> u \in Tokens(1, t)
    <3>1. u \in 1..t + 1 <=> u \in 1..t \/ u = t + 1
      OBVIOUS
    <3> QED
      BY <1>4, <3>1 DEF Tokens
  <2>2. Tokens(1, t + 1) = Tokens(1, t)
    BY <2>1
  <2> QED
    BY <1>1, <1>2, <1>4, <2>2 DEF Rank
<1> QED
  BY <1>3, <1>4

\* What lies between two tokens is the difference of their ranks.
LEMMA RankGap ==
    ASSUME NEW s \in Nat, NEW t \in Nat, s <= t
    PROVE  /\ Cardinality(Tokens(s + 1, t)) = Rank(t) - Rank(s)
           /\ Rank(s) <= Rank(t)
           /\ Rank(t) - Rank(s) <= t - s
           /\ Rank(t) - Rank(s) = t - s <=> \A u \in s + 1..t : NonEmpty(u)
<1>1. Tokens(1, t) = Tokens(1, s) \cup Tokens(s + 1, t)
  BY DEF Tokens
<1>2. Tokens(1, s) \cap Tokens(s + 1, t) = {}
  BY DEF Tokens
<1>3. /\ IsFiniteSet(Tokens(1, s)) /\ Cardinality(Tokens(1, s)) \in Nat
      /\ IsFiniteSet(Tokens(s + 1, t)) /\ Cardinality(Tokens(s + 1, t)) \in Nat
  BY TokensFinite
<1>4. Cardinality(Tokens(1, s) \cup Tokens(s + 1, t)) =
        Cardinality(Tokens(1, s)) + Cardinality(Tokens(s + 1, t)) - Cardinality({})
  BY <1>2, <1>3, FS_Union, Zenon
<1>5. Cardinality({}) = 0
  BY FS_EmptySet
<1>6. Cardinality(Tokens(s + 1, t)) = Rank(t) - Rank(s) /\ Rank(s) <= Rank(t)
  <2>1. Rank(s) = Cardinality(Tokens(1, s)) /\ Rank(t) = Cardinality(Tokens(1, s) \cup Tokens(s + 1, t))
    BY <1>1 DEF Rank
  <2> QED
    BY <1>3, <1>4, <1>5, <2>1
<1>7. IsFiniteSet(s + 1..t) /\ Cardinality(s + 1..t) = t - s
  <2>1. s + 1 \in Int /\ t \in Int
    OBVIOUS
  <2>2. /\ IsFiniteSet(s + 1..t)
        /\ Cardinality(s + 1..t) = IF s + 1 > t THEN 0 ELSE t - (s + 1) + 1
    BY <2>1, FS_Interval
  <2> QED
    BY <2>2
<1>8. Tokens(s + 1, t) \in SUBSET (s + 1..t)
  BY DEF Tokens
<1>9. /\ Cardinality(Tokens(s + 1, t)) <= t - s
      /\ t - s = Cardinality(Tokens(s + 1, t)) => s + 1..t = Tokens(s + 1, t)
  BY <1>7, <1>8, FS_Subset
<1>10. s + 1..t = Tokens(s + 1, t) <=> \A u \in s + 1..t : NonEmpty(u)
  BY DEF Tokens
<1> QED
  BY <1>6, <1>7, <1>9, <1>10

LEMMA RankGrows ==
    ASSUME NEW s \in Nat, NEW t \in Nat, s < t, NonEmpty(t)
    PROVE  Rank(s) < Rank(t) /\ Rank(t) = Rank(t - 1) + 1
<1>1. t - 1 \in Nat /\ (t - 1) + 1 = t /\ s <= t - 1
  OBVIOUS
<1>2. Rank(t) = Rank(t - 1) + 1 /\ Rank(t - 1) \in Nat /\ Rank(s) \in Nat
  BY <1>1, RankStep
<1>3. Rank(s) <= Rank(t - 1)
  BY <1>1, RankGap
<1> QED
  BY <1>2, <1>3

LEMMA TokenOfRank ==
    ASSUME NEW t \in Nat, NEW j \in 1..Rank(t)
    PROVE  \E u \in 1..t : NonEmpty(u) /\ Rank(u) = j
<1> DEFINE S == {u \in Nat : j <= Rank(u)}
<1>0. Rank(t) \in Nat
  BY RankStep
<1>1. t \in S /\ S \in SUBSET Nat
  BY <1>0
<1>2. PICK u \in S : \A v \in S : u <= v
  <2> HIDE DEF S
  <2> QED
    BY <1>1, Smallest
<1>3. u # 0
  BY RankStep, <1>2
<1>4. u - 1 \in Nat /\ u - 1 \notin S
  <2>1. u \in Nat
    OBVIOUS
  <2>2. ~ (u <= u - 1)
    BY <2>1
  <2> QED
    BY <1>2, <1>3, <2>1, <2>2
<1>5. Rank(u - 1) \in Nat /\ Rank(u - 1) < j
  BY <1>4, RankStep
<1>6. Rank((u - 1) + 1) = IF NonEmpty((u - 1) + 1) THEN Rank(u - 1) + 1 ELSE Rank(u - 1)
  BY <1>4, RankStep
<1>7. (u - 1) + 1 = u /\ j <= Rank(u)
  BY <1>1
<1>8. NonEmpty(u) /\ Rank(u) = j
  BY <1>5, <1>6, <1>7
<1>9. u \in 1..t
  BY <1>1, <1>2, <1>3
<1> QED
  BY <1>8, <1>9

\* The token of a rank.
TokenAt(j) == CHOOSE u \in 1..Len(offsets) : NonEmpty(u) /\ Rank(u) = j

LEMMA TokenAtIs ==
    ASSUME Len(offsets) \in Nat
    PROVE  /\ \A j \in 1..Rank(Len(offsets)) :
                TokenAt(j) \in 1..Len(offsets) /\ NonEmpty(TokenAt(j)) /\ Rank(TokenAt(j)) = j
           /\ \A u \in 1..Len(offsets) : NonEmpty(u) =>
                Rank(u) \in 1..Rank(Len(offsets)) /\ TokenAt(Rank(u)) = u
           /\ \A i, j \in 1..Rank(Len(offsets)) : i < j => TokenAt(i) < TokenAt(j)
<1>1. ASSUME NEW j \in 1..Rank(Len(offsets))
      PROVE  TokenAt(j) \in 1..Len(offsets) /\ NonEmpty(TokenAt(j)) /\ Rank(TokenAt(j)) = j
  BY TokenOfRank DEF TokenAt
<1>2. ASSUME NEW u \in 1..Len(offsets), NEW v \in 1..Len(offsets), NonEmpty(u), NonEmpty(v), u < v
      PROVE  Rank(u) < Rank(v)
  BY <1>2, RankGrows
<1>3. ASSUME NEW u \in 1..Len(offsets), NonEmpty(u)
      PROVE  Rank(u) \in 1..Rank(Len(offsets)) /\ TokenAt(Rank(u)) = u
  <2>1. Rank(0) = 0 /\ Rank(u) \in Nat /\ Rank(Len(offsets)) \in Nat
    BY RankStep
  <2>2. Rank(0) < Rank(u)
    BY <1>3, RankGrows
  <2>3. Rank(u) <= Rank(Len(offsets))
    BY RankGap
  <2>4. Rank(u) \in 1..Rank(Len(offsets))
    BY <2>1, <2>2, <2>3
  <2> DEFINE v == TokenAt(Rank(u))
  <2>5. v \in 1..Len(offsets) /\ NonEmpty(v) /\ Rank(v) = Rank(u)
    BY <1>1, <2>4
  <2> HIDE DEF v
  <2>6. ~ (u < v) /\ ~ (v < u)
    BY <1>2, <1>3, <2>1, <2>5
  <2> QED
    BY <2>4, <2>5, <2>6 DEF v
<1>4. ASSUME NEW i \in 1..Rank(Len(offsets)), NEW j \in 1..Rank(Len(offsets)), i < j
      PROVE  TokenAt(i) < TokenAt(j)
  <2> DEFINE u == TokenAt(i)
             v == TokenAt(j)
  <2>1. u \in 1..Len(offsets) /\ NonEmpty(u) /\ Rank(u) = i
    BY <1>1
  <2>2. v \in 1..Len(offsets) /\ NonEmpty(v) /\ Rank(v) = j
    BY <1>1
  <2> HIDE DEF u, v
  <2>3. ~ (v < u) /\ u # v
    BY <1>2, <1>4, <2>1, <2>2
  <2> QED
    BY <2>1, <2>2, <2>3 DEF u, v
<1> QED
  BY <1>1, <1>3, <1>4
LEMMA MinOfTwo ==
    ASSUME NEW a \in Int, NEW b \in Int
    PROVE  Min({a, b}) = IF a <= b THEN a ELSE b
BY DEF Min

LEMMA MaxIs ==
    ASSUME NEW S \in SUBSET Int, NEW x \in S, \A y \in S : y <= x
    PROVE  Max(S) = x
<1> DEFINE m == Max(S)
<1>1. m \in S /\ \A y \in S : m >= y
  <2>1. \A y \in S : x >= y
    OBVIOUS
  <2> QED
    BY <2>1, Zenon DEF Max
<1> HIDE DEF m
<1>2. m \in Int /\ x \in Int /\ m >= x /\ m <= x
  BY <1>1
<1>3. m = x
  BY <1>2
<1> QED
  BY <1>3 DEF m

-----------------------------------------------------------------------------
(* A text a tokenizer encoded *)

Encoded ==
    /\ text \in Texts
    /\ offsets \in Seq(Offsets)
    /\ EmptyBetween(offsets)
    /\ geometry \in Geometries

LEMMA EncodedIs ==
    ASSUME Encoded
    PROVE  /\ Len(offsets) \in Nat
           /\ DOMAIN offsets = 1..Len(offsets)
           /\ \A t \in 1..Len(offsets) :
                offsets[t][1] \in Nat /\ offsets[t][2] \in Nat /\ offsets[t][1] <= offsets[t][2]
                /\ offsets[t][2] <= Len(text)
           /\ geometry[1] \in Nat /\ geometry[2] \in Nat
           /\ 1 <= geometry[2] /\ geometry[2] < geometry[1]
           /\ Len(text) \in Nat
<1>1. Len(offsets) \in Nat /\ DOMAIN offsets = 1..Len(offsets)
  BY DEF Encoded
<1>2. Len(text) \in Nat
  BY WindowConstantsOK DEF Encoded
<1>3. ASSUME NEW t \in 1..Len(offsets)
      PROVE  offsets[t][1] \in Nat /\ offsets[t][2] \in Nat /\ offsets[t][1] <= offsets[t][2]
             /\ offsets[t][2] <= Len(text)
  <2>1. offsets[t] \in Offsets
    BY <1>1 DEF Encoded
  <2> QED
    BY <1>2, <2>1 DEF Offsets
<1>4. /\ geometry[1] \in Nat /\ geometry[2] \in Nat
      /\ 1 <= geometry[2] /\ geometry[2] < geometry[1]
  <2>1. geometry[1] \in Nat /\ geometry[2] \in 1..geometry[1] - 1
    BY WindowConstantsOK DEF Encoded
  <2> QED
    BY <2>1
<1> QED
  BY <1>1, <1>2, <1>3, <1>4

LEMMA Ranges ==
    ASSUME Encoded, NEW k \in Nat, 1 <= k
    PROVE  /\ FirstOf(k) \in Nat /\ k <= FirstOf(k)
           /\ FirstOf(1) = 1
           /\ FirstOf(k + 1) = FirstOf(k) + geometry[1] - geometry[2]
           /\ LastOf(k) = IF FirstOf(k) + geometry[1] - 1 <= Len(offsets)
                          THEN FirstOf(k) + geometry[1] - 1 ELSE Len(offsets)
           /\ LastOf(k) \in Nat
<1> DEFINE s == geometry[1] - geometry[2]
<1>0. s \in Nat /\ 1 <= s /\ geometry[1] \in Nat /\ Len(offsets) \in Nat
      /\ 1 <= geometry[1] /\ geometry[2] \in Nat
  BY EncodedIs
<1>1. FirstOf(k) = (k - 1) * s + 1 /\ FirstOf(k + 1) = ((k + 1) - 1) * s + 1 /\ FirstOf(1) = (1 - 1) * s + 1
  BY DEF FirstOf
<1>2. (k - 1) * s \in Nat /\ k - 1 <= (k - 1) * s /\ ((k + 1) - 1) * s = (k - 1) * s + s /\ (1 - 1) * s = 0
  <2> HIDE DEF s
  <2>1. \A m \in Nat : m * s \in Nat /\ m <= m * s /\ (m + 1) * s = m * s + s /\ 0 * s = 0
    BY <1>0
  <2>2. k - 1 \in Nat /\ (k + 1) - 1 = (k - 1) + 1 /\ 1 - 1 = 0
    OBVIOUS
  <2> QED
    BY <2>1, <2>2
<1>3. FirstOf(k) \in Nat /\ k <= FirstOf(k) /\ FirstOf(1) = 1 /\ FirstOf(k + 1) = FirstOf(k) + s
  <2> HIDE DEF s
  <2>1. (k - 1) * s + 1 \in Nat /\ k <= (k - 1) * s + 1
    BY <1>2
  <2>2. FirstOf(k + 1) = (k - 1) * s + s + 1
    BY <1>1, <1>2
  <2> QED
    BY <1>0, <1>1, <1>2, <2>1, <2>2
<1>4. LastOf(k) = Min({FirstOf(k) + geometry[1] - 1, Len(offsets)})
  BY DEF LastOf
<1>5. FirstOf(k) + geometry[1] - 1 \in Int
  BY <1>0, <1>3
<1>6. LastOf(k) = IF FirstOf(k) + geometry[1] - 1 <= Len(offsets)
                          THEN FirstOf(k) + geometry[1] - 1 ELSE Len(offsets)
  BY <1>0, <1>4, <1>5, MinOfTwo
<1>7. LastOf(k) \in Nat
  BY <1>0, <1>3, <1>6
<1>8. FirstOf(k + 1) = FirstOf(k) + geometry[1] - geometry[2]
  BY <1>0, <1>3
<1> QED
  BY <1>3, <1>6, <1>7, <1>8

\* The windows go on until one reaches the last token.
LEMMA WindowsAre ==
    ASSUME Encoded
    PROVE  /\ WindowCount \in Nat
           /\ Len(offsets) = 0 => WindowCount = 0
           /\ Len(offsets) # 0 => /\ 1 <= WindowCount
                                  /\ LastOf(WindowCount) = Len(offsets)
                                  /\ \A k \in 1..WindowCount - 1 : LastOf(k) < Len(offsets)
<1> DEFINE n == Len(offsets)
           W == {k \in 1..n : \A j \in 1..k - 1 : LastOf(j) < n}
<1>0. n \in Nat /\ WindowCount = Cardinality(W)
  BY EncodedIs DEF WindowCount
<1>1. CASE n = 0
  <2>1. W = {}
    BY <1>1
  <2> HIDE DEF W
  <2> QED
    BY <1>0, <1>1, <2>1, FS_EmptySet
<1>2. CASE n # 0
  <2> DEFINE S == {k \in Nat : 1 <= k /\ LastOf(k) = n}
  <2>1. n \in S
    <3>1. n \in Nat /\ 1 <= n
      BY <1>0, <1>2
    <3>2. n <= FirstOf(n) /\ FirstOf(n) \in Nat
      BY <3>1, Ranges
    <3>3. LastOf(n) = IF FirstOf(n) + geometry[1] - 1 <= n THEN FirstOf(n) + geometry[1] - 1 ELSE n
      BY <3>1, Ranges
    <3>4. 1 < geometry[1] /\ geometry[1] \in Nat
      BY EncodedIs
    <3> HIDE DEF n
    <3> QED
      BY <3>1, <3>2, <3>3, <3>4
  <2>2. PICK m \in S : \A k \in S : m <= k
    <3>1. S \in SUBSET Nat /\ S # {}
      BY <2>1
    <3> HIDE DEF S
    <3> QED
      BY <3>1, Smallest
  <2>3. m \in 1..n /\ LastOf(m) = n
    BY <1>0, <2>1, <2>2
  <2>4. ASSUME NEW k \in 1..m - 1 PROVE LastOf(k) < n
    <3>1. k \in Nat /\ 1 <= k /\ k < m
      BY <2>3
    <3>2. k \notin S
      <4> HIDE DEF S
      <4> QED
        BY <2>2, <2>3, <3>1
    <3>3. LastOf(k) # n
      BY <3>1, <3>2
    <3>4. LastOf(k) \in Nat /\ LastOf(k) <= n
      <4>1. LastOf(k) = IF FirstOf(k) + geometry[1] - 1 <= n THEN FirstOf(k) + geometry[1] - 1 ELSE n
        BY <3>1, Ranges
      <4>2. LastOf(k) \in Nat
        BY <3>1, Ranges
      <4> HIDE DEF n
      <4> QED
        BY <1>0, <4>1, <4>2
    <3> QED
      BY <1>0, <3>3, <3>4
  <2>5. W = 1..m
    <3>1. ASSUME NEW k \in W PROVE k \in 1..m
      <4>1. SUFFICES ASSUME m < k PROVE FALSE
        BY <2>3
      <4>2. m \in 1..k - 1
        BY <2>3, <4>1
      <4> QED
        BY <1>0, <2>3, <4>2
    <3>2. ASSUME NEW k \in 1..m PROVE k \in W
      <4>1. k \in 1..n /\ \A j \in 1..k - 1 : j \in 1..m - 1
        BY <1>0, <2>3
      <4> QED
        BY <2>4, <4>1
    <3> QED
      BY <3>1, <3>2
  <2>6. Cardinality(1..m) = m
    <3>1. 1 \in Int /\ m \in Int /\ ~ (1 > m)
      BY <2>3
    <3>2. Cardinality(1..m) = IF 1 > m THEN 0 ELSE m - 1 + 1
      BY <3>1, FS_Interval
    <3> QED
      BY <3>1, <3>2
  <2>7. WindowCount = m
    BY <1>0, <2>5, <2>6
  <2> QED
    BY <1>2, <2>3, <2>4, <2>7
<1> QED
  BY <1>1, <1>2

\* A window lies in the text, and begins in the one before it unless it is the first.
LEMMA WindowIs ==
    ASSUME Encoded, NEW k \in 1..WindowCount
    PROVE  /\ FirstOf(k) \in Nat /\ LastOf(k) \in Nat
           /\ 1 <= FirstOf(k) /\ FirstOf(k) <= LastOf(k) /\ LastOf(k) <= Len(offsets)
           /\ k < WindowCount => /\ FirstOf(k + 1) = LastOf(k) - geometry[2] + 1
                                 /\ FirstOf(k) < FirstOf(k + 1)
                                 /\ LastOf(k) <= LastOf(k + 1)
<1> DEFINE n == Len(offsets)
           w == geometry[1]
           o == geometry[2]
           m == WindowCount
<1>0. n \in Nat /\ w \in Nat /\ o \in Nat /\ 1 <= o /\ o < w /\ m \in Nat /\ k \in Nat /\ 1 <= k /\ k <= m
  BY EncodedIs, WindowsAre
<1>1. n # 0 /\ LastOf(m) = n /\ \A j \in 1..m - 1 : LastOf(j) < n
  BY <1>0, WindowsAre
<1>2. ASSUME NEW j \in Nat, 1 <= j
      PROVE  /\ FirstOf(j) \in Nat /\ j <= FirstOf(j) /\ FirstOf(1) = 1
             /\ FirstOf(j + 1) = FirstOf(j) + w - o
             /\ LastOf(j) = IF FirstOf(j) + w - 1 <= n THEN FirstOf(j) + w - 1 ELSE n
             /\ LastOf(j) \in Nat
  BY <1>2, Ranges
<1> HIDE DEF n, w, o, m
<1>3. ASSUME NEW j \in Nat, 1 <= j, j < m
      PROVE  LastOf(j) = FirstOf(j) + w - 1 /\ LastOf(j) < n
             /\ FirstOf(j + 1) = LastOf(j) - o + 1
  <2>1. LastOf(j) < n
    BY <1>0, <1>1, <1>3
  <2>2. /\ FirstOf(j) \in Nat /\ LastOf(j) \in Nat /\ FirstOf(j + 1) = FirstOf(j) + w - o
        /\ LastOf(j) = IF FirstOf(j) + w - 1 <= n THEN FirstOf(j) + w - 1 ELSE n
    BY <1>2, <1>3
  <2> QED
    BY <1>0, <2>1, <2>2
<1>4. LastOf(k) \in Nat /\ FirstOf(k) \in Nat /\ 1 <= FirstOf(k) /\ LastOf(k) <= n
  <2>1. /\ FirstOf(k) \in Nat /\ LastOf(k) \in Nat /\ k <= FirstOf(k)
        /\ LastOf(k) = IF FirstOf(k) + w - 1 <= n THEN FirstOf(k) + w - 1 ELSE n
    BY <1>0, <1>2
  <2> QED
    BY <1>0, <2>1
<1>5. FirstOf(k) <= n
  <2>1. CASE k = 1
    <3>1. FirstOf(1) = 1
      BY <1>0, <1>2
    <3> QED
      BY <1>0, <1>1, <2>1, <3>1
  <2>2. CASE k # 1
    <3>1. k - 1 \in Nat /\ 1 <= k - 1 /\ k - 1 < m /\ (k - 1) + 1 = k
      BY <1>0, <2>2
    <3>2. LastOf(k - 1) < n /\ FirstOf((k - 1) + 1) = LastOf(k - 1) - o + 1 /\ LastOf(k - 1) \in Nat
      BY <3>1, <1>2, <1>3
    <3> QED
      BY <1>0, <3>1, <3>2
  <2> QED
    BY <2>1, <2>2
<1>6. FirstOf(k) <= LastOf(k)
  <2>1. LastOf(k) = IF FirstOf(k) + w - 1 <= n THEN FirstOf(k) + w - 1 ELSE n
    BY <1>0, <1>2
  <2> QED
    BY <1>0, <1>4, <1>5, <2>1
<1>7. ASSUME k < m
      PROVE  /\ FirstOf(k + 1) = LastOf(k) - o + 1
             /\ FirstOf(k) < FirstOf(k + 1)
             /\ LastOf(k) <= LastOf(k + 1)
  <2>1. k + 1 \in Nat /\ 1 <= k + 1
    BY <1>0
  <2>2. LastOf(k + 1) = IF FirstOf(k + 1) + w - 1 <= n THEN FirstOf(k + 1) + w - 1 ELSE n
    BY <2>1, <1>2
  <2>3. FirstOf(k + 1) = FirstOf(k) + w - o
    BY <1>0, <1>2
  <2>4. LastOf(k) = FirstOf(k) + w - 1 /\ LastOf(k) < n /\ FirstOf(k + 1) = LastOf(k) - o + 1
    BY <1>0, <1>3, <1>7
  <2> QED
    BY <1>0, <1>4, <2>2, <2>3, <2>4
<1> QED
  BY <1>4, <1>5, <1>6, <1>7 DEF n, m, o

-----------------------------------------------------------------------------
(* What a window answers, and what two windows share *)

\* The tokens of window k have the ranks From(k) + 1 .. To(k).
From(k) == Rank(FirstOf(k) - 1)
To(k) == Rank(LastOf(k))

LEMMA FromTo ==
    ASSUME Encoded, NEW k \in 1..WindowCount
    PROVE  /\ From(k) \in Nat /\ To(k) \in Nat /\ From(k) <= To(k)
           /\ To(k) <= Rank(Len(offsets)) /\ Rank(Len(offsets)) \in Nat
           /\ k < WindowCount => /\ From(k + 1) <= To(k) /\ From(k) <= From(k + 1)
                                 /\ To(k) <= To(k + 1)
<1>1. /\ FirstOf(k) \in Nat /\ LastOf(k) \in Nat
      /\ 1 <= FirstOf(k) /\ FirstOf(k) <= LastOf(k) /\ LastOf(k) <= Len(offsets)
      /\ k < WindowCount => /\ FirstOf(k + 1) = LastOf(k) - geometry[2] + 1
                            /\ FirstOf(k) < FirstOf(k + 1)
                            /\ LastOf(k) <= LastOf(k + 1)
  BY WindowIs
<1>2. geometry[2] \in Nat /\ 1 <= geometry[2] /\ Len(offsets) \in Nat /\ WindowCount \in Nat
  BY EncodedIs, WindowsAre
<1>3. FirstOf(k) - 1 \in Nat /\ FirstOf(k) - 1 <= LastOf(k)
  BY <1>1
<1>4. /\ From(k) \in Nat /\ To(k) \in Nat /\ From(k) <= To(k)
      /\ To(k) <= Rank(Len(offsets)) /\ Rank(Len(offsets)) \in Nat
  BY <1>1, <1>2, <1>3, RankStep, RankGap DEF From, To
<1>5. ASSUME k < WindowCount
      PROVE  /\ From(k + 1) <= To(k) /\ From(k) <= From(k + 1)
             /\ To(k) <= To(k + 1)
  <2>1. k + 1 \in 1..WindowCount
    BY <1>2, <1>5
  <2>2. FirstOf(k + 1) \in Nat /\ 1 <= FirstOf(k + 1) /\ LastOf(k + 1) \in Nat
    BY <2>1, WindowIs
  <2>3. /\ FirstOf(k + 1) - 1 \in Nat /\ FirstOf(k + 1) - 1 <= LastOf(k)
        /\ FirstOf(k) - 1 <= FirstOf(k + 1) - 1 /\ LastOf(k) <= LastOf(k + 1)
    BY <1>1, <1>2, <1>5, <2>2
  <2> QED
    BY <1>1, <1>3, <2>2, <2>3, RankGap DEF From, To
<1> QED
  BY <1>4, <1>5

LEMMA RowIs ==
    ASSUME Encoded, NEW k \in 1..WindowCount
    PROVE  /\ Row(k) \in Seq(Nat \X Nat)
           /\ Len(Row(k)) = To(k) - From(k)
           /\ \A i \in 1..To(k) - From(k) :
                From(k) + i \in 1..Rank(Len(offsets)) /\ Row(k)[i] = <<k, TokenAt(From(k) + i)>>
<1> DEFINE f == FirstOf(k)
           l == LastOf(k)
           n == Len(offsets)
           size == To(k) - From(k)
<1>1. f \in Nat /\ l \in Nat /\ 1 <= f /\ f <= l /\ l <= n /\ n \in Nat /\ k \in Nat
  BY WindowIs, EncodedIs, WindowsAre
<1>2. From(k) \in Nat /\ To(k) \in Nat /\ size \in Nat /\ To(k) <= Rank(n) /\ Rank(n) \in Nat
  <2>1. From(k) \in Nat /\ To(k) \in Nat /\ From(k) <= To(k) /\ To(k) <= Rank(n) /\ Rank(n) \in Nat
    BY FromTo
  <2> QED
    BY <2>1
<1>3. ASSUME NEW t \in f..l
      PROVE  Cardinality({u \in f..t : NonEmpty(u)}) = Rank(t) - From(k)
  <2>1. f - 1 \in Nat /\ t \in Nat /\ f - 1 <= t /\ (f - 1) + 1 = f
    BY <1>1
  <2>2. Cardinality(Tokens((f - 1) + 1, t)) = Rank(t) - Rank(f - 1)
    BY <2>1, RankGap
  <2> QED
    BY <2>1, <2>2 DEF Tokens, From
<1>4. Cardinality({t \in f..l : NonEmpty(t)}) = size
  <2>1. l \in f..l
    BY <1>1
  <2> QED
    BY <1>3, <2>1 DEF To
<1>5. ASSUME NEW i \in 1..size
      PROVE  /\ From(k) + i \in 1..Rank(n)
             /\ TokenAt(From(k) + i) \in f..l
             /\ (CHOOSE t \in f..l : NonEmpty(t) /\ Cardinality({u \in f..t : NonEmpty(u)}) = i)
                  = TokenAt(From(k) + i)
  <2> DEFINE j == From(k) + i
             v == TokenAt(j)
  <2>1. j \in 1..Rank(n) /\ From(k) < j /\ j <= To(k)
    BY <1>2
  <2>2. v \in 1..n /\ NonEmpty(v) /\ Rank(v) = j
    BY <1>1, <2>1, TokenAtIs
  <2>3. v \in f..l
    <3>1. f <= v
      <4> SUFFICES ASSUME v <= f - 1 PROVE FALSE
        BY <1>1, <2>2
      <4>1. v \in Nat /\ f - 1 \in Nat
        BY <1>1, <2>2
      <4>2. Rank(v) <= Rank(f - 1)
        BY <4>1, RankGap
      <4> QED
        BY <1>2, <2>1, <2>2, <4>2 DEF From
    <3>2. v <= l
      <4> SUFFICES ASSUME l < v PROVE FALSE
        BY <1>1, <2>2
      <4>1. v \in Nat
        BY <2>2
      <4>2. Rank(l) < Rank(v)
        BY <1>1, <2>2, <4>1, RankGrows
      <4> QED
        BY <1>2, <2>1, <2>2, <4>2 DEF To
    <3> QED
      BY <1>1, <2>2, <3>1, <3>2
  <2>4. ASSUME NEW t \in f..l
        PROVE  NonEmpty(t) /\ Cardinality({u \in f..t : NonEmpty(u)}) = i <=> t = v
    <3>1. Cardinality({u \in f..t : NonEmpty(u)}) = Rank(t) - From(k) /\ Rank(t) \in Nat
      <4>1. t \in Nat
        BY <1>1
      <4> QED
        BY <1>3, <4>1, RankStep
    <3>2. Rank(t) - From(k) = i <=> Rank(t) = j
      BY <1>2, <3>1
    <3>3. t \in 1..n
      BY <1>1
    <3>4. NonEmpty(t) => TokenAt(Rank(t)) = t
      BY <1>1, <3>3, TokenAtIs
    <3> QED
      BY <2>2, <3>1, <3>2, <3>4
  <2> HIDE DEF v, j, f, l
  <2>5. (CHOOSE t \in f..l : NonEmpty(t) /\ Cardinality({u \in f..t : NonEmpty(u)}) = i) = v
    BY <2>3, <2>4
  <2> QED
    BY <2>1, <2>3, <2>5 DEF v, j
<1>6. Row(k) = [i \in 1..size |-> <<k, TokenAt(From(k) + i)>>]
  <2>1. Row(k) = [i \in 1..size |->
          <<k, CHOOSE t \in f..l : NonEmpty(t) /\ Cardinality({u \in f..t : NonEmpty(u)}) = i>>]
    BY <1>4 DEF Row
  <2> HIDE DEF f, l, size
  <2> QED
    BY <1>5, <2>1
<1>7. \A i \in 1..size : <<k, TokenAt(From(k) + i)>> \in Nat \X Nat
  <2> HIDE DEF f, l, size
  <2>1. ASSUME NEW i \in 1..size PROVE TokenAt(From(k) + i) \in Nat
    <3>1. TokenAt(From(k) + i) \in f..l
      BY <1>5
    <3> QED
      BY <1>1, <3>1
  <2> QED
    BY <1>1, <2>1
<1> HIDE DEF size
<1>8. Row(k) \in Seq(Nat \X Nat) /\ Len(Row(k)) = size
  BY <1>2, <1>6, <1>7
<1>9. \A i \in 1..size : Row(k)[i] = <<k, TokenAt(From(k) + i)>>
  BY <1>6
<1> QED
  BY <1>5, <1>8, <1>9 DEF size

\* The offsets of the token of a rank.
At(j) == offsets[TokenAt(j)]

\* A run of the last tokens of window k is also the first of window k + 1.
Fits(k, run) == \A i \in 1..run : At(To(k) - run + i) = At(From(k + 1) + i)

LEMMA OffsetsOfRow ==
    ASSUME Encoded, NEW k \in 1..WindowCount
    PROVE  /\ Len(OffsetsOf(Row(k))) = To(k) - From(k)
           /\ \A i \in 1..To(k) - From(k) : OffsetsOf(Row(k))[i] = At(From(k) + i)
<1> DEFINE row == Row(k)
           size == To(k) - From(k)
<1>1. row \in Seq(Nat \X Nat) /\ Len(row) = size
  BY RowIs
<1>2. \A i \in 1..size : row[i] = <<k, TokenAt(From(k) + i)>>
  BY RowIs
<1> HIDE DEF row, size
<1>3. DOMAIN row = 1..size /\ size \in Nat
  BY <1>1
<1>4. OffsetsOf(row) = [i \in 1..size |-> offsets[row[i][2]]]
  BY <1>3 DEF OffsetsOf
<1>5. Len(OffsetsOf(row)) = size
  BY <1>3, <1>4
<1>6. \A i \in 1..size : OffsetsOf(row)[i] = At(From(k) + i)
  BY <1>2, <1>4 DEF At
<1> QED
  BY <1>5, <1>6 DEF row, size

LEMMA SharedDef ==
    ASSUME Encoded, NEW k \in 1..WindowCount - 1
    PROVE  \E limit, expected \in Nat :
             /\ limit = Min({To(k) - From(k), To(k + 1) - From(k + 1)})
             /\ expected = Min({geometry[2], limit})
             /\ limit <= To(k) - From(k) /\ limit <= To(k + 1) - From(k + 1)
             /\ expected <= limit
             /\ Shared(k) = IF Fits(k, expected) /\ expected > 0 THEN expected
                            ELSE Max({run \in 0..limit : Fits(k, run)})
<1> DEFINE previous == OffsetsOf(Row(k))
           next == OffsetsOf(Row(k + 1))
           limit == Min({Len(previous), Len(next)})
           expected == Min({geometry[2], limit})
           F(run) == \A i \in 1..run : previous[Len(previous) - run + i] = next[i]
           a == To(k) - From(k)
           b == To(k + 1) - From(k + 1)
<1>0. WindowCount \in Nat /\ geometry[2] \in Nat
  BY WindowsAre, EncodedIs
<1>1. k \in 1..WindowCount /\ k + 1 \in 1..WindowCount
  BY <1>0
<1>2. From(k) \in Nat /\ To(k) \in Nat /\ From(k) <= To(k)
  BY <1>1, FromTo
<1>3. From(k + 1) \in Nat /\ To(k + 1) \in Nat /\ From(k + 1) <= To(k + 1)
  BY <1>1, FromTo
<1>4. Len(previous) = a /\ \A i \in 1..a : previous[i] = At(From(k) + i)
  BY <1>1, OffsetsOfRow
<1>5. Len(next) = b /\ \A i \in 1..b : next[i] = At(From(k + 1) + i)
  BY <1>1, OffsetsOfRow
<1>6. Shared(k) = IF F(expected) /\ expected > 0 THEN expected
                 ELSE Max({run \in 0..limit : F(run)})
  BY DEF Shared
<1>7. a \in Nat /\ b \in Nat
  BY <1>2, <1>3
<1>8. limit \in Nat /\ limit <= a /\ limit <= b
  <2>1. limit = Min({a, b})
    BY <1>4, <1>5
  <2>2. limit = IF a <= b THEN a ELSE b
    <3> HIDE DEF a, b, limit
    <3> QED
      BY <1>7, <2>1, MinOfTwo
  <2> HIDE DEF a, b, limit
  <2> QED
    BY <1>7, <2>2
<1>9. expected \in Nat /\ expected <= limit
  <2>1. expected = IF geometry[2] <= limit THEN geometry[2] ELSE limit
    <3> HIDE DEF limit
    <3> QED
      BY <1>0, <1>8, MinOfTwo
  <2> HIDE DEF limit
  <2> QED
    BY <1>0, <1>8, <2>1
<1>10. ASSUME NEW run \in 0..limit
       PROVE  F(run) <=> Fits(k, run)
  <2>1. run \in Nat /\ run <= a /\ run <= b
    <3> HIDE DEF a, b, limit
    <3> QED
      BY <1>7, <1>8
  <2>2. ASSUME NEW i \in 1..run
        PROVE  previous[Len(previous) - run + i] = At(To(k) - run + i) /\ next[i] = At(From(k + 1) + i)
    <3>1. a - run + i \in 1..a /\ i \in 1..b
      <4> HIDE DEF a, b
      <4> QED
        BY <1>7, <2>1
    <3>2. From(k) + (a - run + i) = To(k) - run + i
      BY <1>2, <2>1
    <3>3. previous[a - run + i] = At(From(k) + (a - run + i))
      <4> HIDE DEF a, b, previous
      <4> QED
        BY <1>4, <3>1
    <3>4. next[i] = At(From(k + 1) + i)
      <4> HIDE DEF b, next
      <4> QED
        BY <1>5, <3>1
    <3>5. Len(previous) - run + i = a - run + i
      BY <1>4
    <3> QED
      BY <3>2, <3>3, <3>4, <3>5
  <2> HIDE DEF previous, next
  <2> QED
    BY <2>2 DEF Fits
<1>11. F(expected) <=> Fits(k, expected)
  <2> HIDE DEF F, limit, expected
  <2> QED
    BY <1>8, <1>9, <1>10
<1>12. {run \in 0..limit : F(run)} = {run \in 0..limit : Fits(k, run)}
  <2> HIDE DEF F, limit
  <2> QED
    BY <1>10
<1>13. Shared(k) = IF Fits(k, expected) /\ expected > 0 THEN expected
                  ELSE Max({run \in 0..limit : Fits(k, run)})
  <2> HIDE DEF F, limit, expected
  <2> QED
    BY <1>6, <1>11, <1>12
<1>14. limit = Min({To(k) - From(k), To(k + 1) - From(k + 1)})
  BY <1>4, <1>5
<1>15. expected = Min({geometry[2], limit})
  OBVIOUS
<1> HIDE DEF limit, expected
<1> QED
  BY <1>8, <1>9, <1>13, <1>14, <1>15

LEMMA SharedIs ==
    ASSUME Encoded, NEW k \in 1..WindowCount - 1
    PROVE  Shared(k) = To(k) - From(k + 1)
<1> DEFINE o == geometry[2]
           real == To(k) - From(k + 1)
           f == FirstOf(k + 1)
           l == LastOf(k)
           n == Len(offsets)
<1>0. WindowCount \in Nat /\ o \in Nat /\ 1 <= o /\ n \in Nat
  BY WindowsAre, EncodedIs
<1>1. k \in 1..WindowCount /\ k + 1 \in 1..WindowCount /\ k < WindowCount
  BY <1>0
<1>2. /\ From(k) \in Nat /\ To(k) \in Nat /\ From(k) <= From(k + 1) /\ From(k + 1) <= To(k)
      /\ To(k) <= To(k + 1)
  BY <1>1, FromTo
<1>3. From(k + 1) \in Nat /\ To(k + 1) \in Nat /\ To(k + 1) <= Rank(n) /\ Rank(n) \in Nat
  BY <1>1, FromTo
<1>4. PICK limit \in Nat, expected \in Nat :
        /\ limit = Min({To(k) - From(k), To(k + 1) - From(k + 1)})
        /\ expected = Min({o, limit})
        /\ limit <= To(k) - From(k) /\ limit <= To(k + 1) - From(k + 1)
        /\ expected <= limit
        /\ Shared(k) = IF Fits(k, expected) /\ expected > 0 THEN expected
                       ELSE Max({run \in 0..limit : Fits(k, run)})
  BY SharedDef
<1>5. real \in Nat /\ real <= limit
  <2>1. To(k) - From(k) \in Int /\ To(k + 1) - From(k + 1) \in Int
    BY <1>2, <1>3
  <2>2. limit = To(k) - From(k) \/ limit = To(k + 1) - From(k + 1)
    BY <1>4, <2>1, MinOfTwo
  <2> QED
    BY <1>2, <1>3, <2>2
<1>6. Fits(k, real)
  <2>1. ASSUME NEW i \in 1..real PROVE To(k) - real + i = From(k + 1) + i
    BY <1>2, <1>3
  <2> QED
    BY <2>1 DEF Fits
<1>7. f \in Nat /\ l \in Nat /\ 1 <= f /\ f = l - o + 1 /\ l <= n
  <2>1. f \in Nat /\ 1 <= f
    BY <1>1, WindowIs
  <2>2. l \in Nat /\ f = l - o + 1 /\ l <= n
    BY <1>1, WindowIs
  <2> QED
    BY <2>1, <2>2
<1>8. /\ real <= o
      /\ real = o <=> \A u \in f..l : NonEmpty(u)
  <2>1. f - 1 \in Nat /\ f - 1 <= l /\ l - (f - 1) = o /\ (f - 1) + 1 = f
    BY <1>0, <1>7
  <2>2. /\ Rank(l) - Rank(f - 1) <= l - (f - 1)
        /\ Rank(l) - Rank(f - 1) = l - (f - 1) <=> \A u \in (f - 1) + 1..l : NonEmpty(u)
    BY <1>7, <2>1, RankGap
  <2>3. real = Rank(l) - Rank(f - 1)
    BY DEF From, To
  <2> HIDE DEF real, f, l, o
  <2> QED
    BY <2>1, <2>2, <2>3
\* An empty token in the overlap lies between the two copies of any longer run.
<1>9. ASSUME NEW run \in 0..limit, Fits(k, run), real < run,
             NEW e \in f..l, ~ NonEmpty(e)
      PROVE  FALSE
  <2> DEFINE rho == Rank(e)
             i == rho - From(k + 1) + 1
             p == To(k) - run + i
             q == From(k + 1) + i
             a == TokenAt(p)
             b == TokenAt(q)
  <2>1. e \in Nat /\ f - 1 \in Nat /\ f - 1 <= e /\ e <= l /\ e \in 1..n
    BY <1>0, <1>7
  <2>2. rho \in Nat /\ From(k + 1) <= rho /\ rho <= To(k)
    BY <1>7, <2>1, RankStep, RankGap DEF From, To
  <2>3. run \in Nat /\ run <= To(k) - From(k) /\ run <= To(k + 1) - From(k + 1)
    BY <1>2, <1>3, <1>4
  <2>4. i \in 1..run /\ p \in 1..Rank(n) /\ q \in 1..Rank(n) /\ p <= rho /\ rho < q
    <3> DEFINE size == Rank(n)
    <3>1. size \in Nat /\ To(k) <= size /\ To(k + 1) <= size /\ To(k) - From(k + 1) < run
      BY <1>2, <1>3, <1>9
    <3> HIDE DEF rho, size
    <3>2. i \in 1..run
      BY <1>2, <1>3, <2>2, <2>3, <3>1, SMTT(30)
    <3>3. p \in 1..size /\ p <= rho
      BY <1>2, <1>3, <2>2, <2>3, <3>1, SMTT(30)
    <3>4. q \in 1..size /\ rho < q
      <4>1. From(k + 1) \in Nat /\ q = rho + 1 /\ 1 <= q
        BY <1>3, <2>2
      <4>2. i <= run /\ run <= To(k + 1) - From(k + 1) /\ To(k + 1) \in Nat
        BY <1>3, <2>3, <3>2
      <4> HIDE DEF i
      <4>3. q <= size
        BY <2>3, <3>1, <3>2, <4>1, <4>2
      <4> QED
        BY <2>2, <3>1, <4>1, <4>3
    <3> QED
      BY <3>2, <3>3, <3>4 DEF size
  <2>5. offsets[a] = offsets[b]
    <3>1. At(To(k) - run + i) = At(From(k + 1) + i)
      <4> HIDE DEF i
      <4> QED
        BY <1>9, <2>4 DEF Fits
    <3> QED
      BY <3>1 DEF At
  <2>6. a \in 1..n /\ NonEmpty(a) /\ Rank(a) = p /\ b \in 1..n /\ NonEmpty(b) /\ Rank(b) = q
    <3> HIDE DEF p, q
    <3> QED
      BY <1>0, <2>4, TokenAtIs
  <2> HIDE DEF rho, i, p, q, a, b
  <2>7. a < e
    <3>1. a # e
      BY <1>9, <2>6
    <3>2. ~ (e < a)
      <4> SUFFICES ASSUME e < a PROVE FALSE
        OBVIOUS
      <4>1. Rank(e) < Rank(a)
        BY <2>1, <2>6, RankGrows
      <4> QED
        BY <2>1, <2>2, <2>4, <2>6, <4>1 DEF rho
    <3> QED
      BY <2>1, <2>6, <3>1, <3>2
  <2>8. e < b
    <3> SUFFICES ASSUME b <= e PROVE FALSE
      BY <2>1, <2>6
    <3>1. Rank(b) <= Rank(e)
      BY <2>1, <2>6, RankGap
    <3> QED
      BY <2>2, <2>4, <2>6, <3>1 DEF rho
  <2>9. offsets[e][1] = offsets[e][2]
    BY <1>9 DEF NonEmpty
  <2>10. offsets[a][2] <= offsets[e][1] /\ offsets[e][2] <= offsets[b][1]
    <3>1. EmptyBetween(offsets) /\ DOMAIN offsets = 1..n
      BY EncodedIs DEF Encoded
    <3>2. (offsets[e][1] = offsets[e][2] /\ e # a) =>
            IF a < e THEN offsets[a][2] <= offsets[e][1] ELSE offsets[e][2] <= offsets[a][1]
      BY <2>1, <2>6, <3>1 DEF EmptyBetween
    <3>3. (offsets[e][1] = offsets[e][2] /\ e # b) =>
            IF b < e THEN offsets[b][2] <= offsets[e][1] ELSE offsets[e][2] <= offsets[b][1]
      BY <2>1, <2>6, <3>1 DEF EmptyBetween
    <3>4. e # a /\ e # b /\ ~ (b < e)
      BY <2>1, <2>6, <2>7, <2>8
    <3> QED
      BY <2>7, <2>9, <3>2, <3>3, <3>4
  <2>11. /\ offsets[a][1] \in Nat /\ offsets[a][2] \in Nat /\ offsets[a][1] <= offsets[a][2]
         /\ offsets[e][1] \in Nat
    BY <2>1, <2>6, EncodedIs
  <2>12. offsets[a][1] # offsets[a][2]
    BY <2>6 DEF NonEmpty
  <2> QED
    BY <2>5, <2>9, <2>10, <2>11, <2>12
<1>10. CASE \A u \in f..l : NonEmpty(u)
  <2>1. real = o
    BY <1>8, <1>10
  <2>2. expected = o
    <3>1. expected = IF o <= limit THEN o ELSE limit
      <4>1. o \in Int /\ limit \in Int /\ expected = Min({o, limit})
        BY <1>0, <1>4
      <4> HIDE DEF o
      <4> QED
        BY <4>1, MinOfTwo
    <3> HIDE DEF real, o
    <3> QED
      BY <1>5, <2>1, <3>1
  <2> HIDE DEF real, o
  <2> QED
    BY <1>0, <1>4, <1>6, <2>1, <2>2 DEF real
<1>11. CASE ~ \A u \in f..l : NonEmpty(u)
  <2>1. PICK e \in f..l : ~ NonEmpty(e)
    BY <1>11
  <2>2. ASSUME NEW run \in 0..limit, Fits(k, run) PROVE run <= real
    <3> SUFFICES ASSUME real < run PROVE FALSE
      <4> HIDE DEF real
      <4> QED
        BY <1>5
    <3> HIDE DEF real, f, l
    <3> QED
      BY <1>9, <2>1, <2>2
  <2>3. real <= expected
    <3>1. expected = IF o <= limit THEN o ELSE limit
      <4>1. o \in Int /\ limit \in Int /\ expected = Min({o, limit})
        BY <1>0, <1>4
      <4> HIDE DEF o
      <4> QED
        BY <4>1, MinOfTwo
    <3> HIDE DEF real, o
    <3> QED
      BY <1>5, <1>8, <3>1
  <2> HIDE DEF real
  <2>4. CASE Fits(k, expected) /\ expected > 0
    <3>1. expected <= real
      BY <1>4, <2>2, <2>4
    <3> QED
      BY <1>4, <1>5, <2>3, <2>4, <3>1 DEF real
  <2>5. CASE ~ (Fits(k, expected) /\ expected > 0)
    <3> DEFINE S == {run \in 0..limit : Fits(k, run)}
    <3>1. S \in SUBSET Int /\ real \in S /\ \A y \in S : y <= real
      BY <1>5, <1>6, <2>2
    <3>2. Max(S) = real
      <4> HIDE DEF S
      <4> QED
        BY <3>1, MaxIs
    <3> QED
      BY <1>4, <2>5, <3>2 DEF real
  <2> QED
    BY <2>4, <2>5
<1> QED
  BY <1>10, <1>11

-----------------------------------------------------------------------------
(* Stitching *)

LEMMA Half ==
    ASSUME NEW a \in Nat
    PROVE  /\ a \div 2 \in Nat /\ 2 * (a \div 2) <= a /\ a <= 2 * (a \div 2) + 1
           /\ a - a \div 2 \in Nat
OBVIOUS

\* Window k is kept for the ranks Cut(k) + 1 .. Cut(k + 1).
Cut(k) == From(k) + FrontCut(k)
Until(k) == To(k) - BackCut(k)

LEMMA Cuts ==
    ASSUME Encoded, NEW k \in 1..WindowCount
    PROVE  /\ Cut(k) \in Nat /\ Until(k) \in Nat /\ Cut(k) <= Until(k)
           /\ FrontCut(k) \in Nat /\ BackCut(k) \in Nat
           /\ Until(k) <= To(k)
           /\ k = 1 => Cut(k) = 0
           /\ k = WindowCount => Until(k) = Rank(Len(offsets))
           /\ k < WindowCount => Until(k) = Cut(k + 1)
<1>0. WindowCount \in Nat /\ k \in Nat /\ 1 <= k /\ k <= WindowCount /\ Len(offsets) # 0
  BY WindowsAre
<1>1. From(k) \in Nat /\ To(k) \in Nat /\ From(k) <= To(k)
  BY FromTo
<1>2. /\ FrontCut(k) \in Nat
      /\ 2 * FrontCut(k) <= To(k) - From(k)
      /\ k = 1 => FrontCut(k) = 0
  <2>1. CASE k = 1
    BY <1>1, <2>1 DEF FrontCut
  <2>2. CASE k # 1
    <3> DEFINE j == k - 1
               s == To(j) - From(k)
    <3>1. j \in 1..WindowCount - 1 /\ j \in 1..WindowCount /\ j + 1 = k /\ j < WindowCount
      BY <1>0, <2>2
    <3>2. Shared(j) = s
      BY <3>1, SharedIs
    <3>3. From(k) <= To(j) /\ To(j) <= To(k) /\ To(j) \in Nat
      <4> HIDE DEF j
      <4> QED
        BY <3>1, FromTo
    <3>4. s \in Nat /\ s <= To(k) - From(k)
      BY <1>1, <3>3
    <3>5. FrontCut(k) = s \div 2
      BY <2>2, <3>2 DEF FrontCut
    <3> HIDE DEF s, j
    <3>6. s \div 2 \in Nat /\ 2 * (s \div 2) <= s
      BY <3>4, Half
    <3> QED
      BY <1>1, <2>2, <3>4, <3>5, <3>6
  <2> QED
    BY <2>1, <2>2
<1>3. k = 1 => Cut(k) = 0
  <2>1. ASSUME k = 1 PROVE From(k) = 0
    <3>1. FirstOf(1) = 1
      BY <1>0, Ranges
    <3>2. FirstOf(k) - 1 = 0
      BY <2>1, <3>1
    <3> QED
      BY <3>2, RankStep DEF From
  <2> QED
    BY <1>2, <2>1 DEF Cut
<1>4. CASE k = WindowCount
  <2>1. BackCut(k) = 0 /\ LastOf(k) = Len(offsets)
    BY <1>0, <1>4, WindowsAre DEF BackCut
  <2>2. To(k) = Rank(Len(offsets))
    BY <2>1 DEF To
  <2> QED
    BY <1>0, <1>1, <1>2, <1>4, <1>3, <2>1, <2>2 DEF Cut, Until
<1>5. CASE k < WindowCount
  <2> DEFINE s == To(k) - From(k + 1)
  <2>1. k \in 1..WindowCount - 1 /\ k + 1 # 1 /\ (k + 1) - 1 = k
    BY <1>0, <1>5
  <2>2. Shared(k) = s
    BY <2>1, SharedIs
  <2>3. From(k + 1) <= To(k) /\ From(k) <= From(k + 1) /\ From(k + 1) \in Nat
    <3>1. k + 1 \in 1..WindowCount
      BY <1>0, <1>5
    <3> QED
      BY <1>5, <3>1, FromTo
  <2>4. s \in Nat /\ s <= To(k) - From(k)
    BY <1>1, <2>3
  <2>5. BackCut(k) = s - s \div 2
    BY <1>5, <1>0, <2>2 DEF BackCut
  <2>6. FrontCut(k + 1) = s \div 2
    BY <2>1, <2>2 DEF FrontCut
  <2>7. To(k) - (s - s \div 2) = From(k + 1) + s \div 2
    <3> DEFINE h == s \div 2
    <3>1. h \in Nat
      <4> HIDE DEF s
      <4> QED
        BY <2>4, Half
    <3> HIDE DEF h
    <3>2. To(k) - ((To(k) - From(k + 1)) - h) = From(k + 1) + h
      BY <1>1, <2>3, <3>1
    <3> QED
      BY <3>2 DEF h
  <2>8. Until(k) = Cut(k + 1)
    <3> HIDE DEF s
    <3> QED
      BY <2>5, <2>6, <2>7 DEF Until, Cut
  <2> HIDE DEF s
  <2>9. s \div 2 \in Nat /\ 2 * (s \div 2) <= s /\ s <= 2 * (s \div 2) + 1
    BY <2>4, Half
  <2>10. BackCut(k) \in Nat /\ 2 * BackCut(k) <= s + 1
    BY <2>4, <2>5, <2>9
  <2>11. FrontCut(k) + BackCut(k) <= To(k) - From(k)
    BY <1>1, <1>2, <2>4, <2>10
  <2>12. Cut(k) \in Nat /\ Until(k) \in Nat /\ Cut(k) <= Until(k) /\ Until(k) <= To(k)
    BY <1>1, <1>2, <2>10, <2>11 DEF Cut, Until
  <2> QED
    BY <1>2, <1>5, <1>3, <2>8, <2>10, <2>12
<1> QED
  BY <1>0, <1>4, <1>5

LEMMA PartIs ==
    ASSUME Encoded, NEW k \in 1..WindowCount
    PROVE  /\ Part(k) \in Seq(Nat \X Nat)
           /\ Len(Part(k)) = Until(k) - Cut(k)
           /\ \A i \in 1..Until(k) - Cut(k) : Part(k)[i] = <<k, TokenAt(Cut(k) + i)>>
<1> DEFINE row == Row(k)
           size == To(k) - From(k)
           first == FrontCut(k) + 1
           last == size - BackCut(k)
<1>1. From(k) \in Nat /\ To(k) \in Nat /\ From(k) <= To(k)
  BY FromTo
<1>2. /\ FrontCut(k) \in Nat /\ BackCut(k) \in Nat
      /\ From(k) + FrontCut(k) <= To(k) - BackCut(k)
  BY Cuts DEF Cut, Until
<1>3. row \in Seq(Nat \X Nat) /\ Len(row) = size
  BY RowIs
<1>4. \A i \in 1..size : row[i] = <<k, TokenAt(From(k) + i)>>
  BY RowIs
<1>5. Part(k) = SubSeq(row, first, last)
  BY <1>3 DEF Part
<1>6. first \in Int /\ last \in Int /\ 1 <= first /\ last <= size /\ size \in Nat
      /\ last - first + 1 = Until(k) - Cut(k) /\ first <= last + 1
  BY <1>1, <1>2 DEF Until, Cut
<1>7. \A i \in first..last : row[i] \in Nat \X Nat
  <2> HIDE DEF row, first, last, size
  <2> QED
    BY <1>3, <1>6, SMTT(30)
<1> DEFINE part == SubSeq(row, first, last)
<1>8. /\ part \in Seq(Nat \X Nat)
      /\ Len(part) = IF first <= last THEN last - first + 1 ELSE 0
      /\ \A i \in 1..last - first + 1 : part[i] = row[first + i - 1]
  <2> HIDE DEF row, first, last
  <2> QED
    BY <1>6, <1>7, SubSeqProperties
<1>9. Len(part) = Until(k) - Cut(k)
  <2> HIDE DEF part, row, first, last, size
  <2> QED
    BY <1>6, <1>8
<1>10. ASSUME NEW i \in 1..Until(k) - Cut(k)
       PROVE  part[i] = <<k, TokenAt(Cut(k) + i)>>
  <2>1. part[i] = row[first + i - 1] /\ first + i - 1 \in 1..size
    <3> HIDE DEF part, row, first, last, size
    <3>1. i \in 1..last - first + 1
      BY <1>6
    <3>2. first + i - 1 \in 1..size
      BY <1>6, <3>1
    <3> QED
      BY <1>8, <3>1, <3>2
  <2>2. row[first + i - 1] = <<k, TokenAt(From(k) + (first + i - 1))>>
    <3> HIDE DEF row, first, size
    <3> QED
      BY <1>4, <2>1
  <2>3. From(k) + (first + i - 1) = Cut(k) + i
    BY <1>1, <1>2 DEF Cut
  <2> HIDE DEF part, row, first
  <2> QED
    BY <2>1, <2>2, <2>3
<1> HIDE DEF part
<1> QED
  BY <1>5, <1>8, <1>9, <1>10 DEF part

\* The window the token of rank j is taken from.
WindowOf(j) == CHOOSE k \in 1..WindowCount : Cut(k) < j /\ j <= Until(k)
Taken(j) == <<WindowOf(j), TokenAt(j)>>

LEMMA CutsGrow ==
    ASSUME Encoded, NEW k \in 1..WindowCount, NEW l \in 1..WindowCount, k < l
    PROVE  Until(k) <= Cut(l)
<1> DEFINE S == {i \in Nat : k < i /\ i <= WindowCount /\ ~ (Until(k) <= Cut(i))}
<1> SUFFICES ASSUME S # {} PROVE FALSE
  BY WindowsAre
<1>0. WindowCount \in Nat
  BY WindowsAre
<1>1. PICK i \in S : \A j \in S : i <= j
  <2>1. S \in SUBSET Nat
    OBVIOUS
  <2> HIDE DEF S
  <2> QED
    BY <2>1, Smallest
<1> DEFINE j == i - 1
<1>2. j \in 1..WindowCount /\ k <= j /\ j < WindowCount /\ j + 1 = i /\ j \in Nat
  BY <1>0
<1>3. j \notin S
  <2>1. i \in Nat /\ ~ (i <= i - 1)
    OBVIOUS
  <2> HIDE DEF S
  <2> QED
    BY <1>1, <2>1
<1>4. Until(j) = Cut(i) /\ Cut(j) <= Until(j) /\ Until(j) \in Nat /\ Cut(j) \in Nat /\ Until(k) \in Nat
  <2> HIDE DEF j
  <2>1. Until(j) = Cut(j + 1) /\ Cut(j) <= Until(j) /\ Until(j) \in Nat /\ Cut(j) \in Nat
    BY <1>2, Cuts
  <2>2. Until(k) \in Nat
    BY Cuts
  <2> QED
    BY <1>2, <2>1, <2>2
<1>5. Until(k) <= Until(j)
  <2>1. CASE k = j
    BY <1>4, <2>1
  <2>2. CASE k # j
    <3>1. Until(k) <= Cut(j)
      BY <1>2, <1>3, <2>2
    <3> HIDE DEF j
    <3> QED
      BY <1>4, <3>1
  <2> QED
    BY <2>1, <2>2
<1> QED
  BY <1>4, <1>5

LEMMA WindowOfIs ==
    ASSUME Encoded, NEW k \in 1..WindowCount, NEW j \in Cut(k) + 1..Until(k)
    PROVE  WindowOf(j) = k
<1>1. Cut(k) \in Nat /\ Until(k) \in Nat
  BY Cuts
<1>2. Cut(k) < j /\ j <= Until(k) /\ j \in Nat
  BY <1>1
<1>3. ASSUME NEW l \in 1..WindowCount, Cut(l) < j, j <= Until(l) PROVE l = k
  <2>1. Cut(l) \in Nat /\ Until(l) \in Nat
    BY Cuts
  <2>2. ~ (l < k)
    <3> SUFFICES ASSUME l < k PROVE FALSE
      OBVIOUS
    <3>1. Until(l) <= Cut(k)
      BY CutsGrow
    <3> QED
      BY <1>1, <1>2, <1>3, <2>1, <3>1
  <2>3. ~ (k < l)
    <3> SUFFICES ASSUME k < l PROVE FALSE
      OBVIOUS
    <3>1. Until(k) <= Cut(l)
      BY CutsGrow
    <3> QED
      BY <1>1, <1>2, <1>3, <2>1, <3>1
  <2> QED
    BY <2>2, <2>3
<1> QED
  BY <1>2, <1>3 DEF WindowOf

LEMMA StitchedIs ==
    ASSUME Encoded
    PROVE  Stitched = [j \in 1..Rank(Len(offsets)) |-> Taken(j)]
<1> DEFINE m == WindowCount
           n == Len(offsets)
           seqs == [k \in 1..m |-> Part(k)]
           upTo == [k \in 1..m |-> [j \in 1..Until(k) |-> Taken(j)]]
           Solves(f) == f = [i \in 1..Len(seqs) |-> IF i = 1 THEN seqs[i] ELSE f[i - 1] \o seqs[i]]
           flat == CHOOSE f : Solves(f)
<1>0. m \in Nat /\ n \in Nat /\ Len(seqs) = m
  BY WindowsAre, EncodedIs
<1>1. Stitched = IF Len(seqs) = 0 THEN seqs ELSE flat[Len(seqs)]
  BY DEF Stitched, FlattenSeq
<1>2. CASE n = 0
  <2>1. m = 0 /\ Rank(n) = 0
    BY <1>2, WindowsAre, RankStep
  <2>2. Stitched = seqs
    BY <1>0, <1>1, <2>1
  <2>3. seqs = [j \in 1..Rank(n) |-> Taken(j)]
    BY <2>1
  <2> QED
    BY <2>2, <2>3
<1>3. CASE n # 0
  <2>1. 1 <= m /\ m # 0
    BY <1>0, <1>3, WindowsAre
\* The sequences up to each window solve the recursion.
  <2>2. ASSUME NEW k \in 1..m
        PROVE  \A j \in 1..Until(k) : Cut(k) < j => Taken(j) = <<k, TokenAt(j)>>
    <3> SUFFICES ASSUME NEW j \in 1..Until(k), Cut(k) < j PROVE WindowOf(j) = k
      BY DEF Taken
    <3>1. Cut(k) \in Nat /\ Until(k) \in Nat
      BY Cuts
    <3>2. j \in Cut(k) + 1..Until(k)
      BY <3>1
    <3> QED
      BY <3>2, WindowOfIs
  <2>3. ASSUME NEW k \in 1..m, NEW before \in Seq(Nat \X Nat),
               before = [j \in 1..Cut(k) |-> Taken(j)]
        PROVE  before \o Part(k) = upTo[k] /\ upTo[k] \in Seq(Nat \X Nat)
    <3> DEFINE c == Cut(k)
               e == Until(k)
               part == Part(k)
               whole == [j \in 1..e |-> Taken(j)]
    <3>1. c \in Nat /\ e \in Nat /\ c <= e
      BY Cuts
    <3>2. part \in Seq(Nat \X Nat) /\ Len(part) = e - c /\ \A i \in 1..e - c : part[i] = <<k, TokenAt(c + i)>>
      BY PartIs
    <3>3. \A j \in 1..e : c < j => Taken(j) = <<k, TokenAt(j)>>
      BY <2>2
    <3>4. Len(before) = c /\ \A j \in 1..c : before[j] = Taken(j)
      <4>1. before = [j \in 1..c |-> Taken(j)]
        BY <2>3
      <4> HIDE DEF c
      <4> QED
        BY <3>1, <4>1
    <3> HIDE DEF c, e, part
    <3>5. /\ before \o part \in Seq(Nat \X Nat)
          /\ Len(before \o part) = Len(before) + Len(part)
          /\ \A i \in 1..Len(before) + Len(part) :
               (before \o part)[i] = IF i <= Len(before) THEN before[i] ELSE part[i - Len(before)]
      BY <2>3, <3>2, ConcatProperties
    <3> DEFINE both == before \o part
    <3> HIDE DEF both
    <3>6. Len(both) = e /\ both \in Seq(Nat \X Nat)
      BY <3>1, <3>2, <3>4, <3>5 DEF both
    <3>7. ASSUME NEW i \in 1..e PROVE both[i] = Taken(i)
      <4>0. Len(before) = c /\ Len(part) = e - c /\ i \in 1..Len(before) + Len(part)
        BY <3>1, <3>2, <3>4
      <4>1. both[i] = IF i <= c THEN before[i] ELSE part[i - c]
        <5>1. both[i] = IF i <= Len(before) THEN before[i] ELSE part[i - Len(before)]
          BY <3>5, <4>0 DEF both
        <5> QED
          BY <4>0, <5>1
      <4>2. CASE i <= c
        BY <3>1, <3>4, <4>1, <4>2
      <4>3. CASE ~ (i <= c)
        <5>1. i - c \in 1..e - c /\ c + (i - c) = i
          BY <3>1, <4>3
        <5>2. part[i - c] = <<k, TokenAt(i)>>
          BY <3>2, <5>1
        <5> QED
          BY <3>1, <3>3, <4>1, <4>3, <5>2
      <4> QED
        BY <4>2, <4>3
    <3>8. both = whole
      BY <3>1, <3>6, <3>7
    <3>9. upTo[k] = whole
      BY DEF e
    <3> QED
      BY <3>6, <3>8, <3>9 DEF both, part
  <2>4. upTo[1] = seqs[1] /\ upTo[1] \in Seq(Nat \X Nat)
    <3>1. 1 \in 1..m /\ Cut(1) = 0
      BY <1>0, <2>1, Cuts
    <3> DEFINE before == [j \in 1..Cut(1) |-> Taken(j)]
    <3>2. before = <<>>
      BY <3>1
    <3>3. before \in Seq(Nat \X Nat)
      BY <3>2, EmptySeq
    <3> HIDE DEF before
    <3>4. before \o Part(1) = upTo[1] /\ upTo[1] \in Seq(Nat \X Nat)
      <4>1. before = [j \in 1..Cut(1) |-> Taken(j)]
        BY DEF before
      <4> HIDE DEF upTo
      <4> QED
        BY <2>3, <3>1, <3>3, <4>1
    <3>5. <<>> \o Part(1) = Part(1)
      <4>1. Part(1) \in Seq(Nat \X Nat)
        BY <3>1, PartIs
      <4> QED
        BY <4>1, ConcatEmptySeq
    <3>6. seqs[1] = Part(1)
      BY <3>1
    <3> HIDE DEF upTo, seqs
    <3> QED
      BY <3>2, <3>4, <3>5, <3>6
  <2>5. ASSUME NEW k \in 1..m, k # 1, upTo[k - 1] \in Seq(Nat \X Nat)
        PROVE  upTo[k] = upTo[k - 1] \o seqs[k] /\ upTo[k] \in Seq(Nat \X Nat)
    <3>1. k - 1 \in 1..m /\ k - 1 < m /\ (k - 1) + 1 = k
      BY <1>0, <2>5
    <3>2. Until(k - 1) = Cut(k)
      BY <3>1, Cuts
    <3>3. upTo[k - 1] = [j \in 1..Cut(k) |-> Taken(j)]
      BY <3>1, <3>2
    <3>4. seqs[k] = Part(k)
      OBVIOUS
    <3> HIDE DEF upTo, seqs
    <3> QED
      BY <2>3, <2>5, <3>3, <3>4
  <2>6. ASSUME NEW k \in 1..m PROVE upTo[k] \in Seq(Nat \X Nat)
    <3> DEFINE S == {i \in Nat : 1 <= i /\ i <= m /\ ~ (upTo[i] \in Seq(Nat \X Nat))}
    <3> SUFFICES ASSUME S # {} PROVE FALSE
      <4> HIDE DEF upTo
      <4> QED
        BY <1>0
    <3>1. PICK i \in S : \A j \in S : i <= j
      <4>1. S \in SUBSET Nat
        OBVIOUS
      <4> HIDE DEF S
      <4> QED
        BY <4>1, Smallest
    <3>2. i \in Nat /\ i \in 1..m /\ ~ (upTo[i] \in Seq(Nat \X Nat))
      <4> HIDE DEF upTo
      <4> QED
        BY <1>0
    <3>3. i # 1
      <4> HIDE DEF upTo, seqs
      <4> QED
        BY <2>4, <3>2
    <3>4. i - 1 \notin S
      <4>1. ~ (i <= i - 1)
        BY <3>2
      <4> HIDE DEF S
      <4> QED
        BY <3>1, <4>1
    <3>5. i - 1 \in Nat /\ 1 <= i - 1 /\ i - 1 <= m
      BY <1>0, <3>2, <3>3
    <3> HIDE DEF upTo, seqs
    <3>6. upTo[i - 1] \in Seq(Nat \X Nat)
      BY <3>4, <3>5
    <3> QED
      BY <2>5, <3>2, <3>3, <3>6
  <2>7. Solves(upTo)
    <3>1. ASSUME NEW i \in 1..m
          PROVE  upTo[i] = IF i = 1 THEN seqs[i] ELSE upTo[i - 1] \o seqs[i]
      <4>1. CASE i = 1
        BY <2>4, <4>1
      <4>2. CASE i # 1
        <5>1. i - 1 \in 1..m
          BY <1>0, <4>2
        <5> HIDE DEF upTo, seqs
        <5>2. upTo[i - 1] \in Seq(Nat \X Nat)
          BY <2>6, <5>1
        <5> QED
          BY <2>5, <4>2, <5>2
      <4> QED
        BY <4>1, <4>2
    <3>2. DOMAIN upTo = 1..m /\ upTo = [i \in 1..m |-> upTo[i]]
      OBVIOUS
    <3>3. Len(seqs) = m
      BY <1>0
    <3> HIDE DEF upTo, seqs
    <3> QED
      BY <3>1, <3>2, <3>3
  <2>8. Solves(flat)
    <3> HIDE DEF Solves, upTo
    <3> QED
      BY <2>7
\* Nothing else does.
  <2>9. flat[m] = upTo[m]
    <3> DEFINE S == {i \in Nat : 1 <= i /\ i <= m /\ flat[i] # upTo[i]}
    <3>1. ASSUME NEW i \in 1..m
          PROVE  /\ flat[i] = IF i = 1 THEN seqs[i] ELSE flat[i - 1] \o seqs[i]
                 /\ upTo[i] = IF i = 1 THEN seqs[i] ELSE upTo[i - 1] \o seqs[i]
      <4>1. Len(seqs) = m
        BY <1>0
      <4> HIDE DEF flat, upTo, seqs, m
      <4> QED
        BY <2>7, <2>8, <4>1
    <3> SUFFICES ASSUME S # {} PROVE FALSE
      <4> HIDE DEF flat, upTo
      <4> QED
        BY <1>0, <2>1
    <3>2. PICK i \in S : \A j \in S : i <= j
      <4>1. S \in SUBSET Nat
        OBVIOUS
      <4> HIDE DEF S
      <4> QED
        BY <4>1, Smallest
    <3>3. i \in Nat /\ i \in 1..m /\ flat[i] # upTo[i]
      <4> HIDE DEF flat, upTo
      <4> QED
        BY <1>0
    <3>4. i # 1
      <4> HIDE DEF flat, upTo, seqs
      <4> QED
        BY <3>1, <3>3
    <3>5. i - 1 \notin S
      <4>1. ~ (i <= i - 1)
        BY <3>3, SMTT(30)
      <4> HIDE DEF S
      <4> QED
        BY <3>2, <4>1
    <3>6. i - 1 \in Nat /\ 1 <= i - 1 /\ i - 1 <= m
      BY <1>0, <3>3, <3>4
    <3> HIDE DEF flat, upTo, seqs
    <3>7. flat[i - 1] = upTo[i - 1]
      BY <3>5, <3>6
    <3> QED
      BY <3>1, <3>3, <3>4, <3>7
  <2>10. Stitched = flat[m]
    <3>1. Len(seqs) = m
      BY <1>0
    <3> HIDE DEF flat, seqs, m
    <3> QED
      BY <1>1, <2>1, <3>1
  <2>11. upTo[m] = [j \in 1..Rank(n) |-> Taken(j)]
    <3>1. m \in 1..m /\ Until(m) = Rank(n)
      BY <1>0, <2>1, Cuts
    <3> QED
      BY <3>1
  <2> QED
    BY <2>9, <2>10, <2>11
<1> QED
  BY <1>2, <1>3

\* What StitchExact says of the answers of a text.
Exactly(answers) ==
    LET tokens == {t \in 1..Len(offsets) : NonEmpty(t)}
        half == geometry[2] \div 2
    IN  /\ Len(answers) = Cardinality(tokens)
        /\ {answers[i][2] : i \in 1..Len(answers)} = tokens
        /\ \A i \in 1..Len(answers) - 1 : answers[i][2] < answers[i + 1][2]
        /\ tokens = 1..Len(offsets) =>
             \A i \in 1..Len(answers) :
                LET k == answers[i][1]
                    t == answers[i][2]
                IN  /\ t - FirstOf(k) >= half \/ FirstOf(k) = 1
                    /\ LastOf(k) - t >= half \/ LastOf(k) = Len(offsets)

\* The token of every rank is taken from a window.
LEMMA TakenFrom ==
    ASSUME Encoded, NEW j \in 1..Rank(Len(offsets))
    PROVE  /\ WindowOf(j) \in 1..WindowCount
           /\ Cut(WindowOf(j)) < j /\ j <= Until(WindowOf(j))
<1>0. WindowCount \in Nat /\ Len(offsets) \in Nat /\ Rank(Len(offsets)) \in Nat /\ j \in Nat /\ 1 <= j
  BY WindowsAre, EncodedIs, RankStep
<1>1. Len(offsets) # 0
  BY <1>0, RankStep
<1>2. WindowCount \in 1..WindowCount
  BY <1>0, <1>1, WindowsAre
<1>3. Until(WindowCount) = Rank(Len(offsets))
  BY <1>2, Cuts
<1> DEFINE S == {k \in Nat : 1 <= k /\ k <= WindowCount /\ j <= Until(k)}
<1>4. WindowCount \in S
  BY <1>0, <1>2, <1>3
<1>5. PICK k \in S : \A l \in S : k <= l
  <2>1. S \in SUBSET Nat /\ S # {}
    BY <1>4
  <2> HIDE DEF S
  <2> QED
    BY <2>1, Smallest
<1>6. k \in 1..WindowCount /\ k \in Nat /\ j <= Until(k) /\ Cut(k) \in Nat /\ Until(k) \in Nat
  BY <1>0, Cuts
<1>7. Cut(k) < j
  <2>1. CASE k = 1
    BY <1>0, <1>6, <2>1, Cuts
  <2>2. CASE k # 1
    <3>1. k - 1 \in 1..WindowCount /\ k - 1 < WindowCount /\ (k - 1) + 1 = k /\ k - 1 \in Nat
      BY <1>0, <1>6, <2>2
    <3>2. Until(k - 1) = Cut(k)
      BY <3>1, Cuts
    <3>3. k - 1 \notin S
      <4>1. ~ (k <= k - 1)
        BY <1>6
      <4> HIDE DEF S
      <4> QED
        BY <1>5, <4>1
    <3>4. ~ (j <= Cut(k))
      BY <1>0, <3>1, <3>2, <3>3
    <3> QED
      BY <1>0, <1>6, <3>4
  <2> QED
    BY <2>1, <2>2
<1>8. j \in Cut(k) + 1..Until(k)
  BY <1>0, <1>6, <1>7
<1>9. WindowOf(j) = k
  BY <1>6, <1>8, WindowOfIs
<1> QED
  BY <1>6, <1>7, <1>9

LEMMA StitchedExactly ==
    ASSUME Encoded
    PROVE  Exactly(Stitched)
<1> DEFINE n == Len(offsets)
           r == Rank(n)
           tokens == {t \in 1..n : NonEmpty(t)}
           half == geometry[2] \div 2
           answers == [j \in 1..r |-> Taken(j)]
<1>0. n \in Nat /\ r \in Nat
  BY EncodedIs, RankStep
<1>1. Stitched = answers
  BY StitchedIs
<1>2. Len(answers) = r
  BY <1>0
<1>3. Cardinality(tokens) = r
  BY DEF Rank, Tokens
<1>4. ASSUME NEW j \in 1..r
      PROVE  /\ answers[j][1] = WindowOf(j) /\ answers[j][2] = TokenAt(j)
             /\ TokenAt(j) \in tokens /\ Rank(TokenAt(j)) = j
  <2>1. answers[j] = <<WindowOf(j), TokenAt(j)>>
    BY DEF Taken
  <2>2. TokenAt(j) \in 1..n /\ NonEmpty(TokenAt(j)) /\ Rank(TokenAt(j)) = j
    BY <1>0, TokenAtIs
  <2> HIDE DEF answers, r
  <2> QED
    BY <2>1, <2>2
<1>5. {answers[i][2] : i \in 1..r} = tokens
  <2>1. ASSUME NEW t \in tokens PROVE \E i \in 1..r : answers[i][2] = t
    <3>1. Rank(t) \in 1..r /\ TokenAt(Rank(t)) = t
      BY <1>0, TokenAtIs
    <3> HIDE DEF answers, r
    <3> QED
      BY <1>4, <3>1
  <2> HIDE DEF answers, r, tokens
  <2> QED
    BY <1>4, <2>1
<1>6. ASSUME NEW i \in 1..r - 1 PROVE answers[i][2] < answers[i + 1][2]
  <2>1. i \in 1..r /\ i + 1 \in 1..r /\ i < i + 1
    BY <1>0
  <2>2. TokenAt(i) < TokenAt(i + 1)
    BY <1>0, <2>1, TokenAtIs
  <2> HIDE DEF answers, r
  <2> QED
    BY <1>4, <2>1, <2>2
\* Where no token is empty, a token is its rank, and a seam is an overlap.
<1>7. ASSUME tokens = 1..n, NEW i \in 1..r
      PROVE  /\ TokenAt(i) - FirstOf(WindowOf(i)) >= half \/ FirstOf(WindowOf(i)) = 1
             /\ LastOf(WindowOf(i)) - TokenAt(i) >= half \/ LastOf(WindowOf(i)) = n
  <2>1. \A u \in 1..n : NonEmpty(u)
    BY <1>7
  <2>2. ASSUME NEW t \in 0..n PROVE Rank(t) = t
    <3>1. 0 \in Nat /\ t \in Nat /\ 0 <= t /\ \A u \in 0 + 1..t : NonEmpty(u)
      BY <1>0, <2>1
    <3>2. Rank(t) - Rank(0) = t - 0
      BY <3>1, RankGap
    <3>3. Rank(0) = 0 /\ Rank(t) \in Nat
      BY <3>1, RankStep
    <3> QED
      BY <3>1, <3>2, <3>3
  <2>3. PICK k \in 1..WindowCount : k = WindowOf(i) /\ Cut(k) < i /\ i <= Until(k)
    BY TakenFrom
  <2>4. TokenAt(i) = i
    <3>1. TokenAt(i) \in 1..n /\ Rank(TokenAt(i)) = i
      BY <1>0, TokenAtIs
    <3> QED
      BY <2>2, <3>1
  <2>5. ASSUME NEW l \in 1..WindowCount
        PROVE  /\ FirstOf(l) \in Nat /\ LastOf(l) \in Nat
               /\ 1 <= FirstOf(l) /\ FirstOf(l) <= LastOf(l) /\ LastOf(l) <= n
               /\ From(l) = FirstOf(l) - 1 /\ To(l) = LastOf(l)
               /\ l < WindowCount => FirstOf(l + 1) = LastOf(l) - geometry[2] + 1
    <3>1. /\ FirstOf(l) \in Nat /\ LastOf(l) \in Nat
          /\ 1 <= FirstOf(l) /\ FirstOf(l) <= LastOf(l) /\ LastOf(l) <= n
          /\ l < WindowCount => FirstOf(l + 1) = LastOf(l) - geometry[2] + 1
      BY WindowIs
    <3>2. FirstOf(l) - 1 \in 0..n /\ LastOf(l) \in 0..n
      BY <1>0, <3>1
    <3> QED
      BY <2>2, <3>1, <3>2 DEF From, To
  <2>6. WindowCount \in Nat /\ geometry[2] \in Nat
    BY WindowsAre, EncodedIs
  <2>7. half \in Nat /\ half <= geometry[2] - half /\ geometry[2] - half \in Nat
    <3>1. half \in Nat /\ 2 * half <= geometry[2]
      BY <2>6, Half
    <3> HIDE DEF half
    <3> QED
      BY <2>6, <3>1
  <2>8. ASSUME NEW l \in 1..WindowCount - 1 PROVE Shared(l) = geometry[2]
    <3>1. l \in 1..WindowCount /\ l + 1 \in 1..WindowCount /\ l < WindowCount
      BY <2>6
    <3>2. To(l) = LastOf(l) /\ FirstOf(l + 1) = LastOf(l) - geometry[2] + 1 /\ LastOf(l) \in Nat
      BY <2>5, <3>1
    <3>3. From(l + 1) = FirstOf(l + 1) - 1
      BY <2>5, <3>1
    <3>4. To(l) - From(l + 1) = geometry[2]
      BY <2>6, <3>2, <3>3
    <3> QED
      BY <3>4, SharedIs
  <2>9. i - FirstOf(k) >= half \/ FirstOf(k) = 1
    <3>1. CASE k = 1
      <4>1. FirstOf(1) = 1
        BY Ranges
      <4> QED
        BY <3>1, <4>1
    <3>2. CASE k # 1
      <4>1. k - 1 \in 1..WindowCount - 1
        BY <2>6, <3>2
      <4>2. FrontCut(k) = half
        BY <2>8, <3>2, <4>1 DEF FrontCut
      <4>3. Cut(k) = FirstOf(k) - 1 + half
        BY <2>5, <4>2 DEF Cut
      <4> HIDE DEF half, r
      <4> QED
        BY <2>3, <2>5, <2>7, <4>3
    <3> QED
      BY <3>1, <3>2
  <2>10. LastOf(k) - i >= half \/ LastOf(k) = n
    <3>1. CASE k = WindowCount
      <4>1. n # 0
        BY <1>0, <2>3, WindowsAre
      <4>2. LastOf(WindowCount) = n
        BY <4>1, WindowsAre
      <4> QED
        BY <3>1, <4>2
    <3>2. CASE k # WindowCount
      <4>1. k \in 1..WindowCount - 1
        BY <2>6, <3>2
      <4>2. BackCut(k) = geometry[2] - half
        BY <2>8, <3>2, <4>1 DEF BackCut
      <4>3. Until(k) = LastOf(k) - (geometry[2] - half)
        BY <2>5, <4>2 DEF Until
      <4>4. LastOf(k) \in Nat /\ i \in Nat /\ geometry[2] \in Nat /\ half \in Nat
        BY <1>0, <2>5, <2>6, <2>7
      <4>5. half <= geometry[2] - half /\ i <= LastOf(k) - (geometry[2] - half)
        BY <2>3, <2>7, <4>3
      <4> HIDE DEF half, r
      <4> QED
        BY <4>4, <4>5
    <3> QED
      BY <3>1, <3>2
  <2> QED
    BY <2>3, <2>4, <2>9, <2>10
<1>8. Exactly(answers)
  <2> HIDE DEF answers, r, tokens, half
  <2>1. /\ Len(answers) = Cardinality(tokens)
        /\ {answers[i][2] : i \in 1..Len(answers)} = tokens
        /\ \A i \in 1..Len(answers) - 1 : answers[i][2] < answers[i + 1][2]
    BY <1>2, <1>3, <1>5, <1>6
  <2>2. ASSUME tokens = 1..n, NEW i \in 1..Len(answers)
        PROVE  /\ answers[i][2] - FirstOf(answers[i][1]) >= half \/ FirstOf(answers[i][1]) = 1
               /\ LastOf(answers[i][1]) - answers[i][2] >= half \/ LastOf(answers[i][1]) = n
    BY <1>2, <1>4, <1>7, <2>2
  <2> QED
    BY <2>1, <2>2 DEF Exactly, tokens, half
<1> QED
  BY <1>1, <1>8

LEMMA LeastOf ==
    ASSUME NEW S \in SUBSET Nat, NEW x \in S
    PROVE  Min(S) \in S /\ Min(S) <= x /\ \A y \in S : Min(S) <= y
<1>1. \E m \in S : \A y \in S : m =< y
  BY Smallest
<1>2. Min(S) \in S /\ \A y \in S : Min(S) =< y
  BY <1>1, Zenon DEF Min
<1> QED
  BY <1>2

LEMMA GreatestOf ==
    ASSUME NEW b \in Nat, NEW S \in SUBSET (0..b), NEW x \in S
    PROVE  Max(S) \in S /\ x <= Max(S)
<1> DEFINE R == {r \in Nat : b - r \in S}
<1>1. b - x \in R
  <2>1. x \in 0..b
    OBVIOUS
  <2> QED
    BY <2>1
<1>2. PICK r \in R : \A t \in R : r <= t
  <2>1. R \in SUBSET Nat /\ R # {}
    BY <1>1
  <2> HIDE DEF R
  <2> QED
    BY <2>1, Smallest
<1> DEFINE m == b - r
<1>3. m \in S /\ \A y \in S : m >= y
  <2>1. ASSUME NEW y \in S PROVE m >= y
    <3>1. y \in 0..b /\ b - (b - y) = y /\ b - y \in Nat
      OBVIOUS
    <3>2. b - y \in R
      BY <3>1
    <3>3. r <= b - y /\ r \in Nat
      <4> HIDE DEF R
      <4>1. r <= b - y
        BY <1>2, <3>2
      <4>2. r \in Nat
        BY DEF R
      <4> QED
        BY <4>1, <4>2
    <3> QED
      BY <3>1, <3>3
  <2> QED
    BY <2>1
<1> HIDE DEF m
<1>4. Max(S) \in S /\ \A y \in S : Max(S) >= y
  BY <1>3, Zenon DEF Max
<1>5. Max(S) >= x /\ Max(S) \in 0..b /\ x \in 0..b
  BY <1>4
<1> QED
  BY <1>4, <1>5

\* What is defined of a text changes only with it.
LEMMA SameText ==
    ASSUME text' = text, offsets' = offsets, geometry' = geometry
    PROVE  /\ Encoded' <=> Encoded
           /\ TextCovered' <=> TextCovered
           /\ Stitched' = Stitched
<1>1. Encoded' <=> Encoded
  BY DEF Encoded, Offsets
<1>2. TextCovered' <=> TextCovered
  BY DEF TextCovered, NonEmpty, Chars, Char
<1>3. ASSUME NEW k PROVE FirstOf(k)' = FirstOf(k) /\ LastOf(k)' = LastOf(k)
  BY DEF FirstOf, LastOf
<1>4. WindowCount' = WindowCount
  BY DEF WindowCount, FirstOf, LastOf
<1>5. ASSUME NEW t PROVE NonEmpty(t)' <=> NonEmpty(t)
  BY DEF NonEmpty
<1>6. ASSUME NEW k PROVE Row(k)' = Row(k)
  BY DEF Row, FirstOf, LastOf, NonEmpty
<1>7. ASSUME NEW k PROVE Shared(k)' = Shared(k)
  BY DEF Shared, OffsetsOf, Row, FirstOf, LastOf, NonEmpty
<1>8. ASSUME NEW k PROVE FrontCut(k)' = FrontCut(k) /\ BackCut(k)' = BackCut(k)
  BY <1>4, <1>7 DEF FrontCut, BackCut
<1>9. ASSUME NEW k PROVE Part(k)' = Part(k)
  BY <1>6, <1>8 DEF Part
<1>10. Stitched' = Stitched
  BY <1>4, <1>9 DEF Stitched
<1> QED
  BY <1>1, <1>2, <1>10

-----------------------------------------------------------------------------
(* Decoding *)

LabelTypes == {label[2] : label \in Labels}
Runs == [type : LabelTypes, first : Nat, last : Nat]
SpanType == [type : LabelTypes, start : Nat, end : Nat]

\* Every character of a word among those from s on before e is in a span.
Inside(s, e, all) ==
    \A p \in s..e - 1 :
        p < Len(text) /\ Char(p) = "word" => \E sp \in all : sp.start <= p /\ p < sp.end

\* A span keeps all of the words it is cut from.
LEMMA SnappedCovers ==
    ASSUME Encoded, NEW type \in LabelTypes, NEW s \in Nat, NEW e \in Nat, e <= Len(text)
    PROVE  /\ Snapped(type, s, e) \subseteq SpanType
           /\ Inside(s, e, Snapped(type, s, e))
<1> DEFINE filled == {p \in s..e - 1 : Char(p) # "space"}
           last == Max(filled) + 1
           value == {p \in Min(filled)..last - 1 : Char(p) # "sep"}
           start == IF type \in SeparatorBearing \/ value = {} THEN Min(filled) ELSE Min(value)
           cut == type \notin SeparatorBearing /\ start > 0 /\ Char(start - 1) = "sep"
           reach == {q \in last..Len(text) : cut /\ \A p \in last - 1..q - 1 : Char(p) = "word"}
           end == Max(reach \cup {last})
           span == [type |-> type, start |-> start, end |-> end]
<1>0. Len(text) \in Nat
  BY EncodedIs
<1>1. Snapped(type, s, e) = IF filled = {} THEN {} ELSE {span}
  BY DEF Snapped
<1>2. CASE filled = {}
  <2>1. Snapped(type, s, e) = {}
    BY <1>1, <1>2
  <2>2. ASSUME NEW p \in s..e - 1, Char(p) = "word" PROVE FALSE
    BY <1>2, <2>2
  <2> QED
    BY <2>1, <2>2 DEF Inside
<1>3. CASE filled # {}
  <2>1. filled \in SUBSET Nat /\ filled \in SUBSET (0..Len(text))
    BY <1>0
  <2>2. PICK x : x \in filled
    BY <1>3
  <2>3. Min(filled) \in filled /\ \A y \in filled : Min(filled) <= y
    <3> HIDE DEF filled
    <3> QED
      BY <2>1, <2>2, LeastOf
  <2>4. Max(filled) \in filled /\ \A y \in filled : y <= Max(filled)
    <3>1. ASSUME NEW y \in filled PROVE Max(filled) \in filled /\ y <= Max(filled)
      <4> HIDE DEF filled
      <4> QED
        BY <1>0, <2>1, GreatestOf
    <3> HIDE DEF filled
    <3> QED
      BY <2>2, <3>1
  <2>5. Min(filled) \in Nat /\ Max(filled) \in 0..Len(text) /\ Max(filled) < e /\ last \in Nat
        /\ last <= Len(text)
    <3>1. Min(filled) \in s..e - 1 /\ Max(filled) \in s..e - 1
      BY <2>3, <2>4
    <3> HIDE DEF filled
    <3> QED
      BY <1>0, <3>1
  <2>6. start \in Nat /\ (start = Min(filled) \/ (value # {} /\ start = Min(value)))
        /\ \A y \in value : Min(value) <= y
    <3>1. value \in SUBSET Nat
      <4> HIDE DEF filled, last
      <4> QED
        BY <2>5
    <3>2. ASSUME NEW v \in value PROVE Min(value) \in value /\ \A y \in value : Min(value) <= y
      <4> HIDE DEF value
      <4> QED
        BY <3>1, LeastOf
    <3>3. value # {} => Min(value) \in Nat
      <4> HIDE DEF value
      <4> QED
        BY <3>1, <3>2
    <3> HIDE DEF value, filled
    <3> QED
      BY <2>5, <3>2, <3>3
  <2>7. end \in Nat /\ last <= end
    <3> DEFINE R == reach \cup {last}
    <3>1. R \in SUBSET (0..Len(text)) /\ last \in R
      <4> HIDE DEF last, cut
      <4> QED
        BY <1>0, <2>5
    <3>2. Max(R) \in R /\ last <= Max(R)
      <4> HIDE DEF R, last
      <4> QED
        BY <1>0, <3>1, GreatestOf
    <3> HIDE DEF reach, last
    <3> QED
      BY <1>0, <3>1, <3>2
  <2>8. span \in SpanType
    <3> HIDE DEF start, end
    <3> QED
      BY <2>6, <2>7 DEF SpanType
  <2>9. ASSUME NEW p \in s..e - 1, Char(p) = "word" PROVE start <= p /\ p < end
    <3>1. p \in filled
      BY <2>9
    <3>2. Min(filled) <= p /\ p <= Max(filled) /\ p \in Nat
      <4>1. p \in Nat
        OBVIOUS
      <4> HIDE DEF filled
      <4> QED
        BY <2>3, <2>4, <3>1, <4>1
    <3>3. p \in value
      <4> HIDE DEF filled
      <4> QED
        BY <2>5, <2>9, <3>2
    <3>4. start <= p
      <4> HIDE DEF filled, value, start
      <4> QED
        BY <2>6, <3>2, <3>3
    <3>5. p < end
      <4> HIDE DEF filled, end
      <4> QED
        BY <2>5, <2>7, <3>2
    <3> QED
      BY <3>4, <3>5
  <2>10. Snapped(type, s, e) = {span}
    BY <1>1, <1>3
  <2>11. span.start = start /\ span.end = end
    OBVIOUS
  <2> HIDE DEF span, start, end
  <2> QED
    BY <2>8, <2>9, <2>10, <2>11 DEF Inside
<1> QED
  BY <1>2, <1>3

\* The answers in order, and the characters of the token an answer is about.
Placed ==
    /\ Encoded
    /\ TextCovered
    /\ stitched = Stitched

CharsAt(i) == Chars(offsets[stitched[i][2]])

LEMMA AnswersInOrder ==
    ASSUME Placed
    PROVE  /\ Len(stitched) \in Nat
           /\ \A i \in 1..Len(stitched) :
                stitched[i][2] \in 1..Len(offsets) /\ NonEmpty(stitched[i][2])
           /\ \A i, j \in 1..Len(stitched) : i < j => stitched[i][2] < stitched[j][2]
           /\ \A t \in 1..Len(offsets) : NonEmpty(t) => \E i \in 1..Len(stitched) : stitched[i][2] = t
<1> DEFINE r == Rank(Len(offsets))
<1>0. Encoded /\ Len(offsets) \in Nat /\ r \in Nat
  BY EncodedIs, RankStep DEF Placed
<1>1. stitched = [j \in 1..r |-> Taken(j)]
  BY <1>0, StitchedIs DEF Placed
<1>2. Len(stitched) = r
  BY <1>0, <1>1
<1>3. ASSUME NEW j \in 1..r PROVE stitched[j][2] = TokenAt(j)
  BY <1>1 DEF Taken
<1>4. \A j \in 1..r : TokenAt(j) \in 1..Len(offsets) /\ NonEmpty(TokenAt(j))
  BY <1>0, TokenAtIs
<1>5. \A u \in 1..Len(offsets) : NonEmpty(u) => Rank(u) \in 1..r /\ TokenAt(Rank(u)) = u
  BY <1>0, TokenAtIs
<1>6. \A i, j \in 1..r : i < j => TokenAt(i) < TokenAt(j)
  BY <1>0, TokenAtIs
<1> HIDE DEF r
<1> QED
  BY <1>0, <1>2, <1>3, <1>4, <1>5, <1>6

\* Every word of an accepted text was looked at.
LEMMA EveryWordSeen ==
    ASSUME Placed, NEW p \in 0..Len(text) - 1, Char(p) = "word"
    PROVE  \E i \in 1..Len(stitched) : p \in CharsAt(i)
<1>1. DOMAIN offsets = 1..Len(offsets)
  BY EncodedIs DEF Placed
<1>2. PICK t \in 1..Len(offsets) : NonEmpty(t) /\ p \in Chars(offsets[t])
  <2>1. (\A i \in {u \in DOMAIN offsets : NonEmpty(u)} : p \notin Chars(offsets[i])) => Char(p) = "space"
    BY DEF Placed, TextCovered
  <2> QED
    BY <1>1, <2>1
<1>3. PICK i \in 1..Len(stitched) : stitched[i][2] = t
  BY <1>2, AnswersInOrder
<1> QED
  BY <1>2, <1>3 DEF CharsAt

\* Every word of the token of answer i is in one of the spans.
Spanned(i, all) ==
    \A p \in CharsAt(i) : Char(p) = "word" => \E sp \in all : sp.start <= p /\ p < sp.end

IsRun(r, upTo) == r \in Runs /\ 1 <= r.first /\ r.first <= r.last /\ r.last <= upTo

\* Flushing a run spans the words of all its tokens.
LEMMA FlushedRun ==
    ASSUME Placed, NEW r, IsRun(r, Len(stitched))
    PROVE  /\ r # NoRun
           /\ SpanOf(r) \subseteq SpanType
           /\ \A i \in r.first..r.last : Spanned(i, SpanOf(r))
<1>0. Len(stitched) \in Nat /\ r.first \in 1..Len(stitched) /\ r.last \in 1..Len(stitched)
      /\ r.type \in LabelTypes /\ r.first <= r.last
  BY AnswersInOrder DEF IsRun, Runs
<1>1. r # NoRun
  BY WindowConstantsOK DEF IsRun, Runs, LabelTypes
<1> DEFINE f == stitched[r.first][2]
           l == stitched[r.last][2]
           s == offsets[f][1]
           e == offsets[l][2]
<1>2. SpanOf(r) = Snapped(r.type, s, e)
  BY <1>1 DEF SpanOf
<1>3. f \in 1..Len(offsets) /\ NonEmpty(f) /\ l \in 1..Len(offsets) /\ NonEmpty(l)
  BY <1>0, AnswersInOrder
<1>4. s \in Nat /\ e \in Nat /\ e <= Len(text) /\ Len(text) \in Nat
  <2> HIDE DEF f, l
  <2> QED
    BY <1>3, EncodedIs DEF Placed
<1>5. SpanOf(r) \subseteq SpanType /\ Inside(s, e, SpanOf(r))
  <2> HIDE DEF s, e
  <2> QED
    BY <1>0, <1>2, <1>4, SnappedCovers DEF Placed
<1>6. ASSUME NEW i \in r.first..r.last PROVE Spanned(i, SpanOf(r))
  <2> DEFINE t == stitched[i][2]
  <2>1. i \in 1..Len(stitched)
    BY <1>0
  <2>2. t \in 1..Len(offsets) /\ NonEmpty(t)
    BY <2>1, AnswersInOrder
  <2>3. (f < t \/ f = t) /\ (t < l \/ t = l)
    <3>1. (r.first < i \/ r.first = i) /\ (i < r.last \/ i = r.last)
      BY <1>0, <2>1
    <3> QED
      BY <1>0, <2>1, <3>1, AnswersInOrder
  <2>4. s <= offsets[t][1] /\ offsets[t][2] <= e
    <3> HIDE DEF f, l, t
    <3>1. DOMAIN offsets = 1..Len(offsets)
      BY EncodedIs DEF Placed
    <3>2. \A i1, j1 \in {u \in DOMAIN offsets : NonEmpty(u)} :
            i1 < j1 => offsets[i1][1] <= offsets[j1][1] /\ offsets[i1][2] <= offsets[j1][2]
      BY DEF Placed, TextCovered
    <3>3. offsets[t][1] \in Nat /\ offsets[t][2] \in Nat
      BY <2>2, EncodedIs DEF Placed
    <3>4. f < t => s <= offsets[t][1]
      BY <1>3, <2>2, <3>1, <3>2
    <3>5. t < l => offsets[t][2] <= e
      BY <1>3, <2>2, <3>1, <3>2
    <3> QED
      BY <1>4, <2>3, <3>3, <3>4, <3>5
  <2>5. offsets[t][1] \in Nat /\ offsets[t][2] \in Nat
    <3> HIDE DEF t
    <3> QED
      BY <2>2, EncodedIs DEF Placed
  <2>6. ASSUME NEW p \in CharsAt(i), Char(p) = "word"
        PROVE  \E sp \in SpanOf(r) : sp.start <= p /\ p < sp.end
    <3>1. p \in offsets[t][1]..offsets[t][2] - 1 /\ p < Len(text)
      BY <2>6 DEF CharsAt, Chars
    <3>2. p \in s..e - 1
      <4> HIDE DEF s, e, t
      <4> QED
        BY <1>4, <2>4, <2>5, <3>1
    <3> HIDE DEF s, e, t
    <3> QED
      BY <1>5, <2>6, <3>1, <3>2 DEF Inside
  <2> QED
    BY <2>6 DEF Spanned
<1> QED
  BY <1>1, <1>5, <1>6

\* What the decoder has read so far: every labelled token is in the run being
\* collected, or its words are in a span.
Decoding ==
    /\ at \in 0..Len(stitched)
    /\ tagged \subseteq 1..at
    /\ spans \subseteq SpanType
    /\ collecting # NoRun => IsRun(collecting, at)
    /\ \A i \in tagged :
         \/ collecting # NoRun /\ collecting.first <= i /\ i <= collecting.last
         \/ Spanned(i, spans)

WindowInv ==
    /\ stage # "off" => Encoded
    /\ Inferred => Placed
    /\ stage = "encoded" => at = 0 /\ collecting = NoRun /\ spans = {} /\ tagged = {}
    /\ stage = "decode" => Decoding
    /\ stage = "spans" => \A i \in tagged : Spanned(i, spans)

LEMMA MoreSpans ==
    ASSUME NEW i, NEW A, NEW B, A \subseteq B, Spanned(i, A)
    PROVE  Spanned(i, B)
BY DEF Spanned

\* Flushing whatever is collected spans the words of its tokens.
LEMMA FlushedAll ==
    ASSUME Placed, Decoding
    PROVE  /\ SpanOf(collecting) \subseteq SpanType
           /\ \A i \in tagged : Spanned(i, spans \cup SpanOf(collecting))
<1>1. CASE collecting = NoRun
  <2>1. SpanOf(collecting) = {}
    BY <1>1 DEF SpanOf
  <2>2. spans \cup SpanOf(collecting) = spans
    BY <2>1
  <2> QED
    BY <1>1, <2>1, <2>2 DEF Decoding
<1>2. CASE collecting # NoRun
  <2>1. IsRun(collecting, Len(stitched))
    BY <1>2, AnswersInOrder DEF Decoding, IsRun, Runs
  <2>2. /\ SpanOf(collecting) \subseteq SpanType
        /\ \A i \in collecting.first..collecting.last : Spanned(i, SpanOf(collecting))
    BY <2>1, FlushedRun
  <2>3. ASSUME NEW i \in tagged PROVE Spanned(i, spans \cup SpanOf(collecting))
    <3>1. CASE Spanned(i, spans)
      BY <3>1, MoreSpans
    <3>2. CASE collecting.first <= i /\ i <= collecting.last
      <4>1. i \in Int /\ collecting.first \in Int /\ collecting.last \in Int
        BY <2>1 DEF Decoding, IsRun, Runs
      <4>2. Spanned(i, SpanOf(collecting))
        BY <2>2, <3>2, <4>1
      <4> QED
        BY <4>2, MoreSpans
    <3> QED
      BY <3>1, <3>2 DEF Decoding
  <2> QED
    BY <2>2, <2>3
<1> QED
  BY <1>1, <1>2

LEMMA SameAnswers ==
    ASSUME text' = text, offsets' = offsets, geometry' = geometry, stitched' = stitched
    PROVE  /\ Encoded' <=> Encoded
           /\ Placed' <=> Placed
           /\ \A i : Spanned(i, spans)' <=> Spanned(i, spans')
<1>1. (Encoded' <=> Encoded) /\ (TextCovered' <=> TextCovered) /\ Stitched' = Stitched
  BY SameText
<1>2. ASSUME NEW i PROVE Spanned(i, spans)' <=> Spanned(i, spans')
  BY DEF Spanned, CharsAt, Chars, Char
<1> QED
  BY <1>1, <1>2 DEF Placed

LEMMA WindowInitInv == Init => WindowInv
<1> SUFFICES ASSUME Init PROVE WindowInv
  OBVIOUS
<1>1. CASE WindowsOff
  BY <1>1 DEF WindowsOff, WindowInv, Inferred
<1>2. CASE WindowInit
  <2>1. PICK n \in 0..MaxTokens : offsets \in [1..n -> Offsets] /\ EmptyBetween(offsets)
    BY <1>2 DEF WindowInit
  <2>2. offsets \in Seq(Offsets)
    <3>1. n \in Nat
      BY WindowConstantsOK
    <3> QED
      BY <2>1, <3>1
  <2> QED
    BY <1>2, <2>1, <2>2 DEF WindowInit, WindowInv, Inferred, Encoded
<1> QED
  BY <1>1, <1>2 DEF Init

LEMMA InferKeeps ==
    ASSUME WindowInv, Infer
    PROVE  WindowInv'
<1>1. Encoded
  BY DEF Infer, WindowInv
<1>2. text' = text /\ offsets' = offsets /\ geometry' = geometry
  BY DEF Infer
<1>3. (Encoded' <=> Encoded) /\ (TextCovered' <=> TextCovered) /\ Stitched' = Stitched
  BY <1>2, SameText
<1>4. CASE TokensCovered /\ TextCovered
  <2>1. stage' = "decode" /\ stitched' = Stitched
    BY <1>4 DEF Infer
  <2>2. Placed'
    BY <1>1, <1>3, <1>4, <2>1 DEF Placed
  <2>3. at' = 0 /\ collecting' = NoRun /\ spans' = {} /\ tagged' = {}
    BY DEF Infer, WindowInv
  <2>4. Len(stitched)' \in Nat
    <3>1. Len(offsets) \in Nat /\ Rank(Len(offsets)) \in Nat
      BY <1>1, EncodedIs, RankStep
    <3>2. Stitched = [t \in 1..Rank(Len(offsets)) |-> Taken(t)]
      BY <1>1, StitchedIs
    <3> QED
      BY <2>1, <3>1, <3>2
  <2>5. Decoding'
    BY <2>3, <2>4 DEF Decoding
  <2> QED
    BY <1>1, <1>3, <2>1, <2>2, <2>5 DEF WindowInv
<1>5. CASE ~ (TokensCovered /\ TextCovered)
  <2>1. stage' = "error"
    BY <1>5 DEF Infer
  <2> QED
    BY <1>1, <1>3, <2>1 DEF WindowInv, Inferred
<1> QED
  BY <1>4, <1>5

LEMMA DecodeOutsideKeeps ==
    ASSUME WindowInv, DecodeOutside
    PROVE  WindowInv'
<1>1. stage = "decode" /\ Placed /\ Decoding /\ Encoded
  BY DEF DecodeOutside, WindowInv, Inferred
<1>2. /\ Encoded' <=> Encoded
      /\ Placed' <=> Placed
      /\ \A i : Spanned(i, spans)' <=> Spanned(i, spans')
  BY SameAnswers DEF DecodeOutside
<1>3. /\ SpanOf(collecting) \subseteq SpanType
      /\ \A i \in tagged : Spanned(i, spans \cup SpanOf(collecting))
  BY <1>1, FlushedAll
<1>4. /\ stage' = stage /\ stitched' = stitched /\ tagged' = tagged /\ at' = at + 1
      /\ at < Len(stitched) /\ collecting' = NoRun /\ spans' = spans \cup SpanOf(collecting)
  BY DEF DecodeOutside
<1>5. Decoding'
  <2>1. Len(stitched) \in Nat
    BY <1>1, AnswersInOrder
  <2>2. at' \in 0..Len(stitched)' /\ tagged' \subseteq 1..at'
    BY <1>1, <1>4, <2>1 DEF Decoding
  <2>3. spans' \subseteq SpanType
    BY <1>1, <1>3, <1>4 DEF Decoding
  <2>4. \A i \in tagged' : Spanned(i, spans)'
    BY <1>2, <1>3, <1>4
  <2> QED
    BY <1>4, <2>2, <2>3, <2>4 DEF Decoding, SpanType, LabelTypes
<1> QED
  BY <1>1, <1>2, <1>4, <1>5 DEF WindowInv

LEMMA DecodeLabelKeeps ==
    ASSUME WindowInv, NEW label \in Labels, DecodeLabel(label[1], label[2])
    PROVE  WindowInv'
<1> DEFINE prefix == label[1]
           type == label[2]
           i == at + 1
           goesOn == prefix \in {"I", "E"} /\ collecting # NoRun /\ collecting.type = type
           run == IF goesOn THEN [collecting EXCEPT !.last = i] ELSE Run(type, i)
           ends == prefix = "S" \/ (prefix = "E" /\ goesOn)
           kept == IF goesOn THEN {} ELSE SpanOf(collecting)
           flushed == IF ends THEN SpanOf(run) ELSE {}
<1>1. stage = "decode" /\ Placed /\ Decoding /\ Encoded
  BY DEF DecodeLabel, WindowInv, Inferred
<1>2. /\ Encoded' <=> Encoded
      /\ Placed' <=> Placed
      /\ \A x : Spanned(x, spans)' <=> Spanned(x, spans')
  BY SameAnswers DEF DecodeLabel
<1>3. /\ stage' = stage /\ stitched' = stitched /\ tagged' = tagged \cup {i} /\ at' = i
      /\ at < Len(stitched) /\ collecting' = (IF ends THEN NoRun ELSE run)
      /\ spans' = spans \cup kept \cup flushed
  BY DEF DecodeLabel
<1>4. Len(stitched) \in Nat /\ at \in Nat /\ i \in Nat /\ 1 <= i /\ i <= Len(stitched)
      /\ type \in LabelTypes /\ tagged \subseteq 1..at
  <2>1. Len(stitched) \in Nat
    BY <1>1, AnswersInOrder
  <2> QED
    BY <1>1, <1>3, <2>1 DEF Decoding, LabelTypes
\* The run goes on from what was collected, or from nothing.
<1>5. /\ IsRun(run, i) /\ run.last = i
      /\ goesOn => run.first = collecting.first /\ collecting.last <= i
                   /\ collecting.first \in Nat /\ collecting.last \in Nat
  <2>1. CASE goesOn
    <3>1. IsRun(collecting, at)
      BY <1>1, <2>1 DEF Decoding
    <3>2. run = [collecting EXCEPT !.last = i]
      BY <2>1
    <3>3. run = [type |-> collecting.type, first |-> collecting.first, last |-> i]
      <4> HIDE DEF i
      <4> QED
        BY <3>1, <3>2 DEF IsRun, Runs
    <3> HIDE DEF run
    <3> QED
      BY <1>4, <3>1, <3>3 DEF IsRun, Runs
  <2>2. CASE ~ goesOn
    <3>1. run = [type |-> type, first |-> i, last |-> i]
      BY <2>2 DEF Run
    <3> HIDE DEF run, goesOn
    <3> QED
      BY <1>4, <2>2, <3>1 DEF IsRun, Runs
  <2> QED
    BY <2>1, <2>2
<1> HIDE DEF run
<1>6. IsRun(run, Len(stitched))
  BY <1>4, <1>5 DEF IsRun, Runs
<1>7. /\ run # NoRun
      /\ SpanOf(run) \subseteq SpanType
      /\ \A x \in run.first..run.last : Spanned(x, SpanOf(run))
  BY <1>1, <1>6, FlushedRun
<1>8. /\ SpanOf(collecting) \subseteq SpanType
      /\ \A x \in tagged : Spanned(x, spans \cup SpanOf(collecting))
  BY <1>1, FlushedAll
<1>9. spans' \subseteq SpanType
  BY <1>1, <1>3, <1>7, <1>8 DEF Decoding
\* Every labelled token is in the run, unless its words were in a span before.
<1>10. ASSUME NEW x \in tagged'
       PROVE  (run.first <= x /\ x <= run.last) \/ Spanned(x, spans')
  <2>1. CASE x = i
    BY <1>4, <1>5, <2>1 DEF IsRun, Runs
  <2>2. CASE x # i
    <3>1. x \in tagged /\ x \in Nat /\ x <= i
      BY <1>3, <1>4, <2>2
    <3>2. CASE goesOn
      <4>1. (collecting.first <= x /\ x <= collecting.last) \/ Spanned(x, spans)
        BY <1>1, <3>1 DEF Decoding
      <4>2. CASE collecting.first <= x /\ x <= collecting.last
        BY <1>4, <1>5, <3>1, <3>2, <4>2
      <4>3. CASE Spanned(x, spans)
        <5>1. spans \subseteq spans'
          BY <1>3
        <5> QED
          BY <4>3, <5>1, MoreSpans
      <4> QED
        BY <4>1, <4>2, <4>3
    <3>3. CASE ~ goesOn
      <4>1. Spanned(x, spans \cup SpanOf(collecting))
        BY <1>8, <3>1
      <4>2. spans \cup SpanOf(collecting) \subseteq spans'
        BY <1>3, <3>3
      <4> QED
        BY <4>1, <4>2, MoreSpans
    <3> QED
      BY <3>2, <3>3
  <2> QED
    BY <2>1, <2>2
<1>11. Decoding'
  <2>1. at' \in 0..Len(stitched)' /\ tagged' \subseteq 1..at'
    BY <1>3, <1>4
  <2>2. CASE ends
    <3>1. collecting' = NoRun /\ SpanOf(run) \subseteq spans'
      BY <1>3, <2>2
    <3>2. ASSUME NEW x \in tagged' PROVE Spanned(x, spans')
      <4>1. CASE run.first <= x /\ x <= run.last
        <5>1. x \in run.first..run.last
          BY <1>3, <1>4, <1>5, <4>1 DEF IsRun, Runs
        <5>2. Spanned(x, SpanOf(run))
          BY <1>7, <5>1
        <5> QED
          BY <3>1, <5>2, MoreSpans
      <4> QED
        BY <1>10, <4>1
    <3>3. \A x \in tagged' : Spanned(x, spans)'
      BY <1>2, <3>2
    <3> HIDE DEF i, ends
    <3> QED
      BY <1>9, <2>1, <3>1, <3>3 DEF Decoding, SpanType, LabelTypes
  <2>3. CASE ~ ends
    <3>1. collecting' = run /\ at' = i
      BY <1>3, <2>3
    <3>2. \A x \in tagged' : (collecting'.first <= x /\ x <= collecting'.last) \/ Spanned(x, spans)'
      BY <1>2, <1>10, <3>1
    <3>3. IsRun(collecting, at)'
      BY <1>5, <3>1 DEF IsRun, Runs, LabelTypes
    <3>4. collecting' # NoRun
      BY <1>7, <3>1
    <3> HIDE DEF i, ends
    <3> QED
      BY <1>9, <2>1, <3>2, <3>3, <3>4 DEF Decoding, SpanType, LabelTypes
  <2> QED
    BY <2>2, <2>3
<1> HIDE DEF i, ends
<1> QED
  BY <1>1, <1>2, <1>3, <1>11 DEF WindowInv

\* A span that is widened to whole words covers what it did.
LEMMA Widening ==
    ASSUME Encoded, NEW sp \in SpanType
    PROVE  ToWholeWords(sp).start <= sp.start /\ sp.end <= ToWholeWords(sp).end
           /\ ToWholeWords(sp).start \in Nat /\ ToWholeWords(sp).end \in Nat
<1> DEFINE Word(p, q) == \A r \in p..q : Char(r) = "word"
           start == {p \in 0..sp.start : Word(p, sp.start)}
           end == {q \in sp.end..Len(text) : Word(sp.end - 1, q - 1)}
           S == start \cup {sp.start}
           E == end \cup {sp.end}
           b == IF Len(text) >= sp.end THEN Len(text) ELSE sp.end
           least == Min(S)
           greatest == Max(E)
<1>0. Len(text) \in Nat /\ sp.start \in Nat /\ sp.end \in Nat
  BY EncodedIs DEF SpanType
<1>1. ToWholeWords(sp) = [sp EXCEPT !.start = least, !.end = greatest]
  BY DEF ToWholeWords
<1>2. S \in SUBSET Nat /\ sp.start \in S
  <2> HIDE DEF Word
  <2> QED
    BY <1>0
<1>3. least \in S /\ least <= sp.start
  <2> HIDE DEF S
  <2> QED
    BY <1>2, LeastOf
<1>4. E \in SUBSET (0..b) /\ sp.end \in E /\ b \in Nat
  <2> HIDE DEF Word
  <2> QED
    BY <1>0
<1>5. greatest \in E /\ sp.end <= greatest
  <2> HIDE DEF E, b
  <2> QED
    BY <1>4, GreatestOf
<1>6. least \in Nat /\ greatest \in Nat
  <2> HIDE DEF S, E, b, least, greatest
  <2> QED
    BY <1>2, <1>3, <1>4, <1>5
<1> HIDE DEF S, E, least, greatest
<1>7. ToWholeWords(sp).start = least /\ ToWholeWords(sp).end = greatest
  BY <1>1 DEF SpanType
<1> QED
  BY <1>3, <1>5, <1>6, <1>7

LEMMA DecodeEndsKeeps ==
    ASSUME WindowInv, DecodeEnds
    PROVE  WindowInv'
<1> DEFINE all == spans \cup SpanOf(collecting)
<1>1. stage = "decode" /\ Placed /\ Decoding /\ Encoded
  BY DEF DecodeEnds, WindowInv, Inferred
<1>2. /\ Encoded' <=> Encoded
      /\ Placed' <=> Placed
      /\ \A x : Spanned(x, spans)' <=> Spanned(x, spans')
  BY SameAnswers DEF DecodeEnds
<1>3. all \subseteq SpanType /\ \A i \in tagged : Spanned(i, all)
  BY <1>1, FlushedAll DEF Decoding
<1>4. stage' = "spans" /\ tagged' = tagged
      /\ spans' = (IF wholeWords THEN {ToWholeWords(sp) : sp \in all} ELSE all)
  BY DEF DecodeEnds
<1> HIDE DEF all
<1>5. ASSUME NEW i \in tagged PROVE Spanned(i, spans')
  <2>1. CASE ~ wholeWords
    BY <1>3, <1>4, <2>1
  <2>2. CASE wholeWords
    <3> SUFFICES ASSUME NEW p \in CharsAt(i), Char(p) = "word"
                 PROVE  \E sp \in spans' : sp.start <= p /\ p < sp.end
      BY DEF Spanned
    <3>1. PICK sp \in all : sp.start <= p /\ p < sp.end
      BY <1>3 DEF Spanned
    <3>2. sp \in SpanType /\ p \in Int /\ ToWholeWords(sp) \in spans'
      <4>1. p \in Int
        BY DEF CharsAt, Chars
      <4>2. sp \in SpanType /\ ToWholeWords(sp) \in spans'
        BY <1>3, <1>4, <2>2
      <4> QED
        BY <4>1, <4>2
    <3>3. /\ ToWholeWords(sp).start <= sp.start /\ sp.end <= ToWholeWords(sp).end
          /\ ToWholeWords(sp).start \in Nat /\ ToWholeWords(sp).end \in Nat
      BY <1>1, <3>2, Widening
    <3>4. sp.start \in Nat /\ sp.end \in Nat
      BY <3>2 DEF SpanType
    <3>5. ToWholeWords(sp).start <= p /\ p < ToWholeWords(sp).end
      BY <3>1, <3>2, <3>3, <3>4
    <3> QED
      BY <3>2, <3>5
  <2> QED
    BY <2>1, <2>2
<1>6. \A i \in tagged' : Spanned(i, spans)'
  BY <1>2, <1>4, <1>5
<1> QED
  BY <1>1, <1>2, <1>4, <1>6 DEF WindowInv

LEMMA WindowStill ==
    ASSUME WindowInv, UNCHANGED windowVars
    PROVE  WindowInv'
<1>1. /\ stage' = stage /\ at' = at /\ collecting' = collecting /\ spans' = spans
      /\ tagged' = tagged /\ stitched' = stitched
  BY DEF windowVars
<1>2. /\ Encoded' <=> Encoded
      /\ Placed' <=> Placed
      /\ \A i : Spanned(i, spans)' <=> Spanned(i, spans')
  BY SameAnswers DEF windowVars
<1>3. Decoding' <=> Decoding
  BY <1>1, <1>2 DEF Decoding, SpanType, LabelTypes, IsRun, Runs
<1> QED
  BY <1>1, <1>2, <1>3 DEF WindowInv, Inferred

LEMMA WindowInductive == Spec => []WindowInv
<1>1. WindowInv /\ [Next]_vars => WindowInv'
  <2> SUFFICES ASSUME WindowInv, [Next]_vars PROVE WindowInv'
    OBVIOUS
  <2>1. CASE WindowNext
    BY <2>1, InferKeeps, DecodeOutsideKeeps, DecodeLabelKeeps, DecodeEndsKeeps DEF WindowNext
  <2>2. CASE WindowedAnswers
    BY <2>2 DEF WindowedAnswers, WindowInv, Inferred
  <2>3. CASE UNCHANGED windowVars
    BY <2>3, WindowStill
  <2> QED
    BY <2>1, <2>2, <2>3 DEF Next, OthersAnswer, OneFails, vars
<1> QED
  BY <1>1, WindowInitInv, PTL DEF Spec

\* However windows overlap and whichever tokens are empty, stitching the halves of the
\* overlaps gives every token that shows text one label, in order, and where no token is
\* empty from a window with half an overlap of context on either side (StitchExact).
THEOREM StitchesExactly == Spec => []StitchExact
<1>1. WindowInv => StitchExact
  <2> SUFFICES ASSUME WindowInv, Inferred PROVE StitchExact
    BY DEF StitchExact
  <2>1. Encoded /\ stitched = Stitched
    BY DEF WindowInv, Placed
  <2>2. Exactly(stitched)
    BY <2>1, StitchedExactly
  <2> QED
    BY <2>2 DEF StitchExact, Exactly
<1> QED
  BY <1>1, WindowInductive, PTL

\* Every word of a text that was accepted lies under the tokens that are decoded, and
\* when the decoder is through every character of a word with an entity's label is in a
\* span, whatever labels stand beside it and wherever windows end (LabelledCovered).
THEOREM CoversLabelled == Spec => []LabelledCovered
<1>1. WindowInv => LabelledCovered
  <2> SUFFICES ASSUME WindowInv PROVE LabelledCovered
    OBVIOUS
  <2>1. ASSUME Inferred, NEW p \in 0..Len(text) - 1, Char(p) = "word"
        PROVE  \E i \in 1..Len(stitched) : p \in Chars(offsets[stitched[i][2]])
    BY <2>1, EveryWordSeen DEF WindowInv, CharsAt
  <2>2. ASSUME stage = "spans", NEW i \in tagged, NEW p \in Chars(offsets[stitched[i][2]]),
               Char(p) = "word"
        PROVE  \E sp \in spans : sp.start <= p /\ p < sp.end
    BY <2>2 DEF WindowInv, Spanned, CharsAt
  <2> QED
    BY <2>1, <2>2 DEF LabelledCovered
<1> QED
  BY <1>1, WindowInductive, PTL

-----------------------------------------------------------------------------
(* The whole of detection *)

\* A text's detection is a run of the merge and the allow list over what the detectors
\* reported, the windowed one among them: what is proved of those holds of it.
THEOREM DetectionMerges == Spec => MergeSpec
<1>1. Init => MergeInit
  BY DEF Init
<1>2. [Next]_vars => [MergeNext]_mergeVars
  <2> SUFFICES ASSUME [Next]_vars PROVE [MergeNext]_mergeVars
    OBVIOUS
  <2>1. CASE WindowNext /\ UNCHANGED mergeVars
    BY <2>1
  <2>2. CASE OthersAnswer
    <3>1. PICK R \in Reports : Gather(R)
      BY <2>2 DEF OthersAnswer
    <3>2. R \in SUBSET Entity
      BY DetectionConstantsOK
    <3> QED
      BY <3>1, <3>2 DEF MergeNext
  <2>3. CASE WindowedAnswers
    <3>1. PICK R \in Answers : Gather(R)
      BY <2>3 DEF WindowedAnswers
    <3>2. R \in SUBSET Entity
      BY DEF Answers
    <3> QED
      BY <3>1, <3>2 DEF MergeNext
  <2>4. CASE OneFails
    BY <2>4 DEF OneFails, MergeNext
  <2>5. CASE Process /\ UNCHANGED windowVars
    BY <2>5 DEF MergeNext
  <2>6. CASE UNCHANGED vars
    BY <2>6 DEF vars
  <2> QED
    BY <2>1, <2>2, <2>3, <2>4, <2>5, <2>6 DEF Next
<1> QED
  BY <1>1, <1>2, PTL DEF Spec, MergeSpec

=============================================================================
