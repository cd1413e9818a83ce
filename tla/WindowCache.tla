----------------------------- MODULE WindowCache -----------------------------
(***************************************************************************)
(* The per-request prediction cache: pii/window_cache.py and the windowed   *)
(* detectors that use it (_run_window of detector_onnx and detector_minilm).*)
(*                                                                         *)
(* An async call decorated with inference_request opens a scope unless one  *)
(* is current, so the gateway, engine and detector calls of one request     *)
(* share the outermost one's cache.  The detectors work in threads, in a    *)
(* copy of the context: a thread keeps the cache that was current when it   *)
(* was started, and cancelling the request does not stop it.                *)
(*                                                                         *)
(* A task serves one request after the other, each under a fresh cache.     *)
(* Which entry a full cache evicts is left open; a prediction is named by   *)
(* the session and the input it was computed from.                          *)
(***************************************************************************)
EXTENDS Integers, FiniteSets

CONSTANTS
    Tasks,      \* asyncio tasks, each running one request at a time
    Workers,    \* threads of asyncio.to_thread
    Sessions,   \* loaded models
    Inputs,     \* model inputs of one window
    MaxWindows, \* WindowCache._max_windows
    MaxDepth,   \* bound: nesting of decorated calls
    MaxCaches,  \* bound: outermost calls
    None

ASSUME ConstantsOK ==
    /\ MaxWindows \in Nat \ {0}
    /\ MaxDepth \in Nat /\ MaxCaches \in Nat
    /\ None \notin Nat /\ None \notin Tasks
    /\ None \notin Sessions \X Inputs

Caches == 1..MaxCaches
Keys == Sessions \X Inputs

\* What the model answers for a window.
Predicted(k) == k

VARIABLES
    made,    \* how many caches have been made
    owner,   \* history: cache -> the task whose outermost call made it
    closed,  \* WindowCache._closed
    stored,  \* WindowCache._entries: cache -> key -> prediction
    current, \* task -> the context variable _current
    depth,   \* task -> nesting of its decorated calls
    worker   \* thread -> what it runs

cacheVars == <<made, owner, closed, stored, current, depth, worker>>

Free == [pc |-> "free", cache |-> None, task |-> None, key |-> None,
         prediction |-> None, from |-> None]

CacheInit ==
    /\ made = 0
    /\ owner = [c \in Caches |-> None]
    /\ closed = [c \in Caches |-> FALSE]
    /\ stored = [c \in Caches |-> <<>>]
    /\ current = [t \in Tasks |-> None]
    /\ depth = [t \in Tasks |-> 0]
    /\ worker = [w \in Workers |-> Free]

-----------------------------------------------------------------------------
(* inference_request *)

\* The outermost call makes a cache.
Open(t) ==
    /\ current[t] = None
    /\ made < MaxCaches
    /\ made' = made + 1
    /\ owner' = [owner EXCEPT ![made + 1] = t]
    /\ current' = [current EXCEPT ![t] = made + 1]
    /\ depth' = [depth EXCEPT ![t] = 1]
    /\ UNCHANGED <<closed, stored, worker>>

\* A call inside another one joins its cache.
Nest(t) ==
    /\ current[t] # None
    /\ depth[t] < MaxDepth
    /\ depth' = [depth EXCEPT ![t] = @ + 1]
    /\ UNCHANGED <<made, owner, closed, stored, current, worker>>

CloseCache(c) ==
    /\ closed' = [closed EXCEPT ![c] = TRUE]
    /\ stored' = [stored EXCEPT ![c] = <<>>]

LeaveNestedClosing(t) ==
    /\ depth[t] > 1
    /\ CloseCache(current[t])
    /\ depth' = [depth EXCEPT ![t] = @ - 1]
    /\ UNCHANGED <<made, owner, current, worker>>
LeaveNested(t) ==
    /\ depth[t] > 1
    /\ depth' = [depth EXCEPT ![t] = @ - 1]
    /\ UNCHANGED <<made, owner, closed, stored, current, worker>>

\* The outermost call returns, raises or is cancelled: its finally block runs.
Close(t) ==
    /\ depth[t] = 1
    /\ CloseCache(current[t])
    /\ current' = [current EXCEPT ![t] = None]
    /\ depth' = [depth EXCEPT ![t] = 0]
    /\ UNCHANGED <<made, owner, worker>>

-----------------------------------------------------------------------------
(* _run_window in a thread *)

\* The cache a thread sees is the one current where it was started.
ContextOfAnyTask(t) == IF made = 0 THEN None ELSE made
ContextOf(t) == current[t]

AtWindow(t, c, k) == [pc |-> "get", cache |-> c, task |-> t, key |-> k,
                      prediction |-> None, from |-> None]

Start(w, t, k) ==
    /\ worker[w].pc = "free"
    /\ depth[t] > 0
    /\ worker' = [worker EXCEPT ![w] = AtWindow(t, ContextOf(t), k)]
    /\ UNCHANGED <<made, owner, closed, stored, current, depth>>

\* WindowCache.key covers the session as well as the input.
SlotInputOnly(k) == CHOOSE x \in Keys : x[2] = k[2]
Slot(k) == k

Found(w) ==
    LET c == worker[w].cache IN
    /\ worker[w].pc = "get"
    /\ Slot(worker[w].key) \in DOMAIN stored[c]
    /\ worker' = [worker EXCEPT ![w].pc = "ready", ![w].from = owner[c],
                    ![w].prediction = stored[c][Slot(worker[w].key)]]
    /\ UNCHANGED <<made, owner, closed, stored, current, depth>>

\* The model runs on the window.
Compute(w) ==
    /\ worker[w].pc = "get"
    /\ Slot(worker[w].key) \notin DOMAIN stored[worker[w].cache]
    /\ worker' = [worker EXCEPT ![w].pc = "put", ![w].from = worker[w].task,
                    ![w].prediction = Predicted(worker[w].key)]
    /\ UNCHANGED <<made, owner, closed, stored, current, depth>>

\* put under the lock: refused by a closed cache.
AlwaysAccepts(c) == TRUE
Accepts(c) == ~closed[c]

\* The keys after one is put: at most MaxWindows, the new one among them.
Retains(c, k, ks) ==
    /\ k \in ks
    /\ ks \subseteq DOMAIN stored[c] \cup {k}
    /\ Cardinality(ks) <= MaxWindows
    /\ Cardinality(DOMAIN stored[c] \cup {k}) <= MaxWindows
          => ks = DOMAIN stored[c] \cup {k}

Put(w) ==
    LET c == worker[w].cache
        k == Slot(worker[w].key)
    IN
    /\ worker[w].pc = "put"
    /\ IF Accepts(c)
       THEN \E ks \in SUBSET Keys :
              /\ Retains(c, k, ks)
              /\ stored' = [stored EXCEPT ![c] =
                   [x \in ks |-> IF x = k THEN worker[w].prediction ELSE stored[c][x]]]
       ELSE UNCHANGED stored
    /\ worker' = [worker EXCEPT ![w].pc = "ready"]
    /\ UNCHANGED <<made, owner, closed, current, depth>>

\* The thread goes on to its next window, or ends.
Again(w, k) ==
    /\ worker[w].pc = "ready"
    /\ worker' = [worker EXCEPT ![w] = AtWindow(worker[w].task, worker[w].cache, k)]
    /\ UNCHANGED <<made, owner, closed, stored, current, depth>>

End(w) ==
    /\ worker[w].pc = "ready"
    /\ worker' = [worker EXCEPT ![w] = Free]
    /\ UNCHANGED <<made, owner, closed, stored, current, depth>>

CacheNext ==
    \/ \E t \in Tasks : Open(t) \/ Nest(t) \/ LeaveNested(t) \/ Close(t)
    \/ \E w \in Workers :
          \/ \E t \in Tasks, k \in Keys : Start(w, t, k)
          \/ Found(w)
          \/ Compute(w)
          \/ Put(w)
          \/ \E k \in Keys : Again(w, k)
          \/ End(w)

CacheSpec == CacheInit /\ [][CacheNext]_cacheVars

-----------------------------------------------------------------------------
(* Properties *)

WorkerType ==
    [pc : {"free", "get", "put", "ready"}, cache : Caches \cup {None},
     task : Tasks \cup {None}, key : Keys \cup {None},
     prediction : Keys \cup {None}, from : Tasks \cup {None}]

TypeOK ==
    /\ made \in 0..MaxCaches
    /\ owner \in [Caches -> Tasks \cup {None}]
    /\ closed \in [Caches -> BOOLEAN]
    /\ \A c \in Caches :
          /\ DOMAIN stored[c] \subseteq Keys
          /\ \A k \in DOMAIN stored[c] : stored[c][k] \in Keys
          /\ Cardinality(DOMAIN stored[c]) <= MaxWindows
    /\ DOMAIN stored = Caches
    /\ current \in [Tasks -> Caches \cup {None}]
    /\ depth \in [Tasks -> 0..MaxDepth \cup {0, 1}]
    /\ worker \in [Workers -> WorkerType]

\* No prediction outlives its request: a closed cache is empty, and a thread
\* that finishes after the request cannot fill it again.
ClosedStaysEmpty == \A c \in Caches : closed[c] => stored[c] = <<>>

\* A request's cache is there for as long as the request: a nested call that
\* returns does not close it under the calls around it.
OpenWhileRunning ==
    \A t \in Tasks : depth[t] > 0 =>
        /\ current[t] # None
        /\ ~closed[current[t]]
        /\ owner[current[t]] = t

\* Requests never share predictions, not even through a thread that outlives
\* its request.
Isolated == \A w \in Workers : worker[w].from \in {None, worker[w].task}

\* A reused prediction is the one the model of this detector gives for this
\* input: two detectors may see the same input.
PredictionExact ==
    \A w \in Workers :
        worker[w].pc \in {"put", "ready"}
            => worker[w].prediction = Predicted(worker[w].key)
=============================================================================
