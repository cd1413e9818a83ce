--------------------------- MODULE OpenWebUIFilter ---------------------------
(***************************************************************************)
(* The Open WebUI filter: one engine for all requests, built on demand      *)
(* behind a lock and rebuilt when the valves change, and the map of fakes   *)
(* a request's inlet leaves in the metadata for its outlet.                 *)
(*                                                                         *)
(* All requests run on one event loop: an action is what runs between two   *)
(* awaits.  The valves are replaced by Open WebUI at any of them.  A policy *)
(* stands for the preset, the languages and the block list.                 *)
(***************************************************************************)
EXTENDS Sequences, SequencesExt

CONSTANTS Requests, Policies, None

Config == [policy : Policies, restore : BOOLEAN]

ASSUME NoneOK == None \notin Requests \cup Policies \cup Config

VARIABLES
    valves,   \* the valves as they are now
    slot,     \* [key, engine]: _engine_key and the config of _engine, or None
    lock,     \* the request that holds _lock, or None
    waiters,  \* the requests that wait for it, first come first served
    at,       \* request -> where it is
    hook,     \* request -> "inlet" | "outlet"
    key,      \* request -> the key it computed
    engine,   \* request -> the config of the engine it builds or uses
    meta,     \* request -> privaite_map in its metadata: "none" | "own" | "other"
    taken,    \* request -> the map its outlet took
    asked,    \* history: request -> the policy of the valves when it came
    reply     \* request -> "none" | "rejected" | "masked" | "restored" | "unrestored"

slotVars == <<slot, lock, waiters>>
filterVars == <<valves, slot, lock, waiters, at, hook, key, engine, meta, taken, asked, reply>>

\* The metadata of a request may carry a map that a client sent back.
FilterInit ==
    /\ valves \in Config
    /\ slot = [key |-> None, engine |-> None] /\ lock = None /\ waiters = <<>>
    /\ at = [r \in Requests |-> "new"]
    /\ hook = [r \in Requests |-> "inlet"]
    /\ key = [r \in Requests |-> None]
    /\ engine = [r \in Requests |-> None]
    /\ meta \in [Requests -> {"none", "other"}]
    /\ taken = [r \in Requests |-> "none"]
    /\ asked = [r \in Requests |-> None]
    /\ reply = [r \in Requests |-> "none"]

ValvesChange ==
    /\ valves' \in Config \ {valves}
    /\ UNCHANGED <<slotVars, at, hook, key, engine, meta, taken, asked, reply>>

-----------------------------------------------------------------------------
(* _engine_for *)

HitAnyKey(k) == slot.engine # None
Hit(k) == slot.engine # None /\ slot.key = k

\* What follows the return of _engine_for in each hook.
Then(r) == IF hook'[r] = "inlet" THEN "scrub" ELSE "restoring"

UseSlot(r) ==
    /\ engine' = [engine EXCEPT ![r] = slot.engine]
    /\ at' = [at EXCEPT ![r] = Then(r)]

\* Under the lock: the check is made again; the config of a new engine takes the
\* policy the key was computed from, and the restore valve as it is now.
DoubleHitNever(r, k) == FALSE
DoubleHit(r, k) == Hit(k)

Locked(r, k) ==
    \/ DoubleHit(r, k) /\ UseSlot(r) /\ lock' = None
    \/ /\ ~DoubleHit(r, k)
       /\ engine' = [engine EXCEPT ![r] = [policy |-> k.policy, restore |-> valves.restore]]
       /\ at' = [at EXCEPT ![r] = "building"]
       /\ lock' = r

\* The key is computed before the lock is awaited; a free lock is taken at once.
EngineFor(r) ==
    LET k == valves IN
    /\ key' = [key EXCEPT ![r] = k]
    /\ UNCHANGED slot
    /\ \/ Hit(k) /\ UseSlot(r) /\ UNCHANGED <<lock, waiters>>
       \/ ~Hit(k) /\ lock = None /\ waiters = <<>> /\ Locked(r, k) /\ UNCHANGED waiters
       \/ /\ ~Hit(k) /\ (lock # None \/ waiters # <<>>)
          /\ waiters' = Append(waiters, r)
          /\ at' = [at EXCEPT ![r] = "waiting"]
          /\ UNCHANGED <<lock, engine>>

Acquire(r) ==
    /\ at[r] = "waiting" /\ lock = None
    /\ waiters # <<>> /\ Head(waiters) = r
    /\ waiters' = Tail(waiters)
    /\ UNCHANGED <<valves, slot, hook, key, meta, taken, asked, reply>>
    /\ Locked(r, key[r])

\* initialize() returned: at the first try, or after the models were downloaded.
Built(r) ==
    /\ at[r] \in {"building", "rebuilding"}
    /\ slot' = [key |-> key[r], engine |-> engine[r]]
    /\ lock' = None
    /\ UNCHANGED <<valves, waiters, hook, key, engine, meta, taken, asked, reply>>
    /\ at' = [at EXCEPT ![r] = Then(r)]

ModelsMissing(r) ==
    /\ at[r] = "building"
    /\ at' = [at EXCEPT ![r] = "rebuilding"]
    /\ UNCHANGED <<valves, slotVars, hook, key, engine, meta, taken, asked, reply>>

ReleasedNot(r) == lock
Released(r) == IF lock = r THEN None ELSE lock

\* A request is cancelled while it waits: it leaves the queue.
WaitCancelled(r) ==
    /\ at[r] = "waiting"
    /\ \E i \in DOMAIN waiters : waiters[i] = r /\ waiters' = RemoveAt(waiters, i)
    /\ at' = [at EXCEPT ![r] = "end"]
    /\ reply' = [reply EXCEPT ![r] = "rejected"]
    /\ UNCHANGED <<valves, slot, lock, hook, key, engine, meta, taken, asked>>

\* A build, a scrub or a restore raised, or the request was cancelled in it: the
\* hook is left, and with it the lock.
HookFails(r) ==
    /\ at[r] \in {"building", "rebuilding", "scrub", "restoring"}
    /\ lock' = Released(r)
    /\ at' = [at EXCEPT ![r] = "end"]
    /\ reply' = [reply EXCEPT ![r] = "rejected"]
    /\ UNCHANGED <<valves, slot, waiters, hook, key, engine, meta, taken, asked>>

-----------------------------------------------------------------------------
(* inlet *)

\* An incoming map is dropped whatever the request holds.
ClearedIfMessages(r, messages) == IF messages THEN "none" ELSE meta[r]
Cleared(r, messages) == "none"

Inlet(r) ==
    /\ at[r] = "new"
    /\ UNCHANGED <<valves, hook, taken, reply>>
    /\ \E messages \in BOOLEAN :
         /\ meta' = [meta EXCEPT ![r] = Cleared(r, messages)]
         /\ IF messages
            THEN asked' = [asked EXCEPT ![r] = valves.policy] /\ EngineFor(r)
            ELSE /\ at' = [at EXCEPT ![r] = "model"]
                 /\ UNCHANGED <<slotVars, key, engine, asked>>

\* process_request returned; the map is left for the outlet when the valve asks
\* for the restore now and something was masked.
Scrubbed(r) ==
    /\ at[r] = "scrub"
    /\ \E masked \in BOOLEAN :
         meta' = [meta EXCEPT ![r] = IF valves.restore /\ masked THEN "own" ELSE @]
    /\ at' = [at EXCEPT ![r] = "model"]
    /\ reply' = [reply EXCEPT ![r] = "masked"]
    /\ UNCHANGED <<valves, slotVars, hook, key, engine, taken, asked>>

-----------------------------------------------------------------------------
(* outlet *)

LeftAfterCheck(r) == IF valves.restore THEN "none" ELSE meta[r]
Left(r) == "none"

Outlet(r) ==
    /\ at[r] = "model"
    /\ hook' = [hook EXCEPT ![r] = "outlet"]
    /\ taken' = [taken EXCEPT ![r] = meta[r]]
    /\ meta' = [meta EXCEPT ![r] = Left(r)]
    /\ UNCHANGED <<valves, asked, reply>>
    /\ IF valves.restore /\ meta[r] # "none"
       THEN EngineFor(r)
       ELSE at' = [at EXCEPT ![r] = "end"] /\ UNCHANGED <<slotVars, key, engine>>

\* process_response leaves the text alone in an engine built without restore.
Restore(r) ==
    /\ at[r] = "restoring"
    /\ reply' = [reply EXCEPT ![r] = IF engine[r].restore THEN "restored" ELSE "unrestored"]
    /\ at' = [at EXCEPT ![r] = "end"]
    /\ UNCHANGED <<valves, slotVars, hook, key, engine, meta, taken, asked>>

-----------------------------------------------------------------------------

BuildEnds(r) == Built(r) \/ HookFails(r)

FilterNext ==
    \/ ValvesChange
    \/ \E r \in Requests :
         \/ Inlet(r)
         \/ Acquire(r)
         \/ Built(r)
         \/ ModelsMissing(r)
         \/ WaitCancelled(r)
         \/ HookFails(r)
         \/ Scrubbed(r)
         \/ Outlet(r)
         \/ Restore(r)

FilterSpec == FilterInit /\ [][FilterNext]_filterVars

\* The event loop runs a task whose lock is free, and loading models returns or
\* raises, as does the scrub or restore that follows.  Nothing is assumed of the clients, the valves or the provider.
FairSpec ==
    /\ FilterSpec
    /\ \A r \in Requests : WF_filterVars(Acquire(r)) /\ WF_filterVars(BuildEnds(r))

-----------------------------------------------------------------------------
(* Properties *)

Waiting(r) == at[r] \in {"waiting", "building", "rebuilding"}

TypeOK ==
    /\ valves \in Config
    /\ slot \in [key : Config \cup {None}, engine : Config \cup {None}]
    /\ lock \in Requests \cup {None}
    /\ waiters \in Seq(Requests)
    /\ at \in [Requests -> {"new", "waiting", "building", "rebuilding", "scrub",
                            "model", "restoring", "end"}]
    /\ hook \in [Requests -> {"inlet", "outlet"}]
    /\ key \in [Requests -> Config \cup {None}]
    /\ engine \in [Requests -> Config \cup {None}]
    /\ \A r \in Requests : at[r] \notin {"new", "waiting", "model", "end"} => engine[r] # None
    /\ meta \in [Requests -> {"none", "own", "other"}]
    /\ taken \in [Requests -> {"none", "own", "other"}]
    /\ asked \in [Requests -> Policies \cup {None}]
    /\ reply \in [Requests -> {"none", "rejected", "masked", "restored", "unrestored"}]

\* A message is scrubbed by an engine of the policy (preset, languages, block list)
\* that was in force when it came, however builds, failures and valve changes of
\* other requests came in between.
PolicyInForce == \A r \in Requests : at[r] = "scrub" => engine[r].policy = asked[r]

\* An engine is never replaced by one for the same key: two concurrent first
\* requests do not both build (and download) it.
NeverBuiltTwice == [][\A r \in Requests : Built(r) => ~Hit(key[r])]_filterVars

\* Only a map this request's inlet made is ever used to restore, and no map with
\* original values stays in the metadata once the outlet returned.
MapLifetime ==
    \A r \in Requests :
        /\ taken[r] # "other"
        /\ at[r] = "end" => meta[r] = "none"

\* A request that waits for the engine, or builds it, gets it or an error: a
\* failed or cancelled build never leaves the others waiting for good.
Answered == \A r \in Requests : Waiting(r) ~> ~Waiting(r)

\* With the valve on when the map was stashed and when the outlet looked, the
\* reply is restored.
RestoredWhenOn == \A r \in Requests : reply[r] # "unrestored"
=============================================================================
