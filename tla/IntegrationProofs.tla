-------------------------- MODULE IntegrationProofs --------------------------
(***************************************************************************)
(* The two integrations.  The engine slot and the map of the Open WebUI     *)
(* filter, for any number of concurrent requests, any policies and any      *)
(* valve changes; the request and the map of a call of the LiteLLM          *)
(* guardrail, for any fields, and the stream it restores, for any channels  *)
(* and fakes and however the provider cuts and mixes its text.              *)
(***************************************************************************)
EXTENDS OpenWebUIFilter, Guardrail, RestoreProofs

-----------------------------------------------------------------------------
(* The Open WebUI filter *)

Building == {"building", "rebuilding"}

\* The engine in the slot has the policy of its key.
SlotKeyed == slot.engine # None => slot.key # None /\ slot.engine.policy = slot.key.policy

\* One request builds at a time, an engine of its key's policy that the slot does
\* not hold; and only it holds the lock.
OneBuilder ==
    /\ \A r \in Requests :
          at[r] \in Building => /\ lock = r /\ ~Hit(key[r])
                                /\ key[r] # None /\ engine[r].policy = key[r].policy
    /\ lock # None => at[lock] \in Building

\* The key a request of the inlet waits or builds for is of the policy it came under.
KeyedAsAsked ==
    \A r \in Requests :
        /\ at[r] \in Building \cup {"waiting"} => key[r] # None
        /\ at[r] \in Building \cup {"waiting"} /\ hook[r] = "inlet" =>
              asked[r] # None /\ key[r].policy = asked[r]

HookOfStep ==
    \A r \in Requests :
        /\ at[r] \in {"new", "scrub", "model"} => hook[r] = "inlet"
        /\ at[r] = "restoring" => hook[r] = "outlet"

\* The metadata holds this request's map between its inlet and its outlet only.
MapBetweenHooks ==
    \A r \in Requests :
        /\ taken[r] # "other"
        /\ at[r] = "model" => meta[r] # "other"
        /\ at[r] \notin {"new", "model"} => meta[r] = "none"

IInv ==
    /\ TypeOK
    /\ SlotKeyed
    /\ OneBuilder
    /\ KeyedAsAsked
    /\ HookOfStep
    /\ MapBetweenHooks
    /\ PolicyInForce

LEMMA InitInv == FilterInit => IInv
BY EmptySeq, NoneOK DEF FilterInit, IInv, TypeOK, SlotKeyed, OneBuilder, KeyedAsAsked, HookOfStep,
   MapBetweenHooks, PolicyInForce, Building, Config

LEMMA RemoveAtType ==
    ASSUME NEW S, NEW q \in Seq(S), NEW i \in DOMAIN q
    PROVE  RemoveAt(q, i) \in Seq(S)
<1>1. i \in 1..Len(q) /\ Len(q) \in Nat
  BY LenProperties
<1>2. SubSeq(q, 1, i - 1) \in Seq(S)
  BY <1>1, SubSeqProperties, ElementOfSeq
<1>3. SubSeq(q, i + 1, Len(q)) \in Seq(S)
  BY <1>1, SubSeqProperties, ElementOfSeq
<1> QED
  BY <1>2, <1>3, ConcatProperties DEF RemoveAt

\* What a hook leaves EngineFor with: an engine of the key's policy, the lock and a
\* build to do, or a place in the queue.
LEMMA EngineForGives ==
    ASSUME IInv, NEW r \in Requests, EngineFor(r), hook' \in [Requests -> {"inlet", "outlet"}]
    PROVE  \E p \in {"scrub", "restoring", "building", "waiting"}, e \in Config \cup {None} :
             /\ slot' = slot
             /\ key' = [key EXCEPT ![r] = valves]
             /\ waiters' \in Seq(Requests)
             /\ at' = [at EXCEPT ![r] = p]
             /\ engine' = [engine EXCEPT ![r] = e]
             /\ p = "waiting" => lock' = lock
             /\ p = "building" => /\ lock = None /\ lock' = r /\ ~Hit(valves)
                                  /\ e # None /\ e.policy = valves.policy
             /\ p \in {"scrub", "restoring"} =>
                   /\ lock' = lock
                   /\ e # None /\ e.policy = valves.policy
                   /\ p = Then(r)
<1>1. /\ valves \in Config /\ waiters \in Seq(Requests)
      /\ engine[r] \in Config \cup {None} /\ slot.engine \in Config \cup {None}
      /\ valves # None
  BY NoneOK DEF IInv, TypeOK
<1>2. Then(r) \in {"scrub", "restoring"}
  BY DEF Then
<1>3. Hit(valves) => slot.engine # None /\ slot.engine.policy = valves.policy
  BY DEF Hit, IInv, SlotKeyed
<1>4. slot' = slot /\ key' = [key EXCEPT ![r] = valves]
  BY DEF EngineFor
<1>5. CASE Hit(valves) /\ UseSlot(r) /\ UNCHANGED <<lock, waiters>>
  BY <1>1, <1>2, <1>3, <1>4, <1>5 DEF UseSlot
<1>6. CASE ~Hit(valves) /\ lock = None /\ Locked(r, valves) /\ UNCHANGED waiters
  <2> DEFINE e == [policy |-> valves.policy, restore |-> valves.restore]
  <2>1. e \in Config /\ e # None /\ e.policy = valves.policy
    BY <1>1, NoneOK DEF Config
  <2>2. /\ engine' = [engine EXCEPT ![r] = e]
        /\ at' = [at EXCEPT ![r] = "building"]
        /\ lock' = r
    BY <1>6 DEF Locked, DoubleHit
  <2> HIDE DEF e
  <2> QED
    BY <1>1, <1>4, <1>6, <2>1, <2>2
<1>7. CASE ~Hit(valves) /\ waiters' = Append(waiters, r)
           /\ at' = [at EXCEPT ![r] = "waiting"] /\ UNCHANGED <<lock, engine>>
  <2>1. engine = [engine EXCEPT ![r] = engine[r]]
    BY DEF IInv, TypeOK
  <2>2. waiters' \in Seq(Requests)
    BY <1>1, <1>7, AppendProperties
  <2> QED
    BY <1>1, <1>4, <1>7, <2>1, <2>2
<1> QED
  BY <1>5, <1>6, <1>7 DEF EngineFor

\* A hook that enters EngineFor keeps the invariant.
LEMMA EnterInv ==
    ASSUME IInv, NEW r \in Requests, EngineFor(r),
           UNCHANGED valves,
           \/ /\ at[r] = "new" /\ hook' = hook /\ taken' = taken
              /\ meta' = [meta EXCEPT ![r] = "none"]
              /\ asked' = [asked EXCEPT ![r] = valves.policy]
           \/ /\ at[r] = "model" /\ hook' = [hook EXCEPT ![r] = "outlet"]
              /\ taken' = [taken EXCEPT ![r] = meta[r]]
              /\ meta' = [meta EXCEPT ![r] = "none"] /\ asked' = asked,
           reply' = reply
    PROVE  IInv'
<1>1. hook' \in [Requests -> {"inlet", "outlet"}]
  BY DEF IInv, TypeOK
<1>2. PICK p \in {"scrub", "restoring", "building", "waiting"}, e \in Config \cup {None} :
         /\ slot' = slot
         /\ key' = [key EXCEPT ![r] = valves]
         /\ waiters' \in Seq(Requests)
         /\ at' = [at EXCEPT ![r] = p]
         /\ engine' = [engine EXCEPT ![r] = e]
         /\ p = "waiting" => lock' = lock
         /\ p = "building" => /\ lock = None /\ lock' = r /\ ~Hit(valves)
                              /\ e # None /\ e.policy = valves.policy
         /\ p \in {"scrub", "restoring"} =>
               /\ lock' = lock
               /\ e # None /\ e.policy = valves.policy
               /\ p = Then(r)
  BY <1>1, EngineForGives
<1>3. /\ valves \in Config /\ valves # None
      /\ valves.policy \in Policies /\ valves.policy # None
      /\ lock # r
  BY NoneOK DEF IInv, TypeOK, OneBuilder, Config, Building
<1>4. TypeOK'
  BY <1>1, <1>2, <1>3, ZenonT(40) DEF IInv, TypeOK
<1>5. SlotKeyed'
  BY <1>2 DEF IInv, SlotKeyed
<1>6. OneBuilder'
  BY <1>2, <1>3, NoneOK DEF IInv, TypeOK, OneBuilder, Building, Hit
<1>7. KeyedAsAsked'
  BY <1>2, <1>3 DEF IInv, TypeOK, KeyedAsAsked, HookOfStep, Building
<1>8. HookOfStep'
  BY <1>1, <1>2 DEF IInv, TypeOK, HookOfStep, Then
<1>9. MapBetweenHooks'
  BY <1>2 DEF IInv, TypeOK, MapBetweenHooks
<1>10. PolicyInForce'
  BY <1>1, <1>2 DEF IInv, TypeOK, PolicyInForce, HookOfStep, Then
<1> QED
  BY <1>4, <1>5, <1>6, <1>7, <1>8, <1>9, <1>10 DEF IInv

LEMMA AcquireInv ==
    ASSUME IInv, NEW r \in Requests, Acquire(r)
    PROVE  IInv'
<1> DEFINE k == key[r]
<1>1. /\ k \in Config /\ at[r] = "waiting" /\ lock = None /\ valves \in Config
      /\ k.policy \in Policies /\ k # None
      /\ waiters' = Tail(waiters) /\ Tail(waiters) \in Seq(Requests)
  BY EmptySeq, HeadTailProperties DEF IInv, TypeOK, KeyedAsAsked, Building, Acquire, Config
<1>2. UNCHANGED <<valves, slot, hook, key, meta, taken, asked, reply>> /\ Locked(r, k)
  BY DEF Acquire
<1>3. PICK e \in Config, p \in {"scrub", "restoring", "building"} :
         /\ at' = [at EXCEPT ![r] = p] /\ engine' = [engine EXCEPT ![r] = e]
         /\ e.policy = k.policy
         /\ p = "building" => lock' = r /\ ~Hit(k)
         /\ p # "building" => lock' = None /\ p = Then(r)
  <2>1. CASE DoubleHit(r, k) /\ UseSlot(r) /\ lock' = None
    <3>1. slot.engine \in Config /\ slot.engine.policy = k.policy
      BY <2>1 DEF DoubleHit, Hit, IInv, SlotKeyed, TypeOK
    <3> QED
      BY <2>1, <3>1 DEF UseSlot, Then
  <2>2. CASE /\ ~DoubleHit(r, k)
             /\ engine' = [engine EXCEPT ![r] =
                              [policy |-> k.policy, restore |-> valves.restore]]
             /\ at' = [at EXCEPT ![r] = "building"]
             /\ lock' = r
    <3> DEFINE e == [policy |-> k.policy, restore |-> valves.restore]
    <3>1. e \in Config /\ e.policy = k.policy
      BY <1>1 DEF Config
    <3>2. /\ engine' = [engine EXCEPT ![r] = e]
          /\ at' = [at EXCEPT ![r] = "building"]
          /\ lock' = r /\ ~Hit(k)
      BY <2>2 DEF DoubleHit
    <3> HIDE DEF e, k
    <3> QED
      BY <3>1, <3>2
  <2> QED
    BY <1>2, <2>1, <2>2 DEF Locked
<1>4. e # None
  BY NoneOK
<1>5. waiters' \in Seq(Requests)
  BY <1>1
<1>6. TypeOK'
  BY <1>1, <1>2, <1>3, <1>4, <1>5 DEF IInv, TypeOK
<1>7. SlotKeyed' /\ HookOfStep'
  BY <1>1, <1>2, <1>3 DEF IInv, TypeOK, SlotKeyed, HookOfStep, Then
<1>8. OneBuilder'
  BY <1>1, <1>2, <1>3, NoneOK DEF IInv, TypeOK, OneBuilder, Building, Hit
<1>9. KeyedAsAsked' /\ MapBetweenHooks'
  BY <1>1, <1>2, <1>3 DEF IInv, TypeOK, KeyedAsAsked, MapBetweenHooks, Building
<1>10. PolicyInForce'
  BY <1>1, <1>2, <1>3 DEF IInv, TypeOK, PolicyInForce, KeyedAsAsked, Then, Building
<1> QED
  BY <1>6, <1>7, <1>8, <1>9, <1>10 DEF IInv

LEMMA ScrubbedInv ==
    ASSUME IInv, NEW r \in Requests, Scrubbed(r)
    PROVE  IInv'
<1>1. PICK m \in {"own", meta[r]} :
         /\ meta' = [meta EXCEPT ![r] = m]
         /\ at' = [at EXCEPT ![r] = "model"] /\ reply' = [reply EXCEPT ![r] = "masked"]
         /\ at[r] = "scrub"
         /\ UNCHANGED <<valves, slot, lock, waiters, hook, key, engine, taken, asked>>
  BY DEF Scrubbed, slotVars, IInv, TypeOK
<1>2. m \in {"own", "none"}
  BY <1>1 DEF IInv, MapBetweenHooks
<1>3. TypeOK'
  BY <1>1, <1>2 DEF IInv, TypeOK
<1>4. SlotKeyed' /\ OneBuilder' /\ KeyedAsAsked' /\ HookOfStep' /\ PolicyInForce'
  BY <1>1 DEF IInv, TypeOK, SlotKeyed, OneBuilder, KeyedAsAsked, HookOfStep, PolicyInForce,
       Building, Hit
<1>5. MapBetweenHooks'
  BY <1>1, <1>2 DEF IInv, TypeOK, MapBetweenHooks
<1> QED
  BY <1>3, <1>4, <1>5 DEF IInv

LEMMA BuiltInv ==
    ASSUME IInv, NEW r \in Requests, Built(r)
    PROVE  IInv'
<1>1. /\ at[r] \in Building /\ lock = r
      /\ key[r] \in Config /\ engine[r] \in Config
      /\ engine[r].policy = key[r].policy /\ key[r] # None
  BY DEF Built, Building, IInv, TypeOK, OneBuilder
<1>2. /\ slot' = [key |-> key[r], engine |-> engine[r]]
      /\ lock' = None
      /\ UNCHANGED <<valves, waiters, hook, key, engine, meta, taken, asked, reply>>
      /\ at' = [at EXCEPT ![r] = Then(r)]
  BY DEF Built
<1>3. TypeOK'
  BY <1>1, <1>2 DEF IInv, TypeOK, Then, Building
<1>4. SlotKeyed' /\ HookOfStep'
  BY <1>1, <1>2 DEF IInv, TypeOK, SlotKeyed, HookOfStep, Then, Building
<1>5. OneBuilder'
  BY <1>1, <1>2 DEF IInv, TypeOK, OneBuilder, Then, Building
<1>6. KeyedAsAsked' /\ PolicyInForce'
  BY <1>1, <1>2 DEF IInv, TypeOK, KeyedAsAsked, PolicyInForce, Then, Building
<1>7. MapBetweenHooks'
  BY <1>1, <1>2 DEF IInv, TypeOK, MapBetweenHooks, Then, Building
<1> QED
  BY <1>3, <1>4, <1>5, <1>6, <1>7 DEF IInv

LEMMA StepInv == IInv /\ [FilterNext]_filterVars => IInv'
<1> SUFFICES ASSUME IInv, [FilterNext]_filterVars PROVE IInv'
  OBVIOUS
<1> USE DEF slotVars
<1>1. CASE ValvesChange
  BY <1>1 DEF ValvesChange, IInv, TypeOK, SlotKeyed, OneBuilder, KeyedAsAsked, HookOfStep,
       MapBetweenHooks, PolicyInForce, Building, Hit
<1>2. ASSUME NEW r \in Requests, Inlet(r)
      PROVE  IInv'
  <2>1. CASE /\ asked' = [asked EXCEPT ![r] = valves.policy] /\ EngineFor(r)
             /\ meta' = [meta EXCEPT ![r] = "none"]
    BY <1>2, <2>1, EnterInv DEF Inlet
  <2>2. CASE /\ at' = [at EXCEPT ![r] = "model"] /\ meta' = [meta EXCEPT ![r] = "none"]
             /\ UNCHANGED <<slotVars, key, engine, asked>>
    BY <1>2, <2>2 DEF Inlet, IInv, TypeOK, SlotKeyed, OneBuilder, KeyedAsAsked, HookOfStep,
       MapBetweenHooks, PolicyInForce, Building, Hit
  <2> QED
    BY <1>2, <2>1, <2>2 DEF Inlet, Cleared
<1>3. ASSUME NEW r \in Requests, Acquire(r)
      PROVE  IInv'
  BY <1>3, AcquireInv
<1>4. ASSUME NEW r \in Requests, Built(r)
      PROVE  IInv'
  BY <1>4, BuiltInv
<1>5. ASSUME NEW r \in Requests, ModelsMissing(r)
      PROVE  IInv'
  BY <1>5 DEF ModelsMissing, IInv, TypeOK, SlotKeyed, OneBuilder, KeyedAsAsked, HookOfStep,
       MapBetweenHooks, PolicyInForce, Building, Hit
<1>6. ASSUME NEW r \in Requests, WaitCancelled(r)
      PROVE  IInv'
  <2>1. waiters' \in Seq(Requests)
    BY <1>6, RemoveAtType DEF WaitCancelled, IInv, TypeOK
  <2> QED
    BY <1>6, <2>1 DEF WaitCancelled, IInv, TypeOK, SlotKeyed, OneBuilder, KeyedAsAsked,
       HookOfStep, MapBetweenHooks, PolicyInForce, Building, Hit
<1>7. ASSUME NEW r \in Requests, HookFails(r)
      PROVE  IInv'
  BY <1>7 DEF HookFails, Released, IInv, TypeOK, SlotKeyed, OneBuilder, KeyedAsAsked,
       HookOfStep, MapBetweenHooks, PolicyInForce, Building, Hit
<1>8. ASSUME NEW r \in Requests, Scrubbed(r)
      PROVE  IInv'
  BY <1>8, ScrubbedInv
<1>9. ASSUME NEW r \in Requests, Outlet(r)
      PROVE  IInv'
  <2>1. CASE EngineFor(r)
    BY <1>9, <2>1, EnterInv DEF Outlet, Left
  <2>2. CASE at' = [at EXCEPT ![r] = "end"] /\ UNCHANGED <<slotVars, key, engine>>
    BY <1>9, <2>2 DEF Outlet, Left, IInv, TypeOK, SlotKeyed, OneBuilder, KeyedAsAsked,
       HookOfStep, MapBetweenHooks, PolicyInForce, Building, Hit
  <2> QED
    BY <1>9, <2>1, <2>2 DEF Outlet
<1>10. ASSUME NEW r \in Requests, Restore(r)
       PROVE  IInv'
  BY <1>10 DEF Restore, IInv, TypeOK, SlotKeyed, OneBuilder, KeyedAsAsked, HookOfStep,
       MapBetweenHooks, PolicyInForce, Building, Hit
<1>11. CASE UNCHANGED filterVars
  BY <1>11 DEF filterVars, IInv, TypeOK, SlotKeyed, OneBuilder, KeyedAsAsked, HookOfStep,
       MapBetweenHooks, PolicyInForce, Building, Hit
<1> QED
  BY <1>1, <1>2, <1>3, <1>4, <1>5, <1>6, <1>7, <1>8, <1>9, <1>10, <1>11 DEF FilterNext

LEMMA Inductive == FilterSpec => []IInv
BY InitInv, StepInv, PTL DEF FilterSpec

\* The slot, the lock, the queue and every request keep their types, and no hook
\* goes on without an engine.
THEOREM TypeCorrect == FilterSpec => []TypeOK
BY Inductive, PTL DEF IInv

\* Every message is scrubbed under the policy it came under, with any number of
\* requests, failed builds and valve changes in between.
THEOREM PolicyKept == FilterSpec => []PolicyInForce
BY Inductive, PTL DEF IInv

\* No map of a client is ever used, and none stays in the metadata.
THEOREM MapOwnedAndConsumed == FilterSpec => []MapLifetime
<1>1. IInv => MapLifetime
  BY DEF IInv, MapBetweenHooks, MapLifetime
<1> QED
  BY <1>1, Inductive, PTL

\* A build never replaces an engine of the same key.
THEOREM BuildsOnce == FilterSpec => NeverBuiltTwice
<1>1. IInv /\ [FilterNext]_filterVars => [\A r \in Requests : Built(r) => ~Hit(key[r])]_filterVars
  BY DEF IInv, OneBuilder, Building, Built
<1> QED
  BY <1>1, Inductive, PTL DEF FilterSpec, NeverBuiltTwice

-----------------------------------------------------------------------------
(* The call of the guardrail *)

CallTypes ==
    /\ ask \in Asks
    /\ deanonymize \in BOOLEAN /\ block \in BOOLEAN /\ issued \in BOOLEAN
    /\ DOMAIN data = DOMAIN ask.holds /\ DOMAIN snapshot = DOMAIN ask.holds
    /\ todo \subseteq DOMAIN data \ {Prompt}
    /\ map \in {"none", "own", "foreign"}

\* Before the scan the request is as it came.
AsItCame ==
    pc \in {"arrived", "engine", "gate"} =>
        data = ask.holds /\ snapshot = ask.holds /\ todo = {} /\ ~ issued

\* What is scanned is masked in both copies, what is not is as it came.
ScannedSoFar ==
    pc = "scan" \/ Accepted =>
        /\ \A f \in DOMAIN data \ {Prompt} :
              IF f \in todo THEN data[f] = ask.holds[f]
              ELSE data[f] \notin {"pii", "blocked"} /\ snapshot[f] = data[f]
        /\ Accepted => todo = {}

\* With a block list nothing that was looked at had a blocked type, and no request with
\* token IDs gets past the door.
CheckedSoFar ==
    block =>
        /\ pc = "scan" \/ Accepted =>
              \A f \in DOMAIN data \ todo : ask.holds[f] # "blocked"
        /\ pc \in {"engine", "gate", "scan"} \/ Accepted =>
              \A f \in DOMAIN data : ask.holds[f] # "tokens"

\* The map is there from the end of the scan until the next hook takes it.
MapInTime ==
    /\ map = "foreign" => pc = "arrived"
    /\ map = "own" => pc \in {"sent", "gone", "error"}
    /\ pc \in {"sent"} => (map = "own" <=> deanonymize /\ issued)
    /\ used # "foreign"
    /\ pc \in {"arrived", "engine", "gate", "scan", "sent"} => used = "none"
    /\ pc \in {"restoring", "streaming", "done"} => (used = "own" <=> deanonymize /\ issued)

CallInv == CallTypes /\ AsItCame /\ ScannedSoFar /\ CheckedSoFar /\ MapInTime

LEMMA InitCall == Init => CallInv
BY DEF Init, CallInv, CallTypes, AsItCame, ScannedSoFar, CheckedSoFar, MapInTime, Accepted

LEMMA ScanKeeps ==
    ASSUME CallInv, NEW f \in Fields, ScanField(f)
    PROVE  CallInv'
<1>1. /\ pc = "scan" /\ f \in todo /\ f \in DOMAIN data /\ f # Prompt
      /\ UNCHANGED <<ask, deanonymize, block, map, used>>
  BY DEF ScanField, IsNext, CallInv, CallTypes
<1>2. CASE block /\ data[f] = "blocked"
  BY <1>1, <1>2 DEF ScanField, CallInv, CallTypes, AsItCame, ScannedSoFar, CheckedSoFar,
       MapInTime, Accepted
<1>3. CASE ~ (block /\ data[f] = "blocked")
  <2> DEFINE new == IF data[f] \in {"pii", "blocked"} THEN "masked" ELSE data[f]
  <2>1. /\ data' = [data EXCEPT ![f] = new] /\ snapshot' = [snapshot EXCEPT ![f] = new]
        /\ issued' = (issued \/ data[f] # new)
        /\ todo' = todo \ {f} /\ pc' = pc
    BY <1>3 DEF ScanField, Snapshot
  <2>2. new \notin {"pii", "blocked"}
    OBVIOUS
  <2>3. block => ask.holds[f] # "blocked"
    BY <1>1, <1>3 DEF CallInv, ScannedSoFar
  <2> QED
    BY <1>1, <2>1, <2>2, <2>3 DEF CallInv, CallTypes, AsItCame, ScannedSoFar, CheckedSoFar,
         MapInTime, Accepted
<1> QED
  BY <1>2, <1>3

LEMMA PreCallKeeps ==
    ASSUME CallInv, PreCall
    PROVE  CallInv'
<1> USE DEF CallTypes, AsItCame, ScannedSoFar, CheckedSoFar, MapInTime, Accepted
<1>1. CASE Arrive
  BY <1>1 DEF Arrive, NothingToRead, Tokenized, CallInv
<1>2. CASE EngineReady
  BY <1>2 DEF EngineReady, CallInv
<1>3. CASE Gate
  BY <1>3 DEF Gate, CallInv
<1>4. ASSUME NEW f \in Fields, ScanField(f)
      PROVE  CallInv'
  BY <1>4, ScanKeeps
<1>5. CASE Stash
  BY <1>5 DEF Stash, CallInv
<1>6. CASE PreCallFails
  BY <1>6 DEF PreCallFails, CallInv
<1> QED
  BY <1>1, <1>2, <1>3, <1>4, <1>5, <1>6 DEF PreCall

LEMMA HooksKeep ==
    ASSUME CallInv,
           \/ PostCall \/ RestoreReply \/ ReplyFails \/ ClientGone \/ FailureHook
           \/ StreamHook \/ StreamDone \/ StreamFails
    PROVE  CallInv'
<1> USE DEF CallTypes, AsItCame, ScannedSoFar, CheckedSoFar, MapInTime, Accepted
<1>1. CASE PostCall
  BY <1>1 DEF PostCall, CallInv
<1>2. CASE RestoreReply \/ ReplyFails \/ ClientGone \/ FailureHook
  BY <1>2 DEF RestoreReply, ReplyFails, ClientGone, FailureHook, CallInv
<1>3. CASE StreamHook
  BY <1>3 DEF StreamHook, CallInv
<1>4. CASE StreamDone \/ StreamFails
  BY <1>4 DEF StreamDone, StreamFails, CallInv
<1> QED
  BY <1>1, <1>2, <1>3, <1>4

LEMMA CallStep == CallInv /\ [Next]_vars => CallInv'
<1> SUFFICES ASSUME CallInv, [Next]_vars PROVE CallInv'
  OBVIOUS
<1>1. CASE UNCHANGED callVars
  BY <1>1 DEF callVars, CallInv, CallTypes, AsItCame, ScannedSoFar, CheckedSoFar, MapInTime,
       Accepted
<1> QED
  BY <1>1, PreCallKeeps, HooksKeep DEF Next, Over, vars

LEMMA CallInductive == Spec => []CallInv
BY InitCall, CallStep, PTL DEF Spec

\* What goes to the model, and what the proxy may log, shows nothing that was detected,
\* and no request that a block list stops is sent.
THEOREM SendsOnlyMasked == Spec => []ForwardedMasked
<1>1. CallInv => ForwardedMasked
  <2> SUFFICES ASSUME CallInv, Accepted PROVE ForwardedMasked
    BY DEF ForwardedMasked
  <2>1. \A f \in DOMAIN data \ {Prompt} :
          data[f] \notin {"pii", "blocked"} /\ snapshot[f] = data[f]
    BY DEF CallInv, ScannedSoFar
  <2>2. block => \A f \in DOMAIN ask.holds : ask.holds[f] \notin {"blocked", "tokens"}
    BY DEF CallInv, CallTypes, ScannedSoFar, CheckedSoFar
  <2> QED
    BY <2>1, <2>2 DEF ForwardedMasked
<1> QED
  BY <1>1, CallInductive, PTL

\* Only the map of the call's own pre-call hook restores its reply, it does whenever
\* something was masked, and no hook leaves it behind.
THEOREM MapConsumed == Spec => []OwnMapConsumed
<1>1. CallInv => OwnMapConsumed
  BY DEF CallInv, MapInTime, OwnMapConsumed
<1> QED
  BY <1>1, CallInductive, PTL

-----------------------------------------------------------------------------
(* The stream of the guardrail *)

StreamTypes ==
    /\ stage \in {"off", "open", "drain", "ended", "cut"}
    /\ relaying \in BOOLEAN
    /\ held \in [Channels -> Seq(Chars)] /\ segment \in [Channels -> Seq(Chars)]
    /\ shown \in [Channels -> Seq(Shown)] /\ closed \in [Channels -> Seq(Shown)]

\* Nothing comes before the hook is entered.
Untouched == stage = "off" => held = Empty /\ segment = Empty /\ shown = Empty /\ closed = Empty

\* Without a map the text is the provider's, and none is held.
RelaysOnly ==
    relaying => /\ held = Empty
                /\ shown \in [Channels -> Seq(Chars)] /\ closed \in [Channels -> Seq(Chars)]

\* While chunks come, the client has read the restore of the closed segments, and of
\* the one that goes on what is not held back, whatever comes.
Follows ==
    stage \in {"off", "open"} /\ ~ relaying =>
        \A ch \in Channels :
            \E p \in Seq(Readable) :
                /\ AsRead(shown[ch], IsJson(ch)) = closed[ch] \o p
                /\ Tracks(segment[ch], p, held[ch])

\* What was read and what is held is all that was sent.
Accounts ==
    \A ch \in Channels :
        closed[ch] \o Restored(segment[ch]) = AsRead(shown[ch], IsJson(ch)) \o held[ch]

AllWait == \A ch \in Channels : Waits(held[ch])

\* What is held came in a chunk: the drain has one to clone, and skips no tail.
HasChunk == \A ch \in Channels : held[ch] # <<>> => ch[1] \in DOMAIN last

StreamInv ==
    /\ StreamTypes
    /\ Untouched
    /\ RelaysOnly
    /\ Follows
    /\ Accounts
    /\ AllWait
    /\ HasChunk
    /\ stage = "ended" => held = Empty

LEMMA TokenType ==
    ASSUME NEW m, NEW q \in Tokens(m)
    PROVE  q \in Seq(Chars)
<1>1. PICK n \in Int : q \in [1..n -> Chars] /\ n >= 1
  BY DEF Tokens
<1> QED
  BY <1>1

LEMMA ChunkTokens ==
    ASSUME SomeChunk
    PROVE  \E C \in SUBSET Channels, fin \in SUBSET Indices :
             \E t \in [C -> Seq(Chars)] : ChunkArrives(t, fin)
<1> DEFINE left == MaxChars - length
           M(C) == left + 1 - Cardinality(C)
<1>1. PICK C \in SUBSET Channels, fin \in SUBSET Indices :
         \E t \in [C -> Tokens(M(C))] : ChunkArrives(t, fin)
  BY DEF SomeChunk
<1> HIDE DEF M
<1>2. PICK t \in [C -> Tokens(M(C))] : ChunkArrives(t, fin)
  BY <1>1
<1>3. t \in [C -> Seq(Chars)]
  BY <1>2, TokenType
<1> QED
  BY <1>2, <1>3

LEMMA ChannelTexts ==
    ASSUME StreamTypes, NEW ch \in Channels
    PROVE  /\ held[ch] \in Seq(Chars) /\ segment[ch] \in Seq(Chars)
           /\ held[ch] \in Seq(Shown) /\ held[ch] \in Seq(Readable)
           /\ shown[ch] \in Seq(Shown) /\ closed[ch] \in Seq(Shown)
           /\ closed[ch] \in Seq(Readable)
           /\ IsJson(ch) \in BOOLEAN
           /\ AsRead(shown[ch], IsJson(ch)) \in Seq(Readable)
           /\ Restored(segment[ch]) \in Seq(Readable)
<1>1. /\ held[ch] \in Seq(Chars) /\ segment[ch] \in Seq(Chars)
      /\ shown[ch] \in Seq(Shown) /\ closed[ch] \in Seq(Shown)
  BY DEF StreamTypes
<1>2. IsJson(ch) \in BOOLEAN
  BY DEF IsJson
<1>3. held[ch] \in Seq(Shown) /\ held[ch] \in Seq(Readable) /\ segment[ch] \in Seq(Readable)
  BY <1>1, SeqMonotonic DEF Shown, Readable
<1>4. closed[ch] \in Seq(Readable)
  BY <1>1, SeqMonotonic DEF Readable
<1>5. AsRead(shown[ch], IsJson(ch)) \in Seq(Readable)
  BY <1>1, <1>2, ReadType
<1>6. Restored(segment[ch]) \in Seq(Readable)
  BY <1>1, <1>3, ExactReadable DEF Restored
<1> QED
  BY <1>1, <1>2, <1>3, <1>4, <1>5, <1>6

\* While chunks come, what was read and what is held is all that was sent.
LEMMA FollowsAccounts ==
    ASSUME Apart, StreamTypes, Follows, AllWait, stage = "open", ~ relaying
    PROVE  Accounts
<1> SUFFICES ASSUME NEW ch \in Channels
             PROVE  closed[ch] \o Exact[segment[ch]]
                      = AsRead(shown[ch], IsJson(ch)) \o held[ch]
  BY DEF Accounts, Restored
<1>1. PICK p \in Seq(Readable) :
        /\ AsRead(shown[ch], IsJson(ch)) = closed[ch] \o p
        /\ Tracks(segment[ch], p, held[ch])
  BY DEF Follows
<1>2. Exact[held[ch]] = held[ch]
  BY ChannelTexts, WaitingIsExact DEF AllWait
<1>3. Exact[segment[ch]] = p \o held[ch]
  BY <1>1, <1>2, ChannelTexts, TracksNow, ZenonT(40)
<1>4. (closed[ch] \o p) \o held[ch] = closed[ch] \o (p \o held[ch])
  BY <1>1, ChannelTexts, ReadableRegroup
<1> QED
  BY <1>1, <1>3, <1>4

\* Nothing was sent, nothing was read.
LEMMA NothingYet ==
    ASSUME held = Empty, segment = Empty, shown = Empty, closed = Empty
    PROVE  /\ Follows /\ Accounts /\ AllWait /\ HasChunk
           /\ held \in [Channels -> Seq(Chars)] /\ segment \in [Channels -> Seq(Chars)]
           /\ shown \in [Channels -> Seq(Chars)] /\ closed \in [Channels -> Seq(Chars)]
           /\ shown \in [Channels -> Seq(Shown)] /\ closed \in [Channels -> Seq(Shown)]
<1>1. <<>> \in Seq(Chars) /\ <<>> \in Seq(Readable) /\ <<>> \in Seq(Shown)
  BY EmptySeq
<1>2. <<>> \o <<>> = <<>>
  BY <1>1, ConcatEmptySeq
<1>3. ASSUME NEW ch \in Channels
      PROVE  /\ held[ch] = <<>> /\ segment[ch] = <<>> /\ closed[ch] = <<>>
             /\ AsRead(shown[ch], IsJson(ch)) = <<>> /\ Restored(segment[ch]) = <<>>
  <2>1. IsJson(ch) \in BOOLEAN
    BY DEF IsJson
  <2>2. AsRead(<<>>, IsJson(ch)) = <<>>
    BY <1>1, <2>1, ReadChars
  <2> QED
    BY <2>2, ExactDef DEF Empty, Restored
<1>4. Follows
  BY <1>1, <1>2, <1>3, TracksNothing DEF Follows
<1>5. Accounts
  BY <1>2, <1>3 DEF Accounts
<1>6. AllWait /\ HasChunk
  BY <1>3 DEF AllWait, Waits, HasChunk
<1> QED
  BY <1>1, <1>4, <1>5, <1>6 DEF Empty

LEMMA InitFollows == StreamInit => StreamInv
<1> SUFFICES ASSUME StreamInit PROVE StreamInv
  OBVIOUS
<1> QED
  BY NothingYet DEF StreamInit, StreamInv, StreamTypes, Untouched, RelaysOnly

LEMMA StartFollows ==
    ASSUME StreamInv, NEW b \in BOOLEAN, StreamStarts(b)
    PROVE  StreamInv'
<1>1. /\ stage = "off" /\ stage' = "open" /\ relaying' = ~ b
      /\ UNCHANGED <<held, last, shown, segment, closed>>
  BY DEF StreamStarts
<1>2. held = Empty /\ segment = Empty /\ shown = Empty /\ closed = Empty
  BY <1>1 DEF StreamInv, Untouched
<1>3. held' = Empty /\ segment' = Empty /\ shown' = Empty /\ closed' = Empty /\ Empty' = Empty
  BY <1>1, <1>2 DEF Empty
<1>4. (held = Empty /\ segment = Empty /\ shown = Empty /\ closed = Empty
         => Follows /\ Accounts /\ AllWait /\ HasChunk)'
  BY NothingYet, PTL
<1>5. Follows' /\ Accounts' /\ AllWait' /\ HasChunk'
  BY <1>3, <1>4
<1>6. /\ shown \in [Channels -> Seq(Chars)] /\ closed \in [Channels -> Seq(Chars)]
  BY <1>2, NothingYet
<1>7. StreamTypes' /\ Untouched' /\ RelaysOnly'
  BY <1>1, <1>2, <1>3, <1>6 DEF StreamInv, StreamTypes, Untouched, RelaysOnly
<1> QED
  BY <1>1, <1>5, <1>7 DEF StreamInv

\* The buffer of a channel with the text of a chunk.
Filled(t, ch) == held[ch] \o TextIn(t, ch)

\* What a chunk does to one channel: its buffer is fed, and emptied when it is closed.
LEMMA ChunkOfChannel ==
    ASSUME StreamTypes, AllWait, HasChunk,
           NEW C \in SUBSET Channels, NEW fin, NEW t \in [C -> Seq(Chars)],
           RestoreChunk(t, fin), NEW ch \in Channels
    PROVE  /\ Filled(t, ch) \in Seq(Chars)
           /\ shown'[ch] = shown[ch] \o (Out(IsJson(ch))[Filled(t, ch)]
                              \o (IF ch[1] \in fin THEN Held[Filled(t, ch)] ELSE <<>>))
           /\ held'[ch] = IF ch[1] \in fin THEN <<>> ELSE Held[Filled(t, ch)]
           /\ held'[ch] # <<>> => ch[1] \in DOMAIN last'
<1> DEFINE b == Filled(t, ch)
           fed(o) == IF o \in DOMAIN t THEN Feed(held[o] \o t[o], IsJson(o))
                     ELSE [out |-> <<>>, held |-> held[o]]
           In == {o \in Channels : o[1] \in fin \/ o \in DOMAIN t}
           text(o) == fed(o).out \o (IF o[1] \in fin THEN fed(o).held ELSE <<>>)
<1>1. /\ held' = [o \in Channels |-> IF o[1] \in fin THEN <<>> ELSE fed(o).held]
      /\ shown'[ch] = shown[ch] \o (IF ch \in In THEN text(ch) ELSE <<>>)
      /\ DOMAIN last' = DOMAIN last \cup {o[1] : o \in In}
  BY DEF RestoreChunk, Closes, Followed, TextIn
<1>2. b \in Seq(Chars) /\ fed(ch).out = Out(IsJson(ch))[b] /\ fed(ch).held = Held[b]
  <2>1. CASE ch \in DOMAIN t
    <3>1. b = held[ch] \o t[ch] /\ t[ch] \in Seq(Chars) /\ held[ch] \in Seq(Chars)
      BY <2>1, ChannelTexts DEF TextIn, Filled
    <3>2. b \in Seq(Chars)
      BY <3>1, ConcatProperties
    <3> QED
      BY <2>1, <3>1, <3>2 DEF Feed
  <2>2. CASE ch \notin DOMAIN t
    <3>1. b = held[ch] /\ b \in Seq(Chars)
      BY <2>2, ChannelTexts, ConcatEmptySeq DEF TextIn, Filled
    <3>2. Waits(b)
      BY <3>1 DEF AllWait
    <3>3. Out(IsJson(ch))[b] = <<>> /\ Held[b] = b
      BY <3>1, <3>2, OutDef, HeldDef
    <3> QED
      BY <2>2, <3>1, <3>3
  <2> QED
    BY <2>1, <2>2
<1>3. shown'[ch] = shown[ch] \o (Out(IsJson(ch))[b]
                                   \o (IF ch[1] \in fin THEN Held[b] ELSE <<>>))
  <2>1. CASE ch \in In
    BY <1>1, <1>2, <2>1
  <2>2. CASE ch \notin In
    <3>1. ch \notin DOMAIN t /\ ch[1] \notin fin /\ Out(IsJson(ch))[b] = <<>>
      BY <1>2, <2>2
    <3>2. <<>> \o <<>> = <<>>
      BY EmptySeq, ConcatEmptySeq
    <3> QED
      BY <1>1, <2>2, <3>1, <3>2
  <2> QED
    BY <2>1, <2>2
<1>4. held'[ch] # <<>> => ch[1] \in DOMAIN last'
  <2>1. CASE ch \in In
    BY <1>1, <2>1
  <2>2. CASE ch \notin In
    BY <1>1, <2>2 DEF HasChunk
  <2> QED
    BY <2>1, <2>2
<1> QED
  BY <1>1, <1>2, <1>3, <1>4

\* A chunk that is restored.
LEMMA RestoredFollows ==
    ASSUME Apart, StreamInv, ~ relaying,
           NEW C \in SUBSET Channels, NEW fin, NEW t \in [C -> Seq(Chars)],
           ChunkArrives(t, fin)
    PROVE  StreamInv'
<1> DEFINE w(ch) == segment[ch] \o TextIn(t, ch)
           b(ch) == Filled(t, ch)
           x(ch) == Out(IsJson(ch))[b(ch)]
           y(ch) == AsRead(x(ch), IsJson(ch))
<1>0. /\ StreamTypes /\ Follows /\ AllWait /\ HasChunk
      /\ stage = "open" /\ stage' = "open" /\ relaying' = relaying
      /\ RestoreChunk(t, fin)
      /\ closed' = [ch \in Channels |-> IF ch[1] \in fin THEN closed[ch] \o Exact[w(ch)]
                                        ELSE closed[ch]]
      /\ segment' = [ch \in Channels |-> IF ch[1] \in fin THEN <<>> ELSE w(ch)]
  BY DEF StreamInv, ChunkArrives, Restored
<1>1. ASSUME NEW ch \in Channels
      PROVE  /\ b(ch) \in Seq(Chars)
             /\ shown'[ch] = shown[ch] \o (x(ch) \o (IF ch[1] \in fin THEN Held[b(ch)]
                                                     ELSE <<>>))
             /\ held'[ch] = IF ch[1] \in fin THEN <<>> ELSE Held[b(ch)]
             /\ held'[ch] # <<>> => ch[1] \in DOMAIN last'
  BY <1>0, ChunkOfChannel
<1>2. ASSUME NEW ch \in Channels
      PROVE  /\ x(ch) \in Seq(Shown) /\ Held[b(ch)] \in Seq(Chars) /\ Waits(Held[b(ch)])
             /\ Held[b(ch)] \in Seq(Shown) /\ Held[b(ch)] \in Seq(Readable)
             /\ TextIn(t, ch) \in Seq(Chars) /\ w(ch) \in Seq(Chars)
             /\ Exact[w(ch)] \in Seq(Shown) /\ y(ch) \in Seq(Readable)
  <2>1. x(ch) \in Seq(Shown) /\ Held[b(ch)] \in Seq(Chars) /\ Waits(Held[b(ch)])
    BY <1>1, FeedType
  <2>2. TextIn(t, ch) \in Seq(Chars)
    BY EmptySeq DEF TextIn
  <2>3. w(ch) \in Seq(Chars)
    BY <1>0, <2>2, ChannelTexts, ConcatProperties
  <2>4. Exact[w(ch)] \in Seq(Shown)
    BY <2>3, ExactType
  <2>5. y(ch) \in Seq(Readable)
    BY <1>0, <2>1, ChannelTexts, ReadType
  <2>6. Held[b(ch)] \in Seq(Shown) /\ Held[b(ch)] \in Seq(Readable)
    BY <2>1, SeqMonotonic DEF Shown, Readable
  <2> QED
    BY <2>1, <2>2, <2>3, <2>4, <2>5, <2>6
<1> HIDE DEF w, b, x, y
<1>3. StreamTypes'
  <2>1. DOMAIN held' = Channels /\ DOMAIN shown' = Channels
        /\ held' = [ch \in Channels |-> held'[ch]] /\ shown' = [ch \in Channels |-> shown'[ch]]
    BY <1>0 DEF RestoreChunk, Followed
  <2>2. ASSUME NEW ch \in Channels
        PROVE  /\ held'[ch] \in Seq(Chars) /\ shown'[ch] \in Seq(Shown)
               /\ (IF ch[1] \in fin THEN closed[ch] \o Exact[w(ch)] ELSE closed[ch])
                    \in Seq(Shown)
               /\ (IF ch[1] \in fin THEN <<>> ELSE w(ch)) \in Seq(Chars)
    <3>1. held'[ch] \in Seq(Chars) /\ (IF ch[1] \in fin THEN <<>> ELSE w(ch)) \in Seq(Chars)
      BY <1>1, <1>2, EmptySeq
    <3>2. (IF ch[1] \in fin THEN Held[b(ch)] ELSE <<>>) \in Seq(Shown)
      BY <1>2, EmptySeq
    <3>3. shown'[ch] \in Seq(Shown)
      <4> DEFINE h == IF ch[1] \in fin THEN Held[b(ch)] ELSE <<>>
      <4>1. x(ch) \in Seq(Shown) /\ h \in Seq(Shown) /\ shown[ch] \in Seq(Shown)
        BY <1>0, <1>2, <3>2, ChannelTexts
      <4>2. shown'[ch] = shown[ch] \o (x(ch) \o h)
        BY <1>1
      <4> HIDE DEF h
      <4>3. x(ch) \o h \in Seq(Shown)
        BY <4>1, ConcatProperties
      <4> QED
        BY <4>1, <4>2, <4>3, ConcatProperties
    <3>4. closed[ch] \o Exact[w(ch)] \in Seq(Shown) /\ closed[ch] \in Seq(Shown)
      BY <1>0, <1>2, ChannelTexts, ConcatProperties
    <3> QED
      BY <3>1, <3>3, <3>4
  <2> QED
    BY <1>0, <2>1, <2>2 DEF StreamTypes
<1>4. AllWait' /\ HasChunk'
  BY <1>1, <1>2 DEF AllWait, HasChunk, Waits
<1>5. ASSUME NEW ch \in Channels
      PROVE  \E p \in Seq(Readable) :
               /\ AsRead(shown'[ch], IsJson(ch)) = closed'[ch] \o p
               /\ Tracks(segment'[ch], p, held'[ch])
  <2>1. PICK p \in Seq(Readable) :
          /\ AsRead(shown[ch], IsJson(ch)) = closed[ch] \o p
          /\ Tracks(segment[ch], p, held[ch])
    BY <1>0 DEF Follows
  <2>2. /\ held[ch] \in Seq(Chars) /\ segment[ch] \in Seq(Chars) /\ shown[ch] \in Seq(Shown)
        /\ closed[ch] \in Seq(Readable) /\ IsJson(ch) \in BOOLEAN
    BY <1>0, ChannelTexts
  <2>3. Tracks(w(ch), p, b(ch))
    BY <1>2, <2>1, <2>2, TracksMore DEF w, b, Filled
  <2>4. Tracks(w(ch), p \o y(ch), Held[b(ch)])
    BY <1>1, <1>2, <2>1, <2>2, <2>3, TracksFeed DEF x, y
  <2>5. p \o y(ch) \in Seq(Readable)
    BY <1>2, <2>1, ConcatProperties
  <2>6. AsRead(shown[ch] \o x(ch), IsJson(ch)) = closed[ch] \o (p \o y(ch))
    <3>1. AsRead(shown[ch] \o x(ch), IsJson(ch)) = (closed[ch] \o p) \o y(ch)
      BY <1>2, <2>1, <2>2, ReadConcat, ZenonT(40) DEF y
    <3> QED
      BY <1>2, <2>1, <2>2, <3>1, ReadableRegroup
  <2>7. CASE ch[1] \notin fin
    <3>1. x(ch) \o <<>> = x(ch)
      BY <1>2, ConcatEmptySeq
    <3>2. shown'[ch] = shown[ch] \o x(ch) /\ held'[ch] = Held[b(ch)]
      BY <1>1, <2>7, <3>1
    <3>3. closed'[ch] = closed[ch] /\ segment'[ch] = w(ch)
      BY <1>0, <2>7
    <3> QED
      BY <2>4, <2>5, <2>6, <3>2, <3>3
  <2>8. CASE ch[1] \in fin
    <3> DEFINE h == Held[b(ch)]
               q == p \o y(ch)
    <3>1. shown'[ch] = shown[ch] \o (x(ch) \o h) /\ held'[ch] = <<>>
      BY <1>1, <2>8
    <3>2. closed'[ch] = closed[ch] \o Exact[w(ch)] /\ segment'[ch] = <<>>
      BY <1>0, <2>8
    <3>3. /\ h \in Seq(Chars) /\ h \in Seq(Shown) /\ h \in Seq(Readable) /\ Waits(h)
          /\ q \in Seq(Readable)
      BY <1>2, <2>5
    <3>4. Tracks(w(ch), q, h)
      BY <2>4
    <3> HIDE DEF h, q
    <3>5. Exact[w(ch)] = q \o h
      <4>1. w(ch) \in Seq(Chars)
        BY <1>2
      <4>2. Exact[w(ch)] = q \o Exact[h]
        BY <3>3, <3>4, <4>1, TracksNow
      <4>3. Exact[h] = h
        BY <3>3, WaitingIsExact
      <4> QED
        BY <4>2, <4>3
    <3>6. shown'[ch] = (shown[ch] \o x(ch)) \o h /\ shown[ch] \o x(ch) \in Seq(Shown)
      BY <1>2, <2>2, <3>1, <3>3, ShownRegroup, ConcatProperties
    <3>7. AsRead(shown'[ch], IsJson(ch)) = (closed[ch] \o q) \o h
      <4>1. AsRead((shown[ch] \o x(ch)) \o h, IsJson(ch))
              = AsRead(shown[ch] \o x(ch), IsJson(ch)) \o AsRead(h, IsJson(ch))
        BY <2>2, <3>3, <3>6, ReadConcat
      <4>2. AsRead(h, IsJson(ch)) = h
        BY <2>2, <3>3, ReadChars
      <4> QED
        BY <2>6, <3>6, <4>1, <4>2 DEF q
    <3>8. (closed[ch] \o q) \o h = closed'[ch] /\ closed'[ch] \in Seq(Readable)
      <4>1. (closed[ch] \o q) \o h = closed[ch] \o (q \o h)
        BY <2>2, <3>3, ReadableRegroup
      <4>2. q \o h \in Seq(Readable)
        BY <3>3, ConcatProperties
      <4>3. closed[ch] \o (q \o h) \in Seq(Readable)
        BY <2>2, <4>2, ConcatProperties
      <4> QED
        BY <3>2, <3>5, <4>1, <4>3
    <3>9. closed'[ch] \o <<>> = closed'[ch] /\ <<>> \in Seq(Readable)
      BY <3>8, ConcatEmptySeq, EmptySeq
    <3>10. AsRead(shown'[ch], IsJson(ch)) = closed'[ch] \o <<>>
      BY <3>7, <3>8, <3>9
    <3> QED
      BY <3>1, <3>2, <3>9, <3>10, TracksNothing
  <2> QED
    BY <2>7, <2>8
<1>6. Follows'
  BY <1>5 DEF Follows
<1>7. (Apart /\ StreamTypes /\ Follows /\ AllWait /\ stage = "open" /\ ~ relaying => Accounts)'
  BY FollowsAccounts, PTL
<1>8. Untouched' /\ RelaysOnly'
  BY <1>0 DEF Untouched, RelaysOnly
<1>9. Apart'
  BY DEF Apart
<1> QED
  BY <1>0, <1>3, <1>4, <1>6, <1>7, <1>8, <1>9 DEF StreamInv

\* A chunk that goes through as it is.
LEMMA RelayedFollows ==
    ASSUME StreamInv, relaying,
           NEW C \in SUBSET Channels, NEW fin, NEW t \in [C -> Seq(Chars)],
           ChunkArrives(t, fin)
    PROVE  StreamInv'
<1> DEFINE x(ch) == TextIn(t, ch)
           w(ch) == segment[ch] \o x(ch)
<1>0. /\ StreamTypes /\ Accounts /\ AllWait /\ HasChunk /\ held = Empty
      /\ shown \in [Channels -> Seq(Chars)] /\ closed \in [Channels -> Seq(Chars)]
      /\ stage = "open" /\ stage' = "open" /\ relaying' = relaying
      /\ held' = held /\ last' = last
      /\ shown' = [ch \in Channels |-> shown[ch] \o x(ch)]
      /\ closed' = [ch \in Channels |-> IF ch[1] \in fin THEN closed[ch] \o w(ch)
                                        ELSE closed[ch]]
      /\ segment' = [ch \in Channels |-> IF ch[1] \in fin THEN <<>> ELSE w(ch)]
  BY DEF StreamInv, RelaysOnly, ChunkArrives, Relay, Followed, Restored
<1>1. ASSUME NEW ch \in Channels
      PROVE  /\ shown[ch] \in Seq(Chars) /\ closed[ch] \in Seq(Chars)
             /\ segment[ch] \in Seq(Chars) /\ x(ch) \in Seq(Chars) /\ w(ch) \in Seq(Chars)
             /\ shown[ch] \o x(ch) \in Seq(Chars) /\ closed[ch] \o w(ch) \in Seq(Chars)
             /\ IsJson(ch) \in BOOLEAN /\ <<>> \in Seq(Chars)
  <2>1. <<>> \in Seq(Chars)
    BY EmptySeq
  <2>2. x(ch) \in Seq(Chars) /\ segment[ch] \in Seq(Chars)
    BY <1>0, <2>1 DEF TextIn, StreamTypes
  <2>3. w(ch) \in Seq(Chars)
    BY <2>2, ConcatProperties
  <2> HIDE DEF x, w
  <2> QED
    BY <1>0, <2>1, <2>2, <2>3, ConcatProperties DEF IsJson
<1> HIDE DEF x
<1>2. /\ shown' \in [Channels -> Seq(Chars)] /\ closed' \in [Channels -> Seq(Chars)]
      /\ segment' \in [Channels -> Seq(Chars)]
  BY <1>0, <1>1
<1>3. Seq(Chars) \subseteq Seq(Shown)
  BY SeqMonotonic DEF Shown
<1>4. StreamTypes'
  BY <1>0, <1>2, <1>3 DEF StreamTypes
<1>5. ASSUME NEW ch \in Channels
      PROVE  closed'[ch] \o segment'[ch] = AsRead(shown'[ch], IsJson(ch)) \o held'[ch]
  <2>1. held'[ch] = <<>> /\ held[ch] = <<>>
    BY <1>0 DEF Empty
  <2>2. AsRead(shown[ch], IsJson(ch)) = shown[ch]
        /\ AsRead(shown'[ch], IsJson(ch)) = shown'[ch]
    BY <1>1, <1>2, ReadChars
  <2>3. shown[ch] \o <<>> = shown[ch] /\ shown'[ch] \o <<>> = shown'[ch]
    BY <1>1, <1>2, ConcatEmptySeq
  <2>4. closed[ch] \o segment[ch] = shown[ch]
    BY <1>0, <2>1, <2>2, <2>3 DEF Accounts, Restored
  <2>5. closed[ch] \o w(ch) = shown[ch] \o x(ch)
    <3>1. (closed[ch] \o segment[ch]) \o x(ch) = closed[ch] \o (segment[ch] \o x(ch))
      <4>1. closed[ch] \in Seq(Chars) /\ segment[ch] \in Seq(Chars) /\ x(ch) \in Seq(Chars)
        BY <1>1
      <4> QED
        BY <4>1, Regroup
    <3> QED
      BY <2>4, <3>1
  <2>6. (closed[ch] \o w(ch)) \o <<>> = closed[ch] \o w(ch)
    BY <1>1, ConcatEmptySeq
  <2>7. closed'[ch] \o segment'[ch] = closed[ch] \o w(ch)
    BY <1>0, <2>6
  <2> QED
    BY <1>0, <2>1, <2>2, <2>3, <2>5, <2>7
<1>6. Accounts'
  BY <1>0, <1>5 DEF Accounts, Restored
<1>7. AllWait' /\ HasChunk' /\ Untouched' /\ Follows' /\ RelaysOnly'
  BY <1>0, <1>2 DEF AllWait, HasChunk, Untouched, Follows, RelaysOnly, Empty
<1> QED
  BY <1>0, <1>4, <1>6, <1>7 DEF StreamInv

\* The drain sends what is held of a channel, and adds nothing to another.
LEMMA DrainShows ==
    ASSUME StreamInv, NEW ch \in Channels, DrainOne(ch), NEW o \in Channels
    PROVE  /\ shown'[o] = shown[o] \o (IF o = ch THEN held[ch] ELSE <<>>)
           /\ held'[o] = IF o = ch THEN <<>> ELSE held[o]
<1>1. StreamTypes /\ ch[1] \in DOMAIN last
  BY DEF StreamInv, HasChunk, DrainOne
<1>2. /\ shown' = Followed(shown, Clone(ch)) /\ held' = [held EXCEPT ![ch] = <<>>]
  BY <1>1 DEF DrainOne
<1>3. TextIn(Clone(ch), o) = IF o = ch THEN held[ch] ELSE <<>>
  BY DEF TextIn, Clone
<1> QED
  BY <1>1, <1>2, <1>3 DEF Followed, StreamTypes

LEMMA DrainFollows ==
    ASSUME StreamInv, NEW ch \in Channels, DrainOne(ch)
    PROVE  StreamInv'
<1>0. /\ StreamTypes /\ Accounts /\ AllWait /\ HasChunk
      /\ stage = "drain" /\ held[ch] # <<>>
      /\ UNCHANGED <<stage, relaying, last, segment, closed>>
  BY DEF StreamInv, DrainOne
<1>1. ~ relaying
  BY <1>0 DEF StreamInv, RelaysOnly, Empty
<1>2. DOMAIN shown' = Channels /\ shown' = [o \in Channels |-> shown'[o]]
  BY <1>0 DEF DrainOne, Followed, StreamTypes
<1>3. held' = [held EXCEPT ![ch] = <<>>]
  BY DEF DrainOne
<1>4. ASSUME NEW o \in Channels
      PROVE  /\ shown'[o] \in Seq(Shown)
             /\ closed[o] \o Restored(segment[o]) = AsRead(shown'[o], IsJson(o)) \o held'[o]
  <2>1. /\ shown[o] \in Seq(Shown) /\ held[o] \in Seq(Shown) /\ held[o] \in Seq(Chars)
        /\ IsJson(o) \in BOOLEAN /\ AsRead(shown[o], IsJson(o)) \in Seq(Readable)
        /\ held[o] \in Seq(Readable)
    BY <1>0, ChannelTexts
  <2>2. closed[o] \o Restored(segment[o]) = AsRead(shown[o], IsJson(o)) \o held[o]
    BY <1>0 DEF Accounts
  <2>3. CASE o = ch
    <3>1. shown'[o] = shown[o] \o held[o] /\ held'[o] = <<>>
      BY <2>3, DrainShows
    <3>2. AsRead(shown[o] \o held[o], IsJson(o)) = AsRead(shown[o], IsJson(o)) \o held[o]
      BY <2>1, ReadConcat, ReadChars, ZenonT(40)
    <3>3. AsRead(shown[o], IsJson(o)) \o held[o] \in Seq(Readable)
          /\ shown[o] \o held[o] \in Seq(Shown)
      BY <2>1, ConcatProperties
    <3>4. AsRead(shown'[o], IsJson(o)) \o <<>> = AsRead(shown'[o], IsJson(o))
      BY <3>1, <3>2, <3>3, ConcatEmptySeq
    <3> QED
      BY <2>2, <3>1, <3>2, <3>3, <3>4
  <2>4. CASE o # ch
    <3>1. shown'[o] = shown[o] /\ held'[o] = held[o]
      BY <2>1, <2>4, DrainShows, ConcatEmptySeq
    <3> QED
      BY <2>1, <2>2, <3>1
  <2> QED
    BY <2>3, <2>4
<1>5. StreamTypes'
  BY <1>0, <1>2, <1>3, <1>4, EmptySeq DEF StreamTypes
<1>6. Accounts'
  BY <1>0, <1>4 DEF Accounts, Restored
<1>7. AllWait' /\ HasChunk'
  BY <1>0, <1>3 DEF AllWait, HasChunk, Waits, StreamTypes
<1>8. Untouched' /\ RelaysOnly' /\ Follows' /\ stage' # "ended"
  BY <1>0, <1>1 DEF Untouched, RelaysOnly, Follows
<1> QED
  BY <1>5, <1>6, <1>7, <1>8 DEF StreamInv

StreamSteps == (\E b \in BOOLEAN : StreamStarts(b)) \/ Streaming \/ StreamEnds \/ Cut

LEMMA StreamFollows ==
    ASSUME Apart
    PROVE  StreamInv /\ [StreamSteps]_streamVars => StreamInv'
<1> SUFFICES ASSUME StreamInv, [StreamSteps]_streamVars PROVE StreamInv'
  OBVIOUS
<1>1. CASE \E b \in BOOLEAN : StreamStarts(b)
  BY <1>1, StartFollows
<1>2. CASE SomeChunk
  <2>1. PICK C \in SUBSET Channels, fin \in SUBSET Indices :
           \E t \in [C -> Seq(Chars)] : ChunkArrives(t, fin)
    BY <1>2, ChunkTokens
  <2>2. PICK t \in [C -> Seq(Chars)] : ChunkArrives(t, fin)
    BY <2>1
  <2>3. relaying \in BOOLEAN
    BY DEF StreamInv, StreamTypes
  <2> QED
    BY <2>2, <2>3, RestoredFollows, RelayedFollows
<1>3. ASSUME UNCHANGED <<relaying, held, last, shown, segment, closed>>,
             stage' = stage \/ stage' \in {"drain", "cut"}
                            \/ (stage' = "ended" /\ held = Empty)
      PROVE  StreamInv'
  <2>1. StreamTypes' /\ Untouched' /\ RelaysOnly' /\ (stage' = "ended" => held' = Empty)
    BY <1>3 DEF StreamInv, StreamTypes, Untouched, RelaysOnly, Empty
  <2>2. Follows' /\ Accounts' /\ AllWait' /\ HasChunk'
    BY <1>3 DEF StreamInv, Follows, Accounts, AllWait, HasChunk, Restored
  <2> QED
    BY <2>1, <2>2 DEF StreamInv, Empty
<1>4. CASE SourceEnds \/ StreamEnds \/ Cut \/ UNCHANGED streamVars
  BY <1>3, <1>4 DEF SourceEnds, StreamEnds, Cut, streamVars
<1>5. ASSUME NEW ch \in Channels, DrainOne(ch)
      PROVE  StreamInv'
  BY <1>5, DrainFollows
<1> QED
  BY <1>1, <1>2, <1>4, <1>5 DEF StreamSteps, Streaming

Reading(ch) == AsRead(shown[ch], IsJson(ch))
Whole(ch) == closed[ch] \o Restored(segment[ch])

\* What the client has read.
ReadsOK ==
    \A ch \in Channels :
        /\ Promise!Begins(Reading(ch), Whole(ch))
        /\ stage = "ended" => Reading(ch) = Whole(ch)

LEMMA ReadsTheBeginning == StreamInv => ReadsOK
<1> SUFFICES ASSUME StreamInv, NEW ch \in Channels
             PROVE  /\ Promise!Begins(Reading(ch), Whole(ch))
                    /\ stage = "ended" => Reading(ch) = Whole(ch)
  BY DEF ReadsOK
<1>1. Reading(ch) \in Seq(Readable) /\ held[ch] \in Seq(Readable)
  BY ChannelTexts DEF StreamInv, Reading
<1>2. Whole(ch) = Reading(ch) \o held[ch]
  BY DEF StreamInv, Accounts, Whole, Reading
<1>3. stage = "ended" => Reading(ch) = Whole(ch)
  BY <1>1, <1>2, ConcatEmptySeq DEF StreamInv, Empty
<1>4. Promise!Begins(Reading(ch), Whole(ch))
  BY <1>1, <1>2, BeginsLonger DEF Promise!Begins
<1> QED
  BY <1>3, <1>4

LEMMA ChunkShows ==
    ASSUME StreamTypes, AllWait, HasChunk,
           NEW C \in SUBSET Channels, NEW fin, NEW t \in [C -> Seq(Chars)],
           RestoreChunk(t, fin), NEW ch \in Channels
    PROVE  \E x \in Seq(Shown) : shown'[ch] = shown[ch] \o x
<1>0. /\ Filled(t, ch) \in Seq(Chars)
      /\ shown'[ch] = shown[ch] \o (Out(IsJson(ch))[Filled(t, ch)]
                         \o (IF ch[1] \in fin THEN Held[Filled(t, ch)] ELSE <<>>))
      /\ held'[ch] = IF ch[1] \in fin THEN <<>> ELSE Held[Filled(t, ch)]
      /\ held'[ch] # <<>> => ch[1] \in DOMAIN last'
  BY ChunkOfChannel
<1> DEFINE b == Filled(t, ch)
           x == Out(IsJson(ch))[b]
           y == IF ch[1] \in fin THEN Held[b] ELSE <<>>
<1>1. b \in Seq(Chars) /\ shown'[ch] = shown[ch] \o (x \o y)
  BY <1>0
<1>2. x \in Seq(Shown) /\ Held[b] \in Seq(Chars)
  BY <1>1, FeedType
<1>3. Held[b] \in Seq(Shown)
  BY <1>2, SeqMonotonic DEF Shown
<1>4. y \in Seq(Shown)
  BY <1>3, EmptySeq
<1> HIDE DEF x, y
<1>5. x \o y \in Seq(Shown)
  BY <1>2, <1>4, ConcatProperties
<1> QED
  BY <1>1, <1>5

\* What is shown stays, and what comes is added behind it.
LEMMA StepShows ==
    ASSUME StreamInv, StreamSteps, NEW ch \in Channels
    PROVE  \E x \in Seq(Shown) : shown'[ch] = shown[ch] \o x
<1>0. StreamTypes /\ AllWait /\ HasChunk
  BY DEF StreamInv
<1>1. ASSUME shown' = shown
      PROVE  \E x \in Seq(Shown) : shown'[ch] = shown[ch] \o x
  <2>1. <<>> \in Seq(Shown) /\ shown'[ch] = shown[ch] \o <<>>
    BY <1>0, <1>1, ChannelTexts, EmptySeq, ConcatEmptySeq
  <2> QED
    BY <2>1
<1>2. CASE SomeChunk
  <2>1. PICK C \in SUBSET Channels, fin \in SUBSET Indices :
           \E t \in [C -> Seq(Chars)] : ChunkArrives(t, fin)
    BY <1>2, ChunkTokens
  <2>2. PICK t \in [C -> Seq(Chars)] : ChunkArrives(t, fin)
    BY <2>1
  <2>3. CASE relaying
    <3>1. shown'[ch] = shown[ch] \o TextIn(t, ch)
      BY <2>2, <2>3 DEF ChunkArrives, Relay, Followed
    <3>2. TextIn(t, ch) \in Seq(Chars) /\ Seq(Chars) \subseteq Seq(Shown)
      BY EmptySeq, SeqMonotonic DEF TextIn, Shown
    <3> QED
      BY <3>1, <3>2
  <2>4. CASE ~ relaying
    BY <1>0, <2>2, <2>4, ChunkShows DEF ChunkArrives
  <2> QED
    BY <2>3, <2>4
<1>3. CASE (\E b \in BOOLEAN : StreamStarts(b)) \/ SourceEnds \/ StreamEnds \/ Cut
  BY <1>1, <1>3 DEF StreamStarts, SourceEnds, StreamEnds, Cut
<1>4. ASSUME NEW o \in Channels, DrainOne(o)
      PROVE  \E x \in Seq(Shown) : shown'[ch] = shown[ch] \o x
  <2>1. /\ shown'[ch] = shown[ch] \o (IF ch = o THEN held[o] ELSE <<>>)
        /\ (IF ch = o THEN held[o] ELSE <<>>) \in Seq(Shown)
    BY <1>0, <1>4, DrainShows, ChannelTexts, EmptySeq
  <2> QED
    BY <2>1
<1> QED
  BY <1>2, <1>3, <1>4 DEF StreamSteps, Streaming

LEMMA ShownGrows ==
    ASSUME StreamInv, StreamSteps, NEW ch \in Channels
    PROVE  Promise!Begins(Reading(ch), Reading(ch)')
<1>1. PICK x \in Seq(Shown) : shown'[ch] = shown[ch] \o x
  BY StepShows
<1>2. shown[ch] \in Seq(Shown) /\ IsJson(ch) \in BOOLEAN
  BY ChannelTexts DEF StreamInv
<1>3. Reading(ch)' = AsRead(shown[ch], IsJson(ch)) \o AsRead(x, IsJson(ch))
  BY <1>1, <1>2, ReadConcat DEF Reading
<1>4. AsRead(shown[ch], IsJson(ch)) \in Seq(Readable) /\ AsRead(x, IsJson(ch)) \in Seq(Readable)
  BY <1>2, ReadType
<1> QED
  BY <1>3, <1>4, BeginsLonger DEF Promise!Begins, Reading

LEMMA StepPromise ==
    ASSUME StreamInv, ReadsOK', [StreamSteps]_streamVars
    PROVE  \/ Promise!Next
           \/ UNCHANGED <<[ch \in Channels |-> Whole(ch)],
                          [ch \in Channels |-> Reading(ch)], stage = "ended", {}>>
<1>1. CASE UNCHANGED streamVars
  BY <1>1 DEF streamVars, Reading, Whole, Restored
<1>2. CASE StreamSteps
  <2>1. stage # "ended"
    BY <1>2 DEF StreamSteps, StreamStarts, Streaming, SomeChunk, ChunkArrives, SourceEnds,
                DrainOne, StreamEnds, Cut
  <2>2. ASSUME NEW ch \in Channels
        PROVE  /\ Promise!Begins(Reading(ch), Reading(ch)')
               /\ Promise!Begins(Reading(ch)', Whole(ch)')
               /\ stage' = "ended" => Reading(ch)' = Whole(ch)'
    <3>1. Promise!Begins(Reading(ch), Reading(ch)')
      BY <1>2, ShownGrows
    <3>2. /\ Promise!Begins(Reading(ch), Whole(ch))'
          /\ stage' = "ended" => Reading(ch)' = Whole(ch)'
      BY DEF ReadsOK
    <3> QED
      BY <3>1, <3>2 DEF Promise!Begins
  <2> QED
    BY <2>1, <2>2 DEF Promise!Next, Promise!Advances, Reading, Whole
<1> QED
  BY <1>1, <1>2

LEMMA InitPromise == StreamInit => Promise!Init
<1> SUFFICES ASSUME StreamInit PROVE Promise!Init
  OBVIOUS
<1>1. ASSUME NEW ch \in Channels PROVE Reading(ch) = <<>> /\ Whole(ch) = <<>>
  <2>1. <<>> \in Seq(Chars) /\ IsJson(ch) \in BOOLEAN
    BY EmptySeq DEF IsJson
  <2>2. shown[ch] = <<>> /\ segment[ch] = <<>> /\ closed[ch] = <<>> /\ ~ relaying
    BY DEF StreamInit, Empty
  <2>3. <<>> \o <<>> = <<>>
    BY <2>1, ConcatEmptySeq
  <2> QED
    BY <2>1, <2>2, <2>3, ReadChars, ExactDef DEF Reading, Whole, Restored
<1> QED
  BY <1>1 DEF StreamInit, Promise!Init, Reading, Whole

\* The guardrail implements the promise of a restored stream, as long as no placeholder
\* is part of another: every segment of a channel is restored whole, text behind a
\* finish_reason included, however the chunks cut it and mix the choices.
THEOREM KeepsThePromise ==
    ASSUME Apart
    PROVE  Spec => PromiseKept
<1>1. Init => StreamInit
  BY DEF Init
<1>2. StreamInv /\ [Next]_vars => [StreamSteps]_streamVars
  <2>1. StreamHook => \E b \in BOOLEAN : StreamStarts(b)
    BY DEF StreamHook
  <2> QED
    BY <2>1 DEF Next, StreamSteps, StreamDone, StreamFails, Over, vars
<1>3. Spec => []StreamInv
  BY <1>1, <1>2, InitFollows, StreamFollows, PTL DEF Spec
<1>4. StreamInv /\ ReadsOK' /\ [StreamSteps]_streamVars
        => [Promise!Next]_<<[ch \in Channels |-> Whole(ch)],
                            [ch \in Channels |-> Reading(ch)], stage = "ended", {}>>
  BY StepPromise
<1> QED
  BY <1>1, <1>2, <1>3, <1>4, InitPromise, ReadsTheBeginning, PTL
     DEF Spec, PromiseKept, Promise!Spec, Reading, Whole

=============================================================================
