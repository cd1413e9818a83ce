------------------------ MODULE DetectionCacheProofs ------------------------
(***************************************************************************)
(* Proofs about DetectionCache, for any number of calls, texts, detectors,  *)
(* configurations and entries, and any clock: an answer is complete, no     *)
(* older than the time to live and what the live configuration would find,  *)
(* and a write sweeps and evicts what was used least recently.              *)
(***************************************************************************)
EXTENDS DetectionCache, FiniteSetTheorems, WellFoundedInduction, TLAPS

-----------------------------------------------------------------------------
(* The inductive invariant *)

Types ==
    /\ clock \in Nat /\ config \in Configs /\ changes \in Nat
    /\ DOMAIN entries \subseteq Keys
    /\ \A k \in DOMAIN entries : entries[k] \in Entries
    /\ call \in [Calls -> CallType]

\* A key was made of the configuration that was live when its run began: as long as
\* that has not changed it still is, and after one change it is not.
Since(born, made) ==
    /\ born <= changes
    /\ changes = born => config = made
    /\ changes = born + 1 => config # made

\* A result of every detector; as long as nothing changed since its run began, it
\* was found and merged under the configuration of its key.
Complete(res, text) == res \in Results /\ res.by = Detectors /\ res.text = text
Stands(res, born, made) == changes = born => res.ran = made /\ res.merged = made

EntryOK(k) ==
    /\ entries[k].stored <= entries[k].written
    /\ entries[k].written <= clock
    /\ Complete(entries[k].result, k.text)
    /\ Stands(entries[k].result, entries[k].born, k.config)
    /\ Since(entries[k].born, k.config)

InFlight == {"lookup", "detect", "merge", "store"}

CallOK(r) ==
    /\ r.now <= clock
    /\ r.pc \in InFlight =>
         r.text \in Texts /\ r.config \in Configs /\ Since(r.born, r.config) /\ r.hit = None
    /\ r.pc = "merge" => r.ran \in Configs /\ (changes = r.born => r.ran = r.config)
    /\ r.pc = "store" =>
         Complete(r.result, r.text) /\ Stands(r.result, r.born, r.config)
    /\ r.pc = "done" =>
         Complete(r.result, r.text) /\ (r.hit # None => r.now - r.hit.written <= TTL)

Inv ==
    /\ Types
    /\ \A k \in DOMAIN entries : EntryOK(k)
    /\ \A c \in Calls : CallOK(call[c])

-----------------------------------------------------------------------------
(* The steps of one call *)

\* A step that moves one call on leaves the others as they are.
LEMMA CallMoves ==
    ASSUME Inv, NEW c \in Calls, NEW r \in CallType, CallOK(r),
           call' = [call EXCEPT ![c] = r],
           UNCHANGED <<clock, config, changes>>
    PROVE  call' \in [Calls -> CallType] /\ \A d \in Calls : CallOK(call[d])'
<1>1. call' \in [Calls -> CallType]
  BY DEF Inv, Types
<1>2. ASSUME NEW d \in Calls PROVE CallOK(call[d])'
  <2>1. call'[d] = IF d = c THEN r ELSE call[d]
    BY DEF Inv, Types
  <2>2. CallOK(call'[d])
    BY <2>1 DEF Inv
  <2>3. CallOK(call'[d]) <=> CallOK(call[d])'
    BY DEF CallOK, Since, Stands, Complete
  <2> QED BY <2>2, <2>3
<1> QED BY <1>1, <1>2

\* A step that touches nothing else.
LEMMA OnlyCallMoves ==
    ASSUME Inv, NEW c \in Calls, NEW r \in CallType, CallOK(r),
           call' = [call EXCEPT ![c] = r],
           UNCHANGED <<clock, config, changes, entries>>
    PROVE  Inv'
<1>1. \A k \in DOMAIN entries' : EntryOK(k)'
  BY DEF Inv, EntryOK, Complete, Stands, Since
<1>2. call' \in [Calls -> CallType] /\ \A d \in Calls : CallOK(call[d])'
  BY CallMoves
<1> QED BY <1>1, <1>2 DEF Inv, Types

\* Fewer entries are as good.
LEMMA EntriesLeave ==
    ASSUME Inv, NEW S, entries' = Only(entries, S),
           UNCHANGED <<clock, config, changes>>
    PROVE  /\ DOMAIN entries' \subseteq Keys
           /\ \A k \in DOMAIN entries' : entries'[k] \in Entries /\ EntryOK(k)'
<1>1. DOMAIN entries' = DOMAIN entries \cap S
  BY DEF Only
<1>2. \A k \in DOMAIN entries' : entries'[k] = entries[k]
  BY <1>1 DEF Only
<1> QED
  BY <1>1, <1>2 DEF Inv, Types, EntryOK, Complete, Stands, Since

LEMMA InitInv == Init => Inv
<1> SUFFICES ASSUME Init PROVE Inv
  OBVIOUS
<1>1. DOMAIN entries = {}
  BY DEF Init
<1>2. Idle \in CallType
  BY DEF Idle, CallType
<1>3. CallOK(Idle)
  BY DEF CallOK, Idle, InFlight, Init
<1> QED BY <1>1, <1>2, <1>3 DEF Init, Inv, Types

LEMMA BeginInv ==
    ASSUME Inv, NEW c \in Calls, NEW t \in Texts, Begin(c, t) PROVE Inv'
<1> DEFINE r == [Idle EXCEPT !.pc = "lookup", !.text = t, !.config = config,
                             !.now = clock, !.born = changes]
<1>1. r \in CallType
  BY DEF Inv, Types, CallType, Idle
<1>2. CallOK(r)
  BY DEF Inv, Types, CallOK, Idle, InFlight, Since
<1>3. call' = [call EXCEPT ![c] = r] /\ UNCHANGED <<clock, config, changes, entries>>
  BY DEF Begin
<1> HIDE DEF r
<1> QED BY <1>1, <1>2, <1>3, OnlyCallMoves

\* A hit: the key is that of the entry, so what holds of the entry holds of the answer.
LEMMA HitInv ==
    ASSUME Inv, NEW c \in Calls, Hit(c) PROVE Inv'
<1> DEFINE k == KeyOf(c)
           r == [call[c] EXCEPT !.pc = "done", !.result = entries[k].result,
                                !.hit = entries[k]]
<1>0. k \in DOMAIN entries /\ ~Expired(k, call[c].now)
  BY DEF Hit
<1>1. entries[k] \in Entries /\ EntryOK(k) /\ call[c] \in CallType /\ CallOK(call[c])
  BY <1>0 DEF Inv, Types
<1>2. k.text = call[c].text
  BY DEF KeyOf
<1>3. Complete(entries[k].result, call[c].text)
  BY <1>1, <1>2 DEF EntryOK
<1>4. r \in CallType
  BY <1>1 DEF CallType, Entries
<1>5. call[c].now - entries[k].written <= TTL
  <2>1. /\ call[c].now \in Nat /\ entries[k].stored \in Nat /\ entries[k].written \in Nat
        /\ TTL \in Nat
    BY <1>1, ConstantsOK DEF CallType, Entries
  <2>2. call[c].now - entries[k].stored <= TTL
    BY <1>0, <2>1 DEF Expired
  <2> QED BY <1>1, <2>1, <2>2 DEF EntryOK
<1>6. CallOK(r)
  <2>1. /\ r.pc = "done" /\ r.now = call[c].now /\ r.text = call[c].text
        /\ r.result = entries[k].result /\ r.hit = entries[k]
    BY <1>1 DEF CallType
  <2> HIDE DEF r, k
  <2> QED BY <1>1, <1>3, <1>5, <2>1 DEF CallOK, InFlight
<1>7. call' = [call EXCEPT ![c] = r] /\ UNCHANGED <<clock, config, changes, entries>>
  BY DEF Hit, Inv, Types
<1> HIDE DEF r
<1> QED BY <1>4, <1>6, <1>7, OnlyCallMoves

LEMMA MissInv ==
    ASSUME Inv, NEW c \in Calls, Miss(c) PROVE Inv'
<1> DEFINE r == [call[c] EXCEPT !.pc = "detect"]
<1>1. call[c] \in CallType /\ CallOK(call[c]) /\ call[c].pc = "lookup"
  BY DEF Inv, Types, Miss
<1>2. r \in CallType
  BY <1>1 DEF CallType
<1>3. CallOK(r)
  BY <1>1 DEF CallOK, InFlight, CallType
<1>4. call' = [call EXCEPT ![c] = r] /\ UNCHANGED <<clock, config, changes>>
  BY DEF Miss, Inv, Types
<1>5. entries' = Only(entries, Keys \ {KeyOf(c)})
  BY DEF Miss
<1> HIDE DEF r
<1>6. call' \in [Calls -> CallType] /\ \A d \in Calls : CallOK(call[d])'
  BY <1>2, <1>3, <1>4, CallMoves
<1>7. /\ DOMAIN entries' \subseteq Keys
      /\ \A k \in DOMAIN entries' : entries'[k] \in Entries /\ EntryOK(k)'
  BY <1>4, <1>5, EntriesLeave
<1> QED BY <1>4, <1>6, <1>7 DEF Inv, Types

LEMMA DetectorsAnswerInv ==
    ASSUME Inv, NEW c \in Calls, NEW by \in SUBSET Detectors, DetectorsAnswer(c, by)
    PROVE  Inv'
<1> DEFINE r == [call[c] EXCEPT !.pc = "merge", !.by = by, !.ran = config]
<1>1. call[c] \in CallType /\ CallOK(call[c]) /\ call[c].pc = "detect"
  BY DEF Inv, Types, DetectorsAnswer
<1>2. r \in CallType
  BY <1>1 DEF CallType, Inv, Types
<1>3. CallOK(r)
  BY <1>1 DEF CallOK, InFlight, CallType, Since, Inv, Types
<1>4. call' = [call EXCEPT ![c] = r] /\ UNCHANGED <<clock, config, changes, entries>>
  BY DEF DetectorsAnswer, Inv, Types
<1> HIDE DEF r
<1> QED BY <1>2, <1>3, <1>4, OnlyCallMoves

LEMMA FailsInv ==
    ASSUME Inv, NEW c \in Calls, Fails(c) PROVE Inv'
<1> DEFINE r == [Idle EXCEPT !.pc = "failed"]
<1>1. r \in CallType /\ CallOK(r)
  BY DEF CallType, Idle, CallOK, InFlight, Inv, Types
<1>2. call' = [call EXCEPT ![c] = r] /\ UNCHANGED <<clock, config, changes, entries>>
  BY DEF Fails
<1> HIDE DEF r
<1> QED BY <1>1, <1>2, OnlyCallMoves

LEMMA ReturnInv ==
    ASSUME Inv, NEW c \in Calls, Return(c) PROVE Inv'
<1>1. Idle \in CallType /\ CallOK(Idle)
  BY DEF CallType, Idle, CallOK, InFlight, Inv, Types
<1>2. call' = [call EXCEPT ![c] = Idle] /\ UNCHANGED <<clock, config, changes, entries>>
  BY DEF Return
<1> QED BY <1>1, <1>2, OnlyCallMoves

\* What is merged has the findings of every detector.
LEMMA MergesInv ==
    ASSUME Inv, NEW c \in Calls, Merges(c) PROVE Inv'
<1> DEFINE res == [text |-> call[c].text, by |-> call[c].by,
                   ran |-> call[c].ran, merged |-> config]
           r == [call[c] EXCEPT !.pc = "store", !.now = clock, !.by = {}, !.ran = None,
                                !.result = res]
<1>1. call[c] \in CallType /\ CallOK(call[c]) /\ call[c].pc = "merge" /\ call[c].by = Detectors
  BY DEF Inv, Types, Merges, Usable
<1>2. call[c].text \in Texts /\ call[c].ran \in Configs /\ config \in Configs
  BY <1>1 DEF CallOK, InFlight, Inv, Types
<1>3. Complete(res, call[c].text)
  BY <1>1, <1>2 DEF Complete, Results
<1>4. Stands(res, call[c].born, call[c].config)
  BY <1>1 DEF Stands, CallOK, InFlight, Since
<1>5. r \in CallType
  BY <1>1, <1>3 DEF CallType, Complete, Inv, Types
<1>6. CallOK(r)
  <2>1. /\ r.pc = "store" /\ r.now = clock /\ r.text = call[c].text /\ r.result = res
        /\ r.config = call[c].config /\ r.born = call[c].born /\ r.hit = call[c].hit
    BY <1>1 DEF CallType
  <2>2. clock \in Nat
    BY DEF Inv, Types
  <2> HIDE DEF r, res
  <2> QED BY <1>1, <1>2, <1>3, <1>4, <2>1, <2>2 DEF CallOK, InFlight
<1>7. call' = [call EXCEPT ![c] = r] /\ UNCHANGED <<clock, config, changes, entries>>
  BY DEF Merges, Inv, Types
<1> HIDE DEF r
<1> QED BY <1>5, <1>6, <1>7, OnlyCallMoves

\* The entry a write makes, under the key of its call.
Written(c) == [stored |-> call[c].now, result |-> call[c].result,
               written |-> clock, born |-> call[c].born]
Kept(c) == Only(entries, Keys \ Swept(call[c].now))

LEMMA StoreEntries ==
    ASSUME Inv, NEW c \in Calls, Store(c)
    PROVE  /\ DOMAIN entries' \subseteq DOMAIN Kept(c) \cup {KeyOf(c)}
           /\ \A k \in DOMAIN entries' :
                entries'[k] = IF k = KeyOf(c) THEN Written(c) ELSE entries[k]
<1>1. PICK S : entries' = Only(With(Kept(c), KeyOf(c), Written(c)), S)
  BY DEF Store, StoreKey, Kept, Written
<1>2. /\ DOMAIN With(Kept(c), KeyOf(c), Written(c)) = DOMAIN Kept(c) \cup {KeyOf(c)}
      /\ \A k \in DOMAIN Kept(c) \cup {KeyOf(c)} :
           With(Kept(c), KeyOf(c), Written(c))[k]
             = IF k = KeyOf(c) THEN Written(c) ELSE Kept(c)[k]
  BY DEF With
<1>3. \A k \in DOMAIN Kept(c) : Kept(c)[k] = entries[k]
  BY DEF Kept, Only
<1> QED BY <1>1, <1>2, <1>3 DEF Only

LEMMA StoreInv ==
    ASSUME Inv, NEW c \in Calls, Store(c) PROVE Inv'
<1> DEFINE r == [call[c] EXCEPT !.pc = "done"]
<1>1. call[c] \in CallType /\ CallOK(call[c]) /\ call[c].pc = "store"
  BY DEF Inv, Types, Store
<1>2. r \in CallType
  BY <1>1 DEF CallType
<1>3. CallOK(r)
  BY <1>1 DEF CallOK, InFlight, CallType
<1>4. call' = [call EXCEPT ![c] = r] /\ UNCHANGED <<clock, config, changes>>
  BY DEF Store, Inv, Types
<1> HIDE DEF r
<1>5. call' \in [Calls -> CallType] /\ \A d \in Calls : CallOK(call[d])'
  BY <1>2, <1>3, <1>4, CallMoves
<1>6. KeyOf(c) \in Keys /\ KeyOf(c).text = call[c].text /\ KeyOf(c).config = call[c].config
  BY <1>1 DEF KeyOf, Keys, CallOK, InFlight
<1>7. Written(c) \in Entries
  <2>1. call[c].now \in Nat /\ call[c].born \in Nat /\ clock \in Nat /\ call[c].result \in Results
    BY <1>1 DEF CallType, CallOK, Complete, Inv, Types
  <2> QED BY <2>1 DEF Written, Entries
<1>8. ASSUME NEW k \in DOMAIN entries'
      PROVE  k \in Keys /\ entries'[k] \in Entries /\ EntryOK(k)'
  <2>1. CASE k = KeyOf(c)
    <3>1. entries'[k] = Written(c)
      BY <2>1, StoreEntries
    <3>2. clock \in Nat /\ call[c].now <= clock
      BY <1>1 DEF CallOK, Inv, Types
    <3>3. /\ Complete(Written(c).result, k.text)
          /\ Stands(Written(c).result, Written(c).born, k.config)
          /\ Since(Written(c).born, k.config)
      BY <1>1, <1>6, <2>1 DEF Written, CallOK, InFlight
    <3>4. Written(c).stored <= Written(c).written /\ Written(c).written <= clock
      BY <3>2 DEF Written
    <3> QED BY <1>4, <1>6, <1>7, <2>1, <3>1, <3>3, <3>4
            DEF EntryOK, Complete, Stands, Since
  <2>2. CASE k # KeyOf(c)
    <3>1. k \in DOMAIN entries /\ entries'[k] = entries[k]
      BY <2>2, StoreEntries DEF Kept, Only
    <3> QED BY <1>4, <3>1 DEF Inv, Types, EntryOK, Complete, Stands, Since
  <2> QED BY <2>1, <2>2
<1> QED BY <1>4, <1>5, <1>8 DEF Inv, Types

-----------------------------------------------------------------------------
(* Steps around the calls *)

LEMMA TickInv == Inv /\ Tick => Inv'
<1> SUFFICES ASSUME Inv, Tick PROVE Inv'
  OBVIOUS
<1>1. clock \in Nat /\ clock' = clock + 1 /\ UNCHANGED <<config, changes, entries, call>>
  BY DEF Tick, Inv, Types
<1>2. \A k \in DOMAIN entries' : EntryOK(k)'
  BY <1>1 DEF Inv, Types, EntryOK, Entries, Complete, Stands, Since
<1>3. ASSUME NEW c \in Calls PROVE CallOK(call[c])'
  <2>1. call[c].now \in Nat /\ CallOK(call[c])
    BY DEF Inv, Types, CallType
  <2> QED BY <1>1, <2>1 DEF CallOK, Complete, Stands, Since
<1> QED BY <1>1, <1>2, <1>3 DEF Inv, Types

\* After a change a key is out of date; after two it may be up to date again, with a
\* result that is not.
LEMMA ReconfigureInv == ASSUME Inv, NEW c \in Configs, Reconfigure(c) PROVE Inv'
<1>1. changes \in Nat /\ changes' = changes + 1 /\ config' # config /\ config' \in Configs
  BY DEF Reconfigure, Inv, Types
<1>2. UNCHANGED <<clock, entries, call>>
  BY DEF Reconfigure
<1>3. ASSUME NEW born \in Nat, NEW made, Since(born, made)
      PROVE  Since(born, made)' /\ changes' # born
  BY <1>1, <1>3 DEF Since
<1>4. ASSUME NEW k \in DOMAIN entries PROVE EntryOK(k)'
  <2>1. entries[k].born \in Nat /\ EntryOK(k)
    BY DEF Inv, Types, Entries
  <2>2. Since(entries[k].born, k.config)
    BY <2>1 DEF EntryOK
  <2>3. Since(entries[k].born, k.config)' /\ changes' # entries[k].born
    BY <1>1, <1>2, <2>1, <2>2 DEF Since
  <2> QED BY <1>2, <2>1, <2>3 DEF EntryOK, Complete, Stands
<1>5. ASSUME NEW d \in Calls PROVE CallOK(call[d])'
  <2>1. call[d].born \in Nat /\ CallOK(call[d])
    BY DEF Inv, Types, CallType
  <2>2. call[d].pc \in InFlight =>
          Since(call[d].born, call[d].config)' /\ changes' # call[d].born
    BY <1>1, <1>2, <2>1 DEF CallOK, Since
  <2> QED BY <1>2, <2>1, <2>2 DEF CallOK, InFlight, Complete, Stands
<1> QED BY <1>1, <1>2, <1>4, <1>5 DEF Inv, Types

LEMMA ShutdownInv == Inv /\ Shutdown => Inv'
<1> SUFFICES ASSUME Inv, Shutdown PROVE Inv'
  OBVIOUS
<1>1. UNCHANGED <<clock, config, changes, call>> /\ DOMAIN entries' = {}
  BY DEF Shutdown
<1> QED BY <1>1 DEF Inv, Types, CallOK, Complete, Stands, Since

LEMMA NextInv == Inv /\ [Next]_vars => Inv'
<1> SUFFICES ASSUME Inv, [Next]_vars PROVE Inv'
  OBVIOUS
<1>1. ASSUME NEW c \in Calls, \E t \in Texts : Begin(c, t) PROVE Inv'
  BY <1>1, BeginInv
<1>2. ASSUME NEW c \in Calls, \E by \in SUBSET Detectors : DetectorsAnswer(c, by) PROVE Inv'
  BY <1>2, DetectorsAnswerInv
<1>3. ASSUME NEW c \in Calls,
             Hit(c) \/ Miss(c) \/ Fails(c) \/ Merges(c) \/ Store(c) \/ Return(c)
      PROVE  Inv'
  BY <1>3, HitInv, MissInv, FailsInv, MergesInv, StoreInv, ReturnInv
<1>4. CASE UNCHANGED vars
  BY <1>4 DEF vars, Inv, Types, EntryOK, CallOK, Complete, Stands, Since
<1> QED BY <1>1, <1>2, <1>3, <1>4, TickInv, ReconfigureInv, ShutdownInv DEF Next

LEMMA Invariant == Spec => []Inv
  BY InitInv, NextInv, PTL DEF Spec

-----------------------------------------------------------------------------
(* The theorems *)

\* No answer, cached or not, lacks the findings of a detector or is about another
\* text, however calls interleave and detectors fail (AnswersComplete).
THEOREM AnswersAreComplete == Spec => []AnswersComplete
<1>1. Inv => AnswersComplete
  BY DEF Inv, CallOK, Complete, AnswersComplete, Answered
<1> QED BY <1>1, Invariant, PTL

\* Nothing is served longer than the time to live after it was written, however
\* often it is used (HitsInTime).
THEOREM NothingServedLate == Spec => []HitsInTime
<1>1. Inv => HitsInTime
  BY DEF Inv, CallOK, HitsInTime, Answered, WasHit
<1> QED BY <1>1, Invariant, PTL

\* Only the step of a hit serves.
LEMMA ServingIsHit ==
    ASSUME Inv, [Next]_vars, NEW c \in Calls, Serves(c) PROVE Hit(c)
<1>1. call[c].pc = "lookup" /\ call'[c].pc = "done"
  BY DEF Serves
<1>2. ASSUME NEW d \in Calls, NEW r, call' = [call EXCEPT ![d] = r], r.pc # "done" \/ d # c
      PROVE  FALSE
  BY <1>1, <1>2 DEF Inv, Types
<1>3. ASSUME NEW d \in Calls, NEW t \in Texts, Begin(d, t) PROVE FALSE
  <2>1. [Idle EXCEPT !.pc = "lookup", !.text = t, !.config = config,
                     !.now = clock, !.born = changes].pc # "done"
    BY DEF Idle
  <2> QED BY <1>2, <1>3, <2>1 DEF Begin
<1>4. ASSUME NEW d \in Calls, d # c \/ ~Hit(d),
             \/ Hit(d) \/ Miss(d) \/ Fails(d) \/ Merges(d) \/ Store(d) \/ Return(d)
             \/ \E by \in SUBSET Detectors : DetectorsAnswer(d, by)
      PROVE  FALSE
  <2>1. CASE d = c
    BY <1>1, <1>4, <2>1
    DEF Inv, Types, CallType, Miss, Fails, Merges, Store, Return, DetectorsAnswer
  <2>2. CASE d # c
    BY <1>1, <1>4, <2>2
    DEF Inv, Types, Hit, Miss, Fails, Merges, Store, Return, DetectorsAnswer
  <2> QED BY <2>1, <2>2
<1>5. UNCHANGED call => FALSE
  BY <1>1
<1> QED BY <1>3, <1>4, <1>5 DEF Next, vars, Tick, Reconfigure, Shutdown

\* What a hit serves under the live configuration is what a fresh detection would
\* find, unless the configuration changed away and back since (HitsFresh).
THEOREM HitsAreFresh == Spec => HitsFresh
<1>1. ASSUME Inv, [Next]_vars, NEW c \in Calls, Serves(c), UpToDate(c)
      PROVE  \/ call'[c].result = Fresh(call[c].text, config)
             \/ changes - call'[c].hit.born >= 2
  <2> DEFINE k == KeyOf(c)
             e == entries[k]
  <2>1. Hit(c)
    BY <1>1, ServingIsHit
  <2>2. k \in DOMAIN entries /\ call'[c].result = e.result /\ call'[c].hit = e
    BY <1>1, <2>1 DEF Hit, Inv, Types, CallType
  <2>3. e \in Entries /\ EntryOK(k) /\ k.text = call[c].text /\ k.config = config
    BY <1>1, <2>2 DEF Inv, Types, KeyOf, UpToDate
  <2>4. Since(e.born, config) /\ e.born \in Nat /\ changes \in Nat
    BY <1>1, <2>3 DEF EntryOK, Entries, Inv, Types
  <2>5. changes = e.born \/ changes - e.born >= 2
    BY <2>4 DEF Since
  <2>6. CASE changes = e.born
    <3>1. /\ e.result \in Results /\ e.result.by = Detectors /\ e.result.text = call[c].text
          /\ e.result.ran = config /\ e.result.merged = config
      BY <2>3, <2>6 DEF EntryOK, Complete, Stands
    <3>2. e.result = Fresh(call[c].text, config)
      BY <3>1 DEF Results, Fresh
    <3> QED BY <2>2, <3>2
  <2> QED BY <2>2, <2>5, <2>6
<1>2. Inv /\ [Next]_vars =>
        [\A c \in Calls : Serves(c) /\ UpToDate(c) =>
           \/ call'[c].result = Fresh(call[c].text, config)
           \/ changes - call'[c].hit.born >= 2]_vars
  BY <1>1
<1> QED BY <1>2, Invariant, PTL DEF Spec, HitsFresh

\* Only the step of a write writes.
LEMMA WritingIsStore ==
    ASSUME Inv, [Next]_vars, NEW c \in Calls, Writes(c) PROVE Store(c)
<1>1. call[c].pc = "store" /\ call'[c].pc = "done"
  BY DEF Writes
<1>2. ASSUME NEW d \in Calls, NEW t \in Texts, Begin(d, t) PROVE FALSE
  BY <1>1, <1>2 DEF Begin, Inv, Types, Idle
<1>3. ASSUME NEW d \in Calls, d # c \/ ~Store(d),
             \/ Hit(d) \/ Miss(d) \/ Fails(d) \/ Merges(d) \/ Store(d) \/ Return(d)
             \/ \E by \in SUBSET Detectors : DetectorsAnswer(d, by)
      PROVE  FALSE
  <2>1. CASE d = c
    BY <1>1, <1>3, <2>1
    DEF Inv, Types, CallType, Hit, Miss, Fails, Merges, Return, DetectorsAnswer
  <2>2. CASE d # c
    BY <1>1, <1>3, <2>2
    DEF Inv, Types, Hit, Miss, Fails, Merges, Store, Return, DetectorsAnswer
  <2> QED BY <2>1, <2>2
<1>4. UNCHANGED call => FALSE
  BY <1>1
<1> QED BY <1>2, <1>3, <1>4 DEF Next, vars, Tick, Reconfigure, Shutdown

\* No write leaves an entry behind that had expired when it began, wherever the
\* order of use puts it (WritesSweep).
THEOREM WritesLeaveNoneExpired == Spec => WritesSweep
<1>1. ASSUME Inv, [Next]_vars, NEW c \in Calls, Writes(c), NEW k \in DOMAIN entries'
      PROVE  call[c].now - entries'[k].stored <= TTL
  <2>1. Store(c)
    BY <1>1, WritingIsStore
  <2>2. call[c].now \in Nat /\ TTL \in Nat
    BY <1>1, ConstantsOK DEF Inv, Types, CallType
  <2>3. CASE k = KeyOf(c)
    <3>1. entries'[k].stored = call[c].now
      BY <1>1, <2>1, <2>3, StoreEntries DEF Written
    <3> QED BY <2>2, <3>1
  <2>4. CASE k # KeyOf(c)
    <3>1. k \in DOMAIN Kept(c) /\ entries'[k] = entries[k]
      BY <1>1, <2>1, <2>4, StoreEntries
    <3>2. k \in DOMAIN entries /\ ~Expired(k, call[c].now)
      BY <3>1 DEF Kept, Only, Swept
    <3>3. entries[k].stored \in Nat
      BY <1>1, <3>2 DEF Inv, Types, Entries
    <3> QED BY <2>2, <3>1, <3>2, <3>3 DEF Expired
  <2> QED BY <2>3, <2>4
<1>2. Inv /\ [Next]_vars =>
        [\A c \in Calls : Writes(c) =>
           \A k \in DOMAIN entries' : call[c].now - entries'[k].stored <= TTL]_vars
  BY <1>1
<1> QED BY <1>2, Invariant, PTL DEF Spec, WritesSweep

-----------------------------------------------------------------------------
(* The order of the entries *)

\* A nonempty set of naturals has a least element.
LEMMA Smallest ==
    ASSUME NEW S \in SUBSET Nat, S # {}
    PROVE  \E n \in S : \A m \in S : n <= m
<1> DEFINE R == OpToRel(<, Nat)
<1>1. IsWellFoundedOn(R, Nat)
  BY NatLessThanWellFounded
<1>2. PICK n \in S : \A m \in S : ~ (<<m, n>> \in R)
  <2> HIDE DEF R
  <2> QED BY <1>1, WFMin
<1>3. ASSUME NEW m \in S PROVE n <= m
  <2>1. ~ (<<m, n>> \in R)
    BY <1>2
  <2> QED BY <2>1 DEF OpToRel
<1> QED BY <1>3

\* The key x comes before the key y.
Before(q, x, y) == \E m, n \in DOMAIN q : q[m] = x /\ q[n] = y /\ m < n
Distinct(q) == \A i, j \in DOMAIN q : q[i] = q[j] => i = j
KeysOf(q) == {q[i] : i \in DOMAIN q}

\* r is what the first n keys of q leave when only those of ks stay.
Leaves(q, ks, n, r) ==
    /\ r \in Seq(Keys) /\ Len(r) <= n
    /\ KeysOf(r) = {q[i] : i \in 1..n} \cap ks
    /\ Distinct(r)
    /\ \A a, b \in DOMAIN r : a < b => \E l, m \in 1..n : q[l] = r[a] /\ q[m] = r[b] /\ l < m
    /\ \A l, m \in 1..n : q[l] \in ks /\ q[m] \in ks /\ l < m => Before(r, q[l], q[m])

LEMMA LeavesNone ==
    ASSUME NEW q \in Seq(Keys), NEW ks PROVE Leaves(q, ks, 0, <<>>)
BY DEF Leaves, KeysOf, Distinct, Before

LEMMA LeavesNext ==
    ASSUME NEW q \in Seq(Keys), Distinct(q), NEW ks, NEW n \in 1..Len(q), NEW r,
           Leaves(q, ks, n - 1, r)
    PROVE  Leaves(q, ks, n, IF q[n] \in ks THEN Append(r, q[n]) ELSE r)
<1>0. n \in Nat /\ n - 1 \in Nat /\ 1 <= n /\ 1..n = 1..(n - 1) \cup {n} /\ q[n] \in Keys
  OBVIOUS
<1>1. /\ r \in Seq(Keys) /\ Len(r) <= n - 1
      /\ KeysOf(r) = {q[i] : i \in 1..(n - 1)} \cap ks
      /\ Distinct(r)
      /\ \A a, b \in DOMAIN r :
            a < b => \E l, m \in 1..(n - 1) : q[l] = r[a] /\ q[m] = r[b] /\ l < m
      /\ \A l, m \in 1..(n - 1) :
            q[l] \in ks /\ q[m] \in ks /\ l < m => Before(r, q[l], q[m])
  BY DEF Leaves
<1>2. CASE q[n] \notin ks
  <2>1. {q[i] : i \in 1..n} \cap ks = {q[i] : i \in 1..(n - 1)} \cap ks
    BY <1>0, <1>2
  <2>2. \A l, m \in 1..n : q[l] \in ks /\ q[m] \in ks => l \in 1..(n - 1) /\ m \in 1..(n - 1)
    BY <1>0, <1>2
  <2>3. Len(r) <= n
    BY <1>0, <1>1
  <2>4. Leaves(q, ks, n, r)
    BY <1>0, <1>1, <2>1, <2>2, <2>3 DEF Leaves
  <2> QED BY <1>2, <2>4
<1>3. CASE q[n] \in ks
  <2> DEFINE s == Append(r, q[n])
             e == Len(r) + 1
  <2>1. /\ s \in Seq(Keys) /\ Len(s) = e /\ DOMAIN s = DOMAIN r \cup {e} /\ s[e] = q[n]
        /\ \A i \in DOMAIN r : s[i] = r[i] /\ i \in Nat /\ i < e
    BY <1>0, <1>1
  <2>2. q[n] \notin KeysOf(r)
    <3>1. ASSUME NEW i \in 1..(n - 1) PROVE q[i] # q[n]
      BY <1>0 DEF Distinct
    <3> QED BY <1>1, <3>1
  <2>3. e \in Nat /\ e <= n
    BY <1>0, <1>1
  <2> HIDE DEF s, e
  <2>4. KeysOf(s) = KeysOf(r) \cup {q[n]}
    BY <2>1 DEF KeysOf
  <2>5. KeysOf(s) = {q[i] : i \in 1..n} \cap ks
    BY <1>0, <1>1, <1>3, <2>4
  <2>6. Distinct(s)
    BY <1>1, <2>1, <2>2 DEF Distinct, KeysOf
  <2>7. ASSUME NEW a \in DOMAIN s, NEW b \in DOMAIN s, a < b
        PROVE  \E l, m \in 1..n : q[l] = s[a] /\ q[m] = s[b] /\ l < m
    <3>1. a \in DOMAIN r
      <4>1. a = e => b \in Nat /\ b <= e
        BY <2>1, <2>3
      <4> QED BY <2>1, <2>3, <2>7, <4>1
    <3>2. CASE b \in DOMAIN r
      <4>1. PICK l, m \in 1..(n - 1) : q[l] = r[a] /\ q[m] = r[b] /\ l < m
        BY <1>1, <2>7, <3>1, <3>2
      <4> QED BY <1>0, <2>1, <3>1, <3>2, <4>1
    <3>3. CASE b = e
      <4>1. r[a] \in KeysOf(r)
        BY <3>1 DEF KeysOf
      <4>2. PICK l \in 1..(n - 1) : q[l] = r[a]
        BY <1>1, <4>1
      <4> QED BY <1>0, <2>1, <3>1, <3>3, <4>2
    <3> QED BY <2>1, <3>2, <3>3
  <2>8. ASSUME NEW l \in 1..n, NEW m \in 1..n, q[l] \in ks, q[m] \in ks, l < m
        PROVE  Before(s, q[l], q[m])
    <3>1. l \in 1..(n - 1)
      BY <1>0, <2>8
    <3>2. CASE m \in 1..(n - 1)
      <4>1. Before(r, q[l], q[m])
        BY <1>1, <2>8, <3>1, <3>2
      <4> QED BY <2>1, <4>1 DEF Before
    <3>3. CASE m = n
      <4>1. q[l] \in KeysOf(r)
        BY <1>1, <2>8, <3>1
      <4>2. PICK i \in DOMAIN r : r[i] = q[l]
        BY <4>1 DEF KeysOf
      <4> QED BY <2>1, <3>3, <4>2 DEF Before
    <3> QED BY <1>0, <3>2, <3>3
  <2>9. Leaves(q, ks, n, s)
    BY <2>1, <2>3, <2>5, <2>6, <2>7, <2>8 DEF Leaves
  <2> QED BY <1>3, <2>9 DEF s
<1> QED BY <1>2, <1>3

\* The order after each key solves the recursion of OnlyIn.
LEMMA OnlyInRuns ==
    ASSUME NEW q \in Seq(Keys), NEW ks
    PROVE  \E f : /\ \A n \in 0..Len(q) :
                        f[n] = IF n = 0 THEN <<>>
                               ELSE IF q[n] \in ks THEN Append(f[n - 1], q[n]) ELSE f[n - 1]
                 /\ OnlyIn(q, ks) = f[Len(q)]
<1> DEFINE N == Len(q)
           Turn(f, n) == IF n = 0 THEN <<>>
                         ELSE IF q[n] \in ks THEN Append(f[n - 1], q[n]) ELSE f[n - 1]
           Solves(f, n) == f = [i \in 0..n |-> Turn(f, i)]
           Bad == {n \in 0..N : ~ \E f : Solves(f, n)}
           upTo == CHOOSE f : Solves(f, N)
<1>0. N \in Nat
  OBVIOUS
<1>1. Bad = {}
  <2> SUFFICES ASSUME Bad # {} PROVE FALSE
    OBVIOUS
  <2>1. PICK n \in Bad : \A m \in Bad : n <= m
    <3>1. Bad \in SUBSET Nat
      OBVIOUS
    <3> HIDE DEF Bad
    <3> QED BY <3>1, Smallest
  <2>2. n \in 0..N /\ n \in Nat /\ ~ \E f : Solves(f, n)
    OBVIOUS
  <2>3. n # 0
    <3>1. Solves([i \in 0..0 |-> <<>>], 0)
      OBVIOUS
    <3> QED BY <2>2, <3>1
  <2>4. n - 1 \in 0..N /\ n - 1 \notin Bad /\ n \in 1..N
    <3> HIDE DEF Bad
    <3> QED BY <1>0, <2>1, <2>2, <2>3
  <2>5. PICK g : Solves(g, n - 1)
    BY <2>4
  <2> DEFINE f == [i \in 0..n |-> IF i = n THEN Turn(g, n) ELSE g[i]]
  <2>6. \A i \in 0..(n - 1) : i \in 0..n /\ i # n /\ f[i] = g[i]
    BY <2>4
  <2>7. f[n] = Turn(g, n) /\ f[n - 1] = g[n - 1]
    BY <2>4
  <2>8. ASSUME NEW i \in 0..n PROVE f[i] = Turn(f, i)
    <3>1. CASE i = n
      BY <2>4, <2>7, <3>1
    <3>2. CASE i # n
      <4>1. i \in 0..(n - 1) /\ (i # 0 => i - 1 \in 0..(n - 1))
        BY <2>4, <3>2
      <4>2. g[i] = Turn(g, i)
        BY <2>5, <4>1
      <4>3. Turn(g, i) = Turn(f, i)
        BY <2>6, <4>1
      <4> QED BY <2>6, <4>1, <4>2, <4>3
    <3> QED BY <3>1, <3>2
  <2>9. Solves(f, n)
    BY <2>8
  <2> QED BY <2>2, <2>9
<1>2. \E f : Solves(f, N)
  <2>1. N \in 0..N
    BY <1>0
  <2>2. N \notin Bad
    <3> HIDE DEF Bad
    <3> QED BY <1>1
  <2> QED BY <2>1, <2>2
<1>3. Solves(upTo, N)
  BY <1>2
<1>4. OnlyIn(q, ks) = upTo[N]
  BY DEF OnlyIn
<1>5. \A n \in 0..N : upTo[n] = Turn(upTo, n)
  <2> HIDE DEF upTo
  <2> QED BY <1>3
<1> QED BY <1>4, <1>5

\* OnlyIn keeps the keys of ks and their order, and nothing else.
LEMMA OnlyInLeaves ==
    ASSUME NEW q \in Seq(Keys), Distinct(q), NEW ks
    PROVE  Leaves(q, ks, Len(q), OnlyIn(q, ks))
<1>1. PICK f : /\ \A n \in 0..Len(q) :
                     f[n] = IF n = 0 THEN <<>>
                            ELSE IF q[n] \in ks THEN Append(f[n - 1], q[n]) ELSE f[n - 1]
               /\ OnlyIn(q, ks) = f[Len(q)]
  BY OnlyInRuns
<1> DEFINE Bad == {n \in 0..Len(q) : ~ Leaves(q, ks, n, f[n])}
<1>2. Bad = {}
  <2> SUFFICES ASSUME Bad # {} PROVE FALSE
    OBVIOUS
  <2>1. PICK n \in Bad : \A m \in Bad : n <= m
    <3>1. Bad \in SUBSET Nat
      OBVIOUS
    <3> HIDE DEF Bad
    <3> QED BY <3>1, Smallest
  <2>2. n \in 0..Len(q) /\ n \in Nat /\ ~ Leaves(q, ks, n, f[n])
    OBVIOUS
  <2>3. n # 0
    BY <1>1, <2>2, LeavesNone
  <2>4. n - 1 \in 0..Len(q) /\ n - 1 \notin Bad /\ n \in 1..Len(q)
    <3> HIDE DEF Bad
    <3> QED BY <2>1, <2>2, <2>3
  <2>5. Leaves(q, ks, n - 1, f[n - 1])
    BY <2>4
  <2>6. f[n] = IF q[n] \in ks THEN Append(f[n - 1], q[n]) ELSE f[n - 1]
    BY <1>1, <2>3, <2>2
  <2> QED BY <2>2, <2>4, <2>5, <2>6, LeavesNext
<1> QED BY <1>1, <1>2

\* What the lemmas below need of an order with some keys taken out.
LEMMA OnlyInIs ==
    ASSUME NEW q \in Seq(Keys), Distinct(q), NEW ks
    PROVE  /\ OnlyIn(q, ks) \in Seq(Keys) /\ Distinct(OnlyIn(q, ks))
           /\ Len(OnlyIn(q, ks)) <= Len(q)
           /\ KeysOf(OnlyIn(q, ks)) = KeysOf(q) \cap ks
           /\ \A x, y \in ks : Before(OnlyIn(q, ks), x, y) <=> Before(q, x, y)
<1> DEFINE r == OnlyIn(q, ks)
           N == Len(q)
<1>0. N \in Nat /\ DOMAIN q = 1..N
  OBVIOUS
<1>1. Leaves(q, ks, N, r)
  BY OnlyInLeaves
<1> HIDE DEF r, N
<1>2. KeysOf(r) = KeysOf(q) \cap ks
  BY <1>0, <1>1 DEF Leaves, KeysOf
<1>3. ASSUME NEW x \in ks, NEW y \in ks, Before(r, x, y) PROVE Before(q, x, y)
  <2>1. PICK a, b \in DOMAIN r : r[a] = x /\ r[b] = y /\ a < b
    BY <1>3 DEF Before
  <2>2. PICK l, m \in 1..N : q[l] = r[a] /\ q[m] = r[b] /\ l < m
    BY <1>1, <2>1 DEF Leaves
  <2> QED BY <1>0, <2>1, <2>2 DEF Before
<1>4. ASSUME NEW x \in ks, NEW y \in ks, Before(q, x, y) PROVE Before(r, x, y)
  <2>1. PICK l, m \in 1..N : q[l] = x /\ q[m] = y /\ l < m
    BY <1>0, <1>4 DEF Before
  <2> QED BY <1>1, <2>1 DEF Leaves
<1>5. r \in Seq(Keys) /\ Distinct(r) /\ Len(r) <= N
  BY <1>1 DEF Leaves
<1> QED BY <1>2, <1>3, <1>4, <1>5 DEF r, N

\* A key moved to the end comes after every other, and these keep their order.
LEMMA MoveToEndIs ==
    ASSUME NEW q \in Seq(Keys), Distinct(q), NEW k \in Keys
    PROVE  /\ MoveToEnd(q, k) \in Seq(Keys) /\ Distinct(MoveToEnd(q, k))
           /\ MoveToEnd(q, k)[Len(MoveToEnd(q, k))] = k
           /\ Len(MoveToEnd(q, k)) \in 1..Len(q) + 1
           /\ KeysOf(MoveToEnd(q, k)) = KeysOf(q) \cup {k}
           /\ \A x \in KeysOf(q) \ {k} : Before(MoveToEnd(q, k), x, k)
           /\ \A x, y \in Keys : Before(MoveToEnd(q, k), x, y) =>
                  x \in KeysOf(q) \ {k} /\ (y = k \/ Before(q, x, y))
           /\ \A x, y \in Keys \ {k} : Before(q, x, y) => Before(MoveToEnd(q, k), x, y)
<1> DEFINE r == OnlyIn(q, Keys \ {k})
           s == MoveToEnd(q, k)
           e == Len(r) + 1
<1>1. /\ r \in Seq(Keys) /\ Distinct(r) /\ Len(r) <= Len(q)
      /\ KeysOf(r) = KeysOf(q) \cap (Keys \ {k})
      /\ \A x, y \in Keys \ {k} : Before(r, x, y) <=> Before(q, x, y)
  BY OnlyInIs
<1>2. s = Append(r, k)
  BY DEF MoveToEnd
<1>3. KeysOf(q) \subseteq Keys
  BY DEF KeysOf
<1>4. KeysOf(r) = KeysOf(q) \ {k}
  BY <1>1, <1>3
<1> HIDE DEF r, s
<1>5. /\ s \in Seq(Keys) /\ Len(s) = e /\ DOMAIN s = DOMAIN r \cup {e} /\ s[e] = k
      /\ \A i \in DOMAIN r : s[i] = r[i] /\ i \in Nat /\ i < e
      /\ e \in Nat /\ e \in 1..Len(q) + 1
  BY <1>1, <1>2
<1> HIDE DEF e
<1>6. KeysOf(s) = KeysOf(q) \cup {k}
  <2>1. KeysOf(s) = KeysOf(r) \cup {k}
    BY <1>5 DEF KeysOf
  <2> QED BY <1>4, <2>1
<1>7. Distinct(s)
  <2>1. \A i \in DOMAIN r : r[i] # k
    BY <1>4 DEF KeysOf
  <2> QED BY <1>1, <1>5, <2>1 DEF Distinct
<1>8. ASSUME NEW x \in KeysOf(q) \ {k} PROVE Before(s, x, k)
  <2>1. PICK i \in DOMAIN r : r[i] = x
    BY <1>4 DEF KeysOf
  <2> QED BY <1>5, <2>1 DEF Before
<1>9. ASSUME NEW x \in Keys, NEW y \in Keys, Before(s, x, y)
      PROVE  x \in KeysOf(q) \ {k} /\ (y = k \/ Before(q, x, y))
  <2>1. PICK i, j \in DOMAIN s : s[i] = x /\ s[j] = y /\ i < j
    BY <1>9 DEF Before
  <2>2. i \in DOMAIN r
    <3>1. j \in Nat /\ j <= e
      BY <1>5
    <3>2. i # e
      BY <1>5, <2>1, <3>1
    <3> QED BY <1>5, <3>2
  <2>3. x \in KeysOf(r)
    BY <1>5, <2>1, <2>2 DEF KeysOf
  <2>4. CASE j \in DOMAIN r
    <3>1. Before(r, x, y) /\ y \in KeysOf(r)
      BY <1>5, <2>1, <2>2, <2>4 DEF Before, KeysOf
    <3>2. x \in Keys \ {k} /\ y \in Keys \ {k}
      BY <1>4, <2>3, <3>1
    <3> QED BY <1>1, <1>4, <2>3, <3>1, <3>2
  <2>5. CASE j = e
    BY <1>4, <1>5, <2>1, <2>3, <2>5
  <2> QED BY <1>5, <2>4, <2>5
<1>10. ASSUME NEW x \in Keys \ {k}, NEW y \in Keys \ {k}, Before(q, x, y)
       PROVE  Before(s, x, y)
  <2>1. Before(r, x, y)
    BY <1>1, <1>10
  <2> QED BY <1>5, <2>1 DEF Before
<1>11. s[Len(s)] = k /\ Len(s) \in 1..Len(q) + 1 /\ s \in Seq(Keys)
  BY <1>5
<1> QED BY <1>6, <1>7, <1>8, <1>9, <1>10, <1>11 DEF s

\* What is evicted came before all that stays, and the end of the order stays.
LEMMA EvictIs ==
    ASSUME NEW q \in Seq(Keys), Distinct(q), Len(q) >= 1
    PROVE  /\ Evict(q) \in Seq(Keys) /\ Distinct(Evict(q)) /\ Len(Evict(q)) <= MaxEntries
           /\ q[Len(q)] \in KeysOf(Evict(q))
           /\ KeysOf(Evict(q)) \subseteq KeysOf(q)
           /\ \A x, y : Before(Evict(q), x, y) => Before(q, x, y)
           /\ \A x \in KeysOf(q) \ KeysOf(Evict(q)), y \in KeysOf(Evict(q)) : Before(q, x, y)
<1>0. MaxEntries \in Nat /\ MaxEntries >= 1 /\ Len(q) \in Nat /\ DOMAIN q = 1..Len(q)
  BY ConstantsOK
<1>1. CASE Len(q) <= MaxEntries
  <2>1. Evict(q) = q
    BY <1>0, <1>1 DEF Evict
  <2>2. q[Len(q)] \in KeysOf(q)
    BY <1>0 DEF KeysOf
  <2> QED BY <1>1, <2>1, <2>2
<1>2. CASE Len(q) > MaxEntries
  <2> DEFINE r == Evict(q)
             d == Len(q) - MaxEntries
  <2>1. d \in Nat /\ d + MaxEntries = Len(q)
    BY <1>0, <1>2
  <2>2. /\ r \in Seq(Keys) /\ Len(r) = MaxEntries
        /\ \A i \in 1..MaxEntries : r[i] = q[i + d]
    <3>1. r = SubSeq(q, d + 1, Len(q))
      BY <1>2 DEF Evict
    <3>2. \A i \in d + 1..Len(q) : q[i] \in Keys
      BY <1>0, <2>1
    <3>3. Len(q) - (d + 1) + 1 = MaxEntries
      BY <1>0, <2>1
    <3>4. r = [i \in 1..MaxEntries |-> q[i + d]]
      BY <1>0, <2>1, <3>1, <3>3
    <3>5. \A i \in 1..MaxEntries : i + d \in d + 1..Len(q)
      BY <1>0, <2>1
    <3> HIDE DEF r, d
    <3> QED BY <1>0, <3>2, <3>4, <3>5
  <2> HIDE DEF r, d
  <2>3. DOMAIN r = 1..MaxEntries /\ \A i \in 1..MaxEntries : i + d \in DOMAIN q
    BY <1>0, <2>1, <2>2
  <2>4. Distinct(r)
    <3> SUFFICES ASSUME NEW i \in 1..MaxEntries, NEW j \in 1..MaxEntries, r[i] = r[j]
                 PROVE  i = j
      BY <2>3 DEF Distinct
    <3>1. i + d = j + d
      BY <2>2, <2>3 DEF Distinct
    <3> QED BY <1>0, <2>1, <3>1
  <2>5. q[Len(q)] \in KeysOf(r)
    <3>1. MaxEntries \in DOMAIN r /\ r[MaxEntries] = q[Len(q)]
      BY <1>0, <2>1, <2>2, <2>3
    <3> QED BY <3>1 DEF KeysOf
  <2>6. KeysOf(r) \subseteq KeysOf(q)
    BY <2>2, <2>3 DEF KeysOf
  <2>7. ASSUME NEW x, NEW y, Before(r, x, y) PROVE Before(q, x, y)
    <3>1. PICK i, j \in 1..MaxEntries : r[i] = x /\ r[j] = y /\ i < j
      BY <2>3, <2>7 DEF Before
    <3>2. i + d < j + d
      BY <1>0, <2>1, <3>1
    <3> QED BY <2>2, <2>3, <3>1, <3>2 DEF Before
  <2>8. ASSUME NEW x \in KeysOf(q) \ KeysOf(r), NEW y \in KeysOf(r) PROVE Before(q, x, y)
    <3>1. PICK i \in 1..Len(q) : q[i] = x
      BY <1>0 DEF KeysOf
    <3>2. PICK j \in 1..MaxEntries : r[j] = y
      BY <2>3 DEF KeysOf
    <3>3. i < j + d
      <4> SUFFICES ASSUME i >= j + d PROVE FALSE
        BY <1>0, <2>1
      <4>1. i - d \in 1..MaxEntries /\ (i - d) + d = i
        BY <1>0, <2>1
      <4>2. r[i - d] = x
        BY <2>2, <3>1, <4>1
      <4> QED BY <2>3, <4>1, <4>2 DEF KeysOf
    <3> QED BY <1>0, <2>2, <2>3, <3>1, <3>2, <3>3 DEF Before
  <2>9. Len(r) <= MaxEntries
    BY <1>0, <2>2
  <2> QED BY <2>2, <2>4, <2>5, <2>6, <2>7, <2>8, <2>9 DEF r
<1> QED BY <1>0, <1>1, <1>2

\* The order lists the entries, each once, as they were last used.
InOrder ==
    /\ order \in Seq(Keys) /\ Distinct(order)
    /\ recent \in Seq(Keys) /\ Distinct(recent)
    /\ KeysOf(order) = DOMAIN entries
    /\ KeysOf(order) \subseteq KeysOf(recent)
    /\ \A x, y \in Keys : Before(order, x, y) => Before(recent, x, y)

LEMMA InitInOrder == Init => InOrder
BY DEF Init, InOrder, Distinct, KeysOf, Before

\* A call that is under way has a key.
LEMMA HasKey ==
    ASSUME Inv, NEW c \in Calls, call[c].pc \in InFlight PROVE KeyOf(c) \in Keys
BY DEF Inv, CallOK, KeyOf, Keys

\* An order stays in step with the use of keys when the same key is put last in both.
LEMMA UsedLast ==
    ASSUME NEW q \in Seq(Keys), Distinct(q), NEW h \in Seq(Keys), Distinct(h),
           NEW k \in Keys, KeysOf(q) \subseteq KeysOf(h),
           \A x, y \in Keys : Before(q, x, y) => Before(h, x, y)
    PROVE  /\ KeysOf(MoveToEnd(q, k)) \subseteq KeysOf(MoveToEnd(h, k))
           /\ \A x, y \in Keys :
                 Before(MoveToEnd(q, k), x, y) => Before(MoveToEnd(h, k), x, y)
<1>1. /\ KeysOf(MoveToEnd(q, k)) = KeysOf(q) \cup {k}
      /\ \A x, y \in Keys : Before(MoveToEnd(q, k), x, y) =>
           x \in KeysOf(q) \ {k} /\ (y = k \/ Before(q, x, y))
  BY MoveToEndIs
<1>2. /\ KeysOf(MoveToEnd(h, k)) = KeysOf(h) \cup {k}
      /\ \A x \in KeysOf(h) \ {k} : Before(MoveToEnd(h, k), x, k)
      /\ \A x, y \in Keys \ {k} : Before(h, x, y) => Before(MoveToEnd(h, k), x, y)
  BY MoveToEndIs
<1>3. ASSUME NEW x \in Keys, NEW y \in Keys, Before(MoveToEnd(q, k), x, y)
      PROVE  Before(MoveToEnd(h, k), x, y)
  <2>1. x \in KeysOf(q) \ {k} /\ (y = k \/ Before(q, x, y))
    BY <1>1, <1>3
  <2>2. CASE y = k
    BY <1>2, <2>1, <2>2
  <2>3. CASE y # k
    BY <1>2, <2>1, <2>3
  <2> QED BY <2>2, <2>3
<1> QED BY <1>1, <1>2, <1>3

LEMMA HitInOrder ==
    ASSUME Inv, InOrder, NEW c \in Calls, Hit(c) PROVE InOrder'
<1> DEFINE k == KeyOf(c)
<1>1. k \in Keys /\ k \in DOMAIN entries
  BY HasKey DEF Hit, InFlight
<1>2. order' = MoveToEnd(order, k) /\ recent' = MoveToEnd(recent, k)
  BY DEF Hit
<1>3. DOMAIN entries' = DOMAIN entries
  BY DEF Hit
<1> HIDE DEF k
<1>4. /\ order' \in Seq(Keys) /\ Distinct(order') /\ KeysOf(order') = KeysOf(order) \cup {k}
  BY <1>1, <1>2, MoveToEndIs DEF InOrder
<1>5. recent' \in Seq(Keys) /\ Distinct(recent')
  BY <1>1, <1>2, MoveToEndIs DEF InOrder
<1>6. KeysOf(order') = DOMAIN entries'
  BY <1>1, <1>3, <1>4 DEF InOrder
<1>7. /\ KeysOf(order') \subseteq KeysOf(recent')
      /\ \A x, y \in Keys : Before(order', x, y) => Before(recent', x, y)
  BY <1>1, <1>2, UsedLast DEF InOrder
<1> QED BY <1>4, <1>5, <1>6, <1>7 DEF InOrder, Distinct, KeysOf, Before

LEMMA MissInOrder ==
    ASSUME Inv, InOrder, NEW c \in Calls, Miss(c) PROVE InOrder'
<1> DEFINE ks == Keys \ {KeyOf(c)}
<1>1. order' = OnlyIn(order, ks) /\ DOMAIN entries' = DOMAIN entries \cap ks /\ recent' = recent
  BY DEF Miss, Only
<1> HIDE DEF ks
<1>2. /\ order' \in Seq(Keys) /\ Distinct(order') /\ KeysOf(order') = KeysOf(order) \cap ks
      /\ \A x, y \in ks : Before(order', x, y) <=> Before(order, x, y)
  BY <1>1, OnlyInIs DEF InOrder
<1>3. ASSUME NEW x \in Keys, NEW y \in Keys, Before(order', x, y)
      PROVE  Before(recent', x, y)
  <2>1. x \in KeysOf(order') /\ y \in KeysOf(order')
    BY <1>3 DEF Before, KeysOf
  <2> QED BY <1>1, <1>2, <1>3, <2>1 DEF InOrder
<1>4. KeysOf(order') = DOMAIN entries' /\ KeysOf(order') \subseteq KeysOf(recent')
  BY <1>1, <1>2 DEF InOrder
<1>5. recent' \in Seq(Keys) /\ Distinct(recent')
  BY <1>1 DEF InOrder
<1> QED BY <1>2, <1>3, <1>4, <1>5 DEF InOrder, Distinct, KeysOf, Before

\* What a write does to the order: it drops what has expired, puts its own key last
\* and evicts from the front.
LEMMA StoreOrder ==
    ASSUME Inv, InOrder, NEW c \in Calls, Store(c),
           NEW q0, q0 = OnlyIn(order, DOMAIN Kept(c)),
           NEW q1, q1 = MoveToEnd(q0, KeyOf(c))
    PROVE  /\ KeyOf(c) \in Keys
           /\ q0 \in Seq(Keys) /\ Distinct(q0) /\ KeysOf(q0) = DOMAIN Kept(c)
           /\ \A x, y \in Keys : Before(q0, x, y) => Before(order, x, y)
           /\ q1 \in Seq(Keys) /\ Distinct(q1) /\ Len(q1) >= 1
           /\ q1[Len(q1)] = KeyOf(c) /\ KeysOf(q1) = DOMAIN Kept(c) \cup {KeyOf(c)}
           /\ order' = Evict(q1) /\ DOMAIN entries' = KeysOf(order')
           /\ recent' = MoveToEnd(recent, KeyOf(c))
<1> DEFINE k == KeyOf(c)
<1>1. k \in Keys
  BY HasKey DEF Store, InFlight
<1>2. DOMAIN Kept(c) = DOMAIN entries \cap (Keys \ Swept(call[c].now))
  BY DEF Kept, Only
<1>3. /\ order' = Evict(q1) /\ recent' = MoveToEnd(recent, k)
      /\ DOMAIN entries' = (DOMAIN Kept(c) \cup {k}) \cap KeysOf(order')
  BY DEF Store, StoreKey, Kept, Only, With, KeysOf
<1> HIDE DEF k
<1>4. /\ q0 \in Seq(Keys) /\ Distinct(q0) /\ KeysOf(q0) = KeysOf(order) \cap DOMAIN Kept(c)
      /\ \A x, y \in DOMAIN Kept(c) : Before(q0, x, y) <=> Before(order, x, y)
  BY OnlyInIs DEF InOrder
<1>5. KeysOf(q0) = DOMAIN Kept(c)
  BY <1>2, <1>4 DEF InOrder
<1>6. ASSUME NEW x \in Keys, NEW y \in Keys, Before(q0, x, y) PROVE Before(order, x, y)
  <2>1. x \in KeysOf(q0) /\ y \in KeysOf(q0)
    BY <1>6 DEF Before, KeysOf
  <2> QED BY <1>4, <1>5, <1>6, <2>1
<1>7. /\ q1 \in Seq(Keys) /\ Distinct(q1) /\ q1[Len(q1)] = k /\ Len(q1) \in 1..Len(q0) + 1
      /\ KeysOf(q1) = KeysOf(q0) \cup {k}
  BY <1>1, <1>4, MoveToEndIs DEF k
<1>8. Len(q1) >= 1
  BY <1>4, <1>7
<1>9. KeysOf(order') \subseteq KeysOf(q1)
  BY <1>3, <1>7, <1>8, EvictIs
<1> QED BY <1>1, <1>3, <1>4, <1>5, <1>6, <1>7, <1>8, <1>9 DEF k

LEMMA StoreInOrder ==
    ASSUME Inv, InOrder, NEW c \in Calls, Store(c) PROVE InOrder'
<1> DEFINE q0 == OnlyIn(order, DOMAIN Kept(c))
           q1 == MoveToEnd(q0, KeyOf(c))
           k == KeyOf(c)
<1>1. /\ KeyOf(c) \in Keys
      /\ q0 \in Seq(Keys) /\ Distinct(q0) /\ KeysOf(q0) = DOMAIN Kept(c)
      /\ \A x, y \in Keys : Before(q0, x, y) => Before(order, x, y)
      /\ q1 \in Seq(Keys) /\ Distinct(q1) /\ Len(q1) >= 1
      /\ order' = Evict(q1) /\ DOMAIN entries' = KeysOf(order')
      /\ recent' = MoveToEnd(recent, KeyOf(c))
  BY StoreOrder
<1>2. q1 = MoveToEnd(q0, k) /\ k \in Keys /\ recent' = MoveToEnd(recent, k)
  BY <1>1
<1> HIDE DEF q0, q1, k
<1>3. /\ order' \in Seq(Keys) /\ Distinct(order') /\ KeysOf(order') \subseteq KeysOf(q1)
      /\ \A x, y : Before(order', x, y) => Before(q1, x, y)
  BY <1>1, EvictIs
<1>4. recent' \in Seq(Keys) /\ Distinct(recent')
  BY <1>2, MoveToEndIs DEF InOrder
<1>5. KeysOf(q0) \subseteq KeysOf(recent)
  BY <1>1 DEF Kept, Only, InOrder
<1>6. \A x, y \in Keys : Before(q0, x, y) => Before(recent, x, y)
  BY <1>1 DEF InOrder
<1>7. /\ KeysOf(q1) \subseteq KeysOf(recent')
      /\ \A x, y \in Keys : Before(q1, x, y) => Before(recent', x, y)
  BY <1>1, <1>2, <1>5, <1>6, UsedLast DEF InOrder
<1>8. KeysOf(order') \subseteq KeysOf(recent')
  BY <1>3, <1>7
<1>9. \A x, y \in Keys : Before(order', x, y) => Before(recent', x, y)
  BY <1>3, <1>7
<1>10. KeysOf(order') = DOMAIN entries'
  BY <1>1
<1> QED BY <1>3, <1>4, <1>8, <1>9, <1>10 DEF InOrder, Distinct, KeysOf, Before

LEMMA NextInOrder == Inv /\ InOrder /\ [Next]_vars => InOrder'
<1> SUFFICES ASSUME Inv, InOrder, [Next]_vars PROVE InOrder'
  OBVIOUS
<1>1. ASSUME UNCHANGED <<entries, order, recent>> PROVE InOrder'
  BY <1>1 DEF InOrder, Distinct, KeysOf, Before
<1>2. ASSUME NEW c \in Calls,
             \/ \E t \in Texts : Begin(c, t)
             \/ \E by \in SUBSET Detectors : DetectorsAnswer(c, by)
             \/ Fails(c) \/ Merges(c) \/ Return(c)
      PROVE  InOrder'
  BY <1>1, <1>2 DEF Begin, DetectorsAnswer, Fails, Merges, Return
<1>3. ASSUME NEW c \in Calls, Hit(c) \/ Miss(c) \/ Store(c) PROVE InOrder'
  BY <1>3, HitInOrder, MissInOrder, StoreInOrder
<1>4. ASSUME Tick \/ \E c \in Configs : Reconfigure(c) PROVE InOrder'
  BY <1>1, <1>4 DEF Tick, Reconfigure
<1>5. ASSUME Shutdown PROVE InOrder'
  <2>1. order' = <<>> /\ DOMAIN entries' = {} /\ recent' = recent
    BY <1>5 DEF Shutdown
  <2> QED BY <2>1 DEF InOrder, Distinct, KeysOf, Before
<1> QED BY <1>1, <1>2, <1>3, <1>4, <1>5 DEF Next, vars

LEMMA OrderInvariant == Spec => [](Inv /\ InOrder)
<1>1. Init => InOrder
  BY InitInOrder
<1>2. Inv /\ InOrder /\ [Next]_vars => InOrder'
  BY NextInOrder
<1> QED BY <1>1, <1>2, Invariant, PTL DEF Spec

\* A sequence has no more keys than places.
LEMMA NoMoreKeys ==
    ASSUME NEW q \in Seq(Keys)
    PROVE  Cardinality(KeysOf(q)) \in Nat /\ Cardinality(KeysOf(q)) <= Len(q)
<1>1. Len(q) \in Nat /\ q \in [1..Len(q) -> Keys]
  OBVIOUS
<1>2. q \in Surjection(1..Len(q), KeysOf(q))
  BY <1>1 DEF Surjection, KeysOf
<1>3. IsFiniteSet(1..Len(q)) /\ Cardinality(1..Len(q)) = Len(q)
  BY <1>1, FS_Interval
<1>4. IsFiniteSet(KeysOf(q)) /\ Cardinality(KeysOf(q)) <= Len(q)
  BY <1>2, <1>3, FS_Surjection
<1> QED BY <1>4, FS_CardinalityType

\* A write leaves no more entries than the limit, and evicts only what was used less
\* recently than all it keeps, however hits, expiry and writes interleave
\* (EvictsLeastRecent).
THEOREM LeastRecentGoFirst == Spec => EvictsLeastRecent
<1>1. ASSUME Inv, InOrder, [Next]_vars, NEW c \in Calls, Writes(c)
      PROVE  /\ Cardinality(DOMAIN entries') <= MaxEntries
             /\ \A k \in DOMAIN entries \ DOMAIN entries' :
                   \/ Expired(k, call[c].now)
                   \/ \A j \in DOMAIN entries' : j = StoreKey(c) \/ Later(j, k)
  <2> DEFINE q0 == OnlyIn(order, DOMAIN Kept(c))
             q1 == MoveToEnd(q0, KeyOf(c))
  <2>1. Store(c)
    BY <1>1, WritingIsStore
  <2>2. /\ KeyOf(c) \in Keys
        /\ q0 \in Seq(Keys) /\ Distinct(q0) /\ KeysOf(q0) = DOMAIN Kept(c)
        /\ \A x, y \in Keys : Before(q0, x, y) => Before(order, x, y)
        /\ q1 \in Seq(Keys) /\ Distinct(q1) /\ Len(q1) >= 1
        /\ q1[Len(q1)] = KeyOf(c) /\ KeysOf(q1) = DOMAIN Kept(c) \cup {KeyOf(c)}
        /\ order' = Evict(q1) /\ DOMAIN entries' = KeysOf(order')
    BY <1>1, <2>1, StoreOrder
  <2>3. \A x, y \in Keys : Before(q1, x, y) =>
           x \in KeysOf(q0) \ {KeyOf(c)} /\ (y = KeyOf(c) \/ Before(q0, x, y))
    BY <2>2, MoveToEndIs
  <2> HIDE DEF q0, q1
  <2>4. /\ order' \in Seq(Keys) /\ Len(order') <= MaxEntries
        /\ KeysOf(order') \subseteq KeysOf(q1)
        /\ \A x \in KeysOf(q1) \ KeysOf(order'), y \in KeysOf(order') : Before(q1, x, y)
    BY <2>2, EvictIs
  <2>5. Cardinality(DOMAIN entries') <= MaxEntries
    <3>1. Cardinality(KeysOf(order')) <= Len(order') /\ Len(order') \in Nat
      BY <2>4, NoMoreKeys
    <3>2. MaxEntries \in Nat
      BY ConstantsOK
    <3>3. Cardinality(KeysOf(order')) \in Nat
      BY <2>4, NoMoreKeys
    <3> QED BY <2>2, <2>4, <3>1, <3>2, <3>3
  <2>6. ASSUME NEW k \in DOMAIN entries \ DOMAIN entries', ~ Expired(k, call[c].now),
               NEW j \in DOMAIN entries', j # StoreKey(c)
        PROVE  Later(j, k)
    <3>1. k \in DOMAIN Kept(c) /\ k \in Keys /\ j \in Keys
      <4>1. k \in Keys /\ KeysOf(q1) \subseteq Keys
        BY <1>1, <2>2, <2>6 DEF Inv, Types, KeysOf
      <4> QED BY <2>2, <2>4, <2>6, <4>1 DEF Kept, Only, Swept
    <3>2. Before(q1, k, j)
      BY <2>2, <2>4, <2>6, <3>1
    <3>3. Before(q0, k, j)
      BY <2>3, <2>6, <3>1, <3>2 DEF StoreKey
    <3>4. Before(recent, k, j)
      BY <1>1, <2>2, <3>1, <3>3 DEF InOrder
    <3> QED BY <3>4 DEF Before, Later
  <2> QED BY <2>5, <2>6
<1>2. Inv /\ InOrder /\ [Next]_vars =>
        [\A c \in Calls : Writes(c) =>
           /\ Cardinality(DOMAIN entries') <= MaxEntries
           /\ \A k \in DOMAIN entries \ DOMAIN entries' :
                 \/ Expired(k, call[c].now)
                 \/ \A j \in DOMAIN entries' : j = StoreKey(c) \/ Later(j, k)]_vars
  BY <1>1
<1> QED BY <1>2, OrderInvariant, PTL DEF Spec, EvictsLeastRecent
=============================================================================
