--------------------------- MODULE DetectionCache ---------------------------
(***************************************************************************)
(* The cross-request cache of detection results: pii/cache.py and its only  *)
(* user, PIIEngine._detect_all_detailed, with PIIEngine.shutdown.           *)
(*                                                                         *)
(* Several calls run at once, in one event loop or in several threads.  A   *)
(* call computes its key from the configuration it sees, looks the key up,  *)
(* and on a miss awaits the detectors, merges and stores under that same    *)
(* key.  get and put read the clock before they take the lock; what they do *)
(* under the lock is one step.                                              *)
(*                                                                         *)
(* The digest of the key is taken to be injective, and the language to be   *)
(* part of the text.  An operator may change the live configuration at any  *)
(* time: the detectors and the merge read theirs when they run.             *)
(***************************************************************************)
EXTENDS Integers, Sequences, FiniteSets

CONSTANTS
    Calls,      \* concurrent calls of _detect_all_detailed; each may run again
    Texts,
    Configs,
    Detectors,
    MaxEntries, \* detection_cache.max_entries
    TTL,        \* detection_cache.ttl_seconds
    MaxClock,   \* bound: the clock
    MaxChanges, \* bound: changes of the configuration
    None

ASSUME ConstantsOK ==
    /\ Detectors # {}
    /\ MaxEntries \in Nat \ {0}
    /\ TTL \in Nat \ {0}
    /\ MaxClock \in Nat /\ MaxChanges \in Nat
    /\ None \notin Texts \cup Configs

Keys == [text : Texts, config : Configs]

\* A detection result: which detectors contributed, under which configuration
\* they ran and under which one their results were merged.
Results == [text : Texts, by : SUBSET Detectors, ran : Configs, merged : Configs]
Fresh(t, c) == [text |-> t, by |-> Detectors, ran |-> c, merged |-> c]

\* stored is the timestamp of the entry.  History: when it was really written,
\* and how many changes of configuration its run had seen when it made the key.
Entries == [stored : Nat, result : Results, written : Nat, born : Nat]

VARIABLES
    clock,
    config,   \* the live configuration
    changes,  \* how often it has changed
    down,     \* shutdown() has cleared the cache
    entries,  \* DetectionCache._entries: key -> entry
    order,    \* its order: least recently used first
    recent,   \* history: every key by its last use, oldest first
    call      \* the calls in flight

vars == <<clock, config, changes, down, entries, order, recent, call>>

Idle == [pc |-> "idle", text |-> None, config |-> None, now |-> 0, born |-> 0,
         ran |-> None, by |-> {}, result |-> None, hit |-> None]

KeyOf(c) == [text |-> call[c].text, config |-> call[c].config]

Only(f, ks) == [k \in DOMAIN f \cap ks |-> f[k]]

\* The order of the keys of ks when the others are gone, and the order after a key
\* is moved to, or put at, the end.
OnlyIn(q, ks) ==
    LET upTo[n \in 0..Len(q)] ==
          IF n = 0 THEN <<>>
          ELSE IF q[n] \in ks THEN Append(upTo[n - 1], q[n]) ELSE upTo[n - 1]
    IN  upTo[Len(q)]
MoveToEnd(q, k) == Append(OnlyIn(q, Keys \ {k}), k)

Init ==
    /\ clock = 0 /\ config \in Configs /\ changes = 0 /\ down = FALSE
    /\ entries = <<>> /\ order = <<>> /\ recent = <<>>
    /\ call = [c \in Calls |-> Idle]

-----------------------------------------------------------------------------
(* A call *)

\* The fingerprint is computed and get() reads the clock.
Begin(c, t) ==
    /\ call[c].pc = "idle"
    /\ call' = [call EXCEPT ![c] = [Idle EXCEPT !.pc = "lookup", !.text = t,
                  !.config = config, !.now = clock, !.born = changes]]
    /\ UNCHANGED <<clock, config, changes, down, entries, order, recent>>

\* get() under the lock.
Expired(k, now) == now - entries[k].stored > TTL

HitSliding(c) ==
    LET k == KeyOf(c) IN
    /\ call[c].pc = "lookup" /\ k \in DOMAIN entries /\ ~Expired(k, call[c].now)
    /\ entries' = [entries EXCEPT ![k].stored = call[c].now]
    /\ order' = MoveToEnd(order, k)
    /\ recent' = MoveToEnd(recent, k)
    /\ call' = [call EXCEPT ![c].pc = "done", ![c].result = entries[k].result,
                            ![c].hit = entries[k]]
    /\ UNCHANGED <<clock, config, changes, down>>
HitWithoutMove(c) ==
    LET k == KeyOf(c) IN
    /\ call[c].pc = "lookup" /\ k \in DOMAIN entries /\ ~Expired(k, call[c].now)
    /\ recent' = MoveToEnd(recent, k)
    /\ call' = [call EXCEPT ![c].pc = "done", ![c].result = entries[k].result,
                            ![c].hit = entries[k]]
    /\ UNCHANGED <<clock, config, changes, down, entries, order>>
Hit(c) ==
    LET k == KeyOf(c) IN
    /\ call[c].pc = "lookup" /\ k \in DOMAIN entries /\ ~Expired(k, call[c].now)
    /\ order' = MoveToEnd(order, k)
    /\ recent' = MoveToEnd(recent, k)
    /\ call' = [call EXCEPT ![c].pc = "done", ![c].result = entries[k].result,
                            ![c].hit = entries[k]]
    /\ UNCHANGED <<clock, config, changes, down, entries>>

\* A miss deletes an expired entry of that key.
Miss(c) ==
    LET k == KeyOf(c) IN
    /\ call[c].pc = "lookup"
    /\ k \in DOMAIN entries => Expired(k, call[c].now)
    /\ entries' = Only(entries, Keys \ {k})
    /\ order' = OnlyIn(order, Keys \ {k})
    /\ call' = [call EXCEPT ![c].pc = "detect"]
    /\ UNCHANGED <<clock, config, changes, down, recent>>

\* gather() returns: every detector has answered or raised.
DetectorsAnswer(c, by) ==
    /\ call[c].pc = "detect"
    /\ call' = [call EXCEPT ![c].pc = "merge", ![c].by = by, ![c].ran = config]
    /\ UNCHANGED <<clock, config, changes, down, entries, order, recent>>

\* A detector that raised fails the call, and so may the merge or the allow list.
Fails(c) ==
    /\ call[c].pc = "merge"
    /\ call' = [call EXCEPT ![c] = [Idle EXCEPT !.pc = "failed"]]
    /\ UNCHANGED <<clock, config, changes, down, entries, order, recent>>

\* The results are merged and put() reads the clock.
UsableWithSome(by) == by # {}
Usable(by) == by = Detectors
Merges(c) ==
    /\ call[c].pc = "merge" /\ Usable(call[c].by)
    /\ call' = [call EXCEPT ![c].pc = "store", ![c].now = clock, ![c].by = {}, ![c].ran = None,
                  ![c].result = [text |-> call[c].text, by |-> call[c].by,
                                 ran |-> call[c].ran, merged |-> config]]
    /\ UNCHANGED <<clock, config, changes, down, entries, order, recent>>

\* The key a result is stored under was computed before the detection.
StoreKeyNow(c) == [text |-> call[c].text, config |-> config]
StoreKey(c) == KeyOf(c)

\* _purge_expired looks at every entry: the order is not by age.
SweptWhileExpired(now) ==
    {k \in DOMAIN entries :
        \E i \in DOMAIN order :
            /\ order[i] = k
            /\ \A j \in 1..i : Expired(order[j], now)}
Swept(now) == {k \in DOMAIN entries : Expired(k, now)}

\* popitem(last=False) while there are too many entries.
Evict(q) == IF Len(q) > MaxEntries THEN SubSeq(q, Len(q) - MaxEntries + 1, Len(q)) ELSE q

\* put() under the lock: sweep, insert, evict.
With(f, k, e) == [x \in DOMAIN f \cup {k} |-> IF x = k THEN e ELSE f[x]]
Store(c) ==
    LET k == StoreKey(c)
        now == call[c].now
        swept == Only(entries, Keys \ Swept(now))
        kept == Evict(MoveToEnd(OnlyIn(order, DOMAIN swept), k))
        entry == [stored |-> now, result |-> call[c].result,
                  written |-> clock, born |-> call[c].born]
    IN
    /\ call[c].pc = "store"
    /\ order' = kept
    /\ entries' = Only(With(swept, k, entry), {kept[i] : i \in DOMAIN kept})
    /\ recent' = MoveToEnd(recent, k)
    /\ call' = [call EXCEPT ![c].pc = "done"]
    /\ UNCHANGED <<clock, config, changes, down>>

\* The call returned and the next one begins from nothing.
Return(c) ==
    /\ call[c].pc \in {"done", "failed"}
    /\ call' = [call EXCEPT ![c] = Idle]
    /\ UNCHANGED <<clock, config, changes, down, entries, order, recent>>

-----------------------------------------------------------------------------
(* Around the calls *)

Tick ==
    /\ clock < MaxClock
    /\ clock' = clock + 1
    /\ UNCHANGED <<config, changes, down, entries, order, recent, call>>

Reconfigure(c) ==
    /\ changes < MaxChanges
    /\ c # config
    /\ config' = c
    /\ changes' = changes + 1
    /\ UNCHANGED <<clock, down, entries, order, recent, call>>

\* PIIEngine.shutdown clears the cache; calls in flight are not cancelled, and
\* no later call begins.
Shutdown ==
    /\ ~down
    /\ down' = TRUE
    /\ entries' = <<>> /\ order' = <<>>
    /\ UNCHANGED <<clock, config, changes, recent, call>>

Next ==
    \/ \E c \in Calls :
          \/ \E t \in Texts : ~down /\ Begin(c, t)
          \/ Hit(c)
          \/ Miss(c)
          \/ \E by \in SUBSET Detectors : DetectorsAnswer(c, by)
          \/ Fails(c)
          \/ Merges(c)
          \/ Store(c)
          \/ Return(c)
    \/ Tick
    \/ \E c \in Configs : Reconfigure(c)
    \/ Shutdown

Spec == Init /\ [][Next]_vars

-----------------------------------------------------------------------------
(* Properties *)

CallType ==
    [pc : {"idle", "lookup", "detect", "merge", "store", "done", "failed"},
     text : Texts \cup {None}, config : Configs \cup {None},
     now : Nat, born : Nat, ran : Configs \cup {None}, by : SUBSET Detectors,
     result : Results \cup {None}, hit : Entries \cup {None}]

\* The order lists the entries, each once, and there are never too many.
TypeOK ==
    /\ clock \in 0..MaxClock /\ config \in Configs /\ changes \in 0..MaxChanges
    /\ down \in BOOLEAN
    /\ DOMAIN entries \subseteq Keys
    /\ \A k \in DOMAIN entries : entries[k] \in Entries
    /\ order \in Seq(Keys) /\ recent \in Seq(Keys)
    /\ {order[i] : i \in DOMAIN order} = DOMAIN entries
    /\ \A i, j \in DOMAIN order : order[i] = order[j] => i = j
    /\ Len(order) <= MaxEntries
    /\ call \in [Calls -> CallType]

Answered(c) == call[c].pc = "done"
WasHit(c) == call[c].hit # None

\* Fail closed: no answer, cached or not, lacks the findings of a detector that
\* raised, and every answer is about the caller's own text.
AnswersComplete ==
    \A c \in Calls : Answered(c) =>
        call[c].result.by = Detectors /\ call[c].result.text = call[c].text

\* A hit under the live configuration is what a fresh detection would report,
\* unless the configuration changed away and back since the run that stored it.
Serves(c) == call[c].pc = "lookup" /\ call'[c].pc = "done"
UpToDate(c) == config = call[c].config
HitsFresh ==
    [][\A c \in Calls : Serves(c) /\ UpToDate(c) =>
          \/ call'[c].result = Fresh(call[c].text, config)
          \/ changes - call'[c].hit.born >= 2]_vars

\* An entry is served for at most the TTL after it was written, however often it
\* is used (schema.py:379: "An expired entry can never be served again").
HitsInTime ==
    \A c \in Calls : Answered(c) /\ WasHit(c) =>
        call[c].now - call[c].hit.written <= TTL

\* A write leaves no entry behind that had expired when it began: PII-derived
\* metadata goes with the first write after its expiry.
Writes(c) == call[c].pc = "store" /\ call'[c].pc = "done"
WritesSweep ==
    [][\A c \in Calls : Writes(c) =>
          \A k \in DOMAIN entries' : call[c].now - entries'[k].stored <= TTL]_vars

\* A write leaves no more than the limit, and what it drops for that was used less
\* recently than all it keeps.
Later(j, k) == \E m, n \in DOMAIN recent : recent[m] = k /\ recent[n] = j /\ m < n
EvictsLeastRecent ==
    [][\A c \in Calls : Writes(c) =>
          /\ Cardinality(DOMAIN entries') <= MaxEntries
          /\ \A k \in DOMAIN entries \ DOMAIN entries' :
                \/ Expired(k, call[c].now)
                \/ \A j \in DOMAIN entries' : j = StoreKey(c) \/ Later(j, k)]_vars
=============================================================================
